------------------------------ MODULE NrfRegistry ------------------------------
(***************************************************************************)
(* The registry of the NRF (oai-nrf/src/nrf_app): network functions (NFs)  *)
(* register, send heartbeats, and deregister; one that falls silent is     *)
(* suspended by the heartbeat timer of its profile and later swept from    *)
(* the registry.                                                           *)
(*                                                                         *)
(* Requests are served by HTTP threads.  The timers are slots that one     *)
(* task thread calls, tick after tick.  The two meet in the profile and in *)
(* the lists of suspended NFs, whose locks protect single accesses only:   *)
(* each step below is what a thread does between two of them.              *)
(*                                                                         *)
(* Time is in ticks and timers count down, so it needs no bound.  The task *)
(* thread counts its ticks and the requests read the wall clock: a tick    *)
(* that comes late is never made up for, and the two drift apart by `lag'. *)
(***************************************************************************)
EXTENDS Naturals

CONSTANTS
  NFs,          \* nf_instance_ids
  Punctual,     \* NFs that leave less than Heartbeat between two heartbeats
  Heartbeat,    \* the heartbeat period the NRF asks of every NF
  Margin,       \* the 2 s added to the first period after a heartbeat
  Interval,     \* suspended_nf_interval
  Phase,        \* how far the NRF started into an interval of the wall clock
  MaxLag,       \* bound: ticks the task thread loses
  MaxRequests,  \* bound: requests of each NF, other than a punctual heartbeat
  Off           \* a slot that is not connected; no object

ASSUME RegistryAssumption ==
  /\ Punctual \subseteq NFs
  /\ Heartbeat \in Nat \ {0} /\ Margin \in Nat
  /\ Interval \in Nat \ {0} /\ Phase \in 0 .. Interval - 1
  /\ MaxLag \in Nat /\ MaxRequests \in [NFs -> Nat]
  /\ Off \notin Nat

VARIABLES
  clock,       \* system_clock, modulo two intervals
  lag,         \* ticks of the wall clock the task thread has not counted
  sweepIn,     \* ticks until the slot handle_remove_suspended_nf is called
  registered,  \* the keys of instance_id2nrf_profile
  profile,     \* the nrf_profile of an NF while the map or a thread holds it
  suspended,   \* suspended_nf[0] and suspended_nf[1]
  task,        \* the slot the task thread is in
  http,        \* where the thread is that serves a request of the NF
  requests,    \* requests of the NF that count
  quiet,       \* time since the last heartbeat of a punctual NF
  lapsed       \* NFs the periodic timer suspended since they registered

lists == <<registered, suspended>>
env   == <<requests, quiet>>
vars  == <<clock, lag, sweepIn, lists, profile, task, http, env, lapsed>>

FirstInterval == 2 * Heartbeat
LongestWait   == FirstInterval + Margin + MaxLag
Countdown     == (0 .. LongestWait) \cup {Off}

Profiles == [status : {"REGISTERED", "SUSPENDED"}, updated : BOOLEAN,
             first : Countdown, hb : Countdown, firstUpdate : BOOLEAN]

ASSUME NoProfileAssumption == Off \notin Profiles

NewProfile == [status |-> "REGISTERED", updated |-> FALSE, first |-> Off, hb |-> Off,
               firstUpdate |-> TRUE]

(* A slot works on its profile by a bare pointer: `alive' turns false when  *)
(* the object is destroyed under it.                                        *)
Tasks == [at : {"suspend", "notify", "list", "clear"}, slot : {"first", "hb"},
          nf : NFs, alive : BOOLEAN]
           \cup [at : {"idle", "sweep"}, bucket : 0 .. 1]
Idle  == [at |-> "idle", bucket |-> 0]

TypeOK ==
  /\ clock \in 0 .. 2 * Interval - 1
  /\ lag \in 0 .. MaxLag
  /\ sweepIn \in 0 .. Interval
  /\ registered \subseteq NFs
  /\ profile \in [NFs -> Profiles \cup {Off}]
  /\ suspended \in [0 .. 1 -> SUBSET NFs]
  /\ task \in Tasks
  /\ http \in [NFs -> {"idle", "monitor", "disconnect", "subscribe", "status",
                       "unlist"}]
  /\ \A nf \in NFs : requests[nf] \in 0 .. MaxRequests[nf]
  /\ quiet \in [NFs -> 0 .. Heartbeat]
  /\ lapsed \subseteq NFs

Init ==
  /\ clock = Phase /\ lag = 0 /\ sweepIn = Interval
  /\ registered = {} /\ suspended = [b \in 0 .. 1 |-> {}]
  /\ profile = [nf \in NFs |-> Off]
  /\ task = Idle /\ http = [nf \in NFs |-> "idle"]
  /\ requests = [nf \in NFs |-> 0] /\ quiet = [nf \in NFs |-> 0]
  /\ lapsed = {}

--------------------------------------------------------------------------------
Ticked(c) == IF c = Off THEN Off ELSE c - 1

Due(nf, slot) == profile[nf] # Off /\ profile[nf][slot] = 0

(* A request is served within a tick, and a punctual NF sends in time.      *)
TimeMayPass ==
  \A nf \in NFs :
    http[nf] = "idle" /\ (nf \in Punctual \cap registered => quiet[nf] + 1 < Heartbeat)

ClockAdvances ==
  /\ TimeMayPass
  /\ clock' = (clock + 1) % (2 * Interval)
  /\ quiet' = [nf \in NFs |-> IF nf \in Punctual \cap registered THEN quiet[nf] + 1 ELSE 0]

(* manage_tasks goes to the next tick when every slot that is due was       *)
(* called.                                                                  *)
Tick ==
  /\ task = Idle
  /\ sweepIn # 0 /\ \A nf \in NFs : ~Due(nf, "first") /\ ~Due(nf, "hb")
  /\ ClockAdvances
  /\ sweepIn' = sweepIn - 1
  /\ profile' = [nf \in NFs |-> IF profile[nf] = Off THEN Off
                   ELSE [profile[nf] EXCEPT !.first = Ticked(@), !.hb = Ticked(@)]]
  /\ UNCHANGED <<lag, lists, task, http, requests, lapsed>>

(* wait_for_cycle ignores how many periods of its timer have expired: a     *)
(* tick is lost when the thread is late or a subscriber slow to notify.     *)
LateTick ==
  /\ lag < MaxLag
  /\ task.at \in {"idle", "notify"}
  /\ ClockAdvances
  /\ lag' = lag + 1
  /\ UNCHANGED <<sweepIn, lists, profile, task, http, requests, lapsed>>

--------------------------------------------------------------------------------
(* The task thread.                                                         *)

Bucket      == (clock \div Interval) % 2
OtherBucket == 1 - Bucket

(* handle_remove_suspended_nf, the first slot of its tick: the profiles on  *)
(* the list of the other interval leave the registry, whatever their status *)
(* has become, and the list is cleared when the lock is taken.              *)
Sweep ==
  /\ task = Idle
  /\ sweepIn = 0
  /\ sweepIn' = Interval
  /\ task' = [at |-> "sweep", bucket |-> OtherBucket]
  /\ registered' = registered \ suspended[OtherBucket]
  /\ profile' = [nf \in NFs |-> IF nf \in suspended[OtherBucket] /\ http[nf] = "idle"
                                THEN Off ELSE profile[nf]]
  /\ UNCHANGED <<clock, lag, suspended, http, env, lapsed>>

ClearList ==
  /\ task.at = "sweep"
  /\ suspended' = [suspended EXCEPT ![task.bucket] = {}]
  /\ task' = Idle
  /\ UNCHANGED <<clock, lag, sweepIn, registered, profile, http, env, lapsed>>

PeriodShort(slot) == IF slot = "first" THEN FirstInterval ELSE Heartbeat - 1

Period(slot) == IF slot = "first" THEN FirstInterval ELSE Heartbeat

(* handle_heartbeat_timeout_nfregistration and _nfupdate: what happens next *)
(* depends on the flag as it is now.                                        *)
CallSlot(nf, slot) ==
  /\ task = Idle
  /\ sweepIn # 0
  /\ Due(nf, slot)
  /\ profile' = [profile EXCEPT ![nf][slot] = Period(slot)]
  /\ task' = [at |-> IF profile[nf].updated THEN "clear" ELSE "suspend",
              slot |-> slot, nf |-> nf, alive |-> TRUE]
  /\ UNCHANGED <<clock, lag, sweepIn, lists, http, env, lapsed>>

(* A slot writes to its profile; in a destroyed one nothing can be seen.    *)
InSlot(at)     == task.at = at
Goes(at)       == task' = [task EXCEPT !.at = at]
Writes(p)      == profile' = IF task.alive THEN [profile EXCEPT ![task.nf] = p] ELSE profile
SlotProfile    == profile[task.nf]

Suspend ==
  /\ InSlot("suspend")
  /\ Writes([SlotProfile EXCEPT !.status = "SUSPENDED"])
  /\ Goes(IF task.slot = "first" THEN "list" ELSE "notify")
  /\ UNCHANGED <<clock, lag, sweepIn, lists, http, env, lapsed>>

(* The subscribers are notified, one HTTP request after the other, and only *)
(* then the periodic timer is disconnected.                                 *)
Notify ==
  /\ InSlot("notify")
  /\ Writes([SlotProfile EXCEPT !.hb = Off])
  /\ Goes("list")
  /\ lapsed' = IF task.alive THEN lapsed \cup {task.nf} ELSE lapsed
  /\ UNCHANGED <<clock, lag, sweepIn, lists, http, env>>

AddedNever(nf) == suspended
Added(nf)      == [suspended EXCEPT ![Bucket] = @ \cup {nf}]

(* add_to_suspended_list; in a destroyed profile the id may be garbage.     *)
List ==
  /\ InSlot("list")
  /\ \/ suspended' = Added(task.nf)
     \/ ~task.alive /\ suspended' = suspended
  /\ Goes("clear")
  /\ UNCHANGED <<clock, lag, sweepIn, registered, profile, http, env, lapsed>>

NotCleared(p) == IF task.slot = "first" THEN [p EXCEPT !.first = Off] ELSE p
Cleared(p)    == [p EXCEPT !.updated = FALSE,
                           !.first = IF task.slot = "first" THEN Off ELSE @]

Clear ==
  /\ InSlot("clear")
  /\ Writes(Cleared(SlotProfile))
  /\ task' = Idle
  /\ UNCHANGED <<clock, lag, sweepIn, lists, http, env, lapsed>>

--------------------------------------------------------------------------------
(* The HTTP threads.  An NF waits for the answer before its next request.   *)

Destroyed(nf) == IF task.at \in {"idle", "sweep"} \/ task.nf # nf THEN task
                 ELSE [task EXCEPT !.alive = FALSE]

Counts(nf) ==
  /\ requests[nf] < MaxRequests[nf]
  /\ requests' = [requests EXCEPT ![nf] = @ + 1]

(* The thread lets go of the profile; if it left the registry meanwhile     *)
(* nobody holds it any more.                                                *)
Released(nf, p) == IF nf \in registered THEN p ELSE Off

(* handle_register_nf_instance: a new profile takes the place of an old     *)
(* one.  No list of suspended NFs is looked at.                             *)
Register(nf) ==
  /\ http[nf] = "idle"
  /\ Counts(nf)
  /\ registered' = registered \cup {nf}
  /\ profile' = [profile EXCEPT ![nf] = NewProfile]
  /\ task' = Destroyed(nf)
  /\ http' = [http EXCEPT ![nf] = "monitor"]
  /\ quiet' = [quiet EXCEPT ![nf] = 0]
  /\ lapsed' = lapsed \ {nf}
  /\ UNCHANGED <<clock, lag, sweepIn, suspended>>

(* subscribe_heartbeat_timeout_nfregistration.                              *)
Monitor(nf) ==
  /\ http[nf] = "monitor"
  /\ profile' = [profile EXCEPT ![nf] =
                   Released(nf, [@ EXCEPT !.first = FirstInterval + lag])]
  /\ http' = [http EXCEPT ![nf] = "idle"]
  /\ UNCHANGED <<clock, lag, sweepIn, lists, task, env, lapsed>>

(* handle_update_nf_instance with the heartbeat of an NF in the registry:   *)
(* replace_profile_info sets the status at once.                            *)
Beat(nf) ==
  /\ http[nf] = "idle"
  /\ nf \in registered
  /\ IF nf \in Punctual THEN quiet[nf] > 0 /\ UNCHANGED requests ELSE Counts(nf)
  /\ profile' = [profile EXCEPT ![nf].status = "REGISTERED"]
  /\ http' = [http EXCEPT ![nf] = "disconnect"]
  /\ UNCHANGED <<clock, lag, sweepIn, lists, task, quiet, lapsed>>

(* unsubscribe_heartbeat_timeout_nfregistration.                            *)
Disconnect(nf) ==
  /\ http[nf] = "disconnect"
  /\ profile' = [profile EXCEPT ![nf].first = Off]
  /\ http' = [http EXCEPT ![nf] = "subscribe"]
  /\ UNCHANGED <<clock, lag, sweepIn, lists, task, env, lapsed>>

SubscribedInMs(p) ==
  IF p.firstUpdate
  THEN [p EXCEPT !.hb = Heartbeat + Margin * 1000 + lag, !.firstUpdate = FALSE] ELSE p

SubscribedNot(p) == [p EXCEPT !.firstUpdate = FALSE]

(* subscribe_heartbeat_timeout_nfupdate, which the handler calls when it    *)
(* has disconnected the first timer or the periodic one is not connected:   *)
(* only the first call in the life of a profile connects it.                *)
Subscribed(p) ==
  IF p.firstUpdate
  THEN [p EXCEPT !.hb = Heartbeat + Margin + lag, !.firstUpdate = FALSE] ELSE p

Subscribe(nf) ==
  /\ http[nf] = "subscribe"
  /\ profile' = [profile EXCEPT ![nf] = Subscribed(@)]
  /\ http' = [http EXCEPT ![nf] = "status"]
  /\ UNCHANGED <<clock, lag, sweepIn, lists, task, env, lapsed>>

(* set_nf_status and set_status_updated.                                    *)
SetStatus(nf) ==
  /\ http[nf] = "status"
  /\ profile' = [profile EXCEPT ![nf].status = "REGISTERED", ![nf].updated = TRUE]
  /\ http' = [http EXCEPT ![nf] = "unlist"]
  /\ UNCHANGED <<clock, lag, sweepIn, lists, task, env, lapsed>>

(* remove_from_suspended_list looks at the second list only if the NF was   *)
(* not on the first.                                                        *)
Unlist(nf) ==
  /\ http[nf] = "unlist"
  /\ suspended' = IF nf \in suspended[0] THEN [suspended EXCEPT ![0] = @ \ {nf}]
                                         ELSE [suspended EXCEPT ![1] = @ \ {nf}]
  /\ profile' = [profile EXCEPT ![nf] = Released(nf, @)]
  /\ task' = IF nf \in registered THEN task ELSE Destroyed(nf)
  /\ http' = [http EXCEPT ![nf] = "idle"]
  /\ quiet' = [quiet EXCEPT ![nf] = 0]
  /\ UNCHANGED <<clock, lag, sweepIn, registered, requests, lapsed>>

(* handle_deregister_nf_instance: the NF stays on a list it is on.          *)
Deregister(nf) ==
  /\ http[nf] = "idle"
  /\ nf \in registered
  /\ Counts(nf)
  /\ registered' = registered \ {nf}
  /\ profile' = [profile EXCEPT ![nf] = Off]
  /\ task' = Destroyed(nf)
  /\ UNCHANGED <<clock, lag, sweepIn, suspended, http, quiet, lapsed>>

--------------------------------------------------------------------------------
TaskThread ==
  \/ Sweep \/ ClearList
  \/ \E nf \in NFs, slot \in {"first", "hb"} : CallSlot(nf, slot)
  \/ Suspend \/ Notify \/ List \/ Clear

Serve(nf) == Monitor(nf) \/ Disconnect(nf) \/ Subscribe(nf) \/ SetStatus(nf) \/ Unlist(nf)

Next ==
  \/ Tick \/ LateTick
  \/ TaskThread
  \/ \E nf \in NFs : Register(nf) \/ Beat(nf) \/ Deregister(nf) \/ Serve(nf)

(* The clock and the threads keep going, and punctual NFs send heartbeats;  *)
(* no other request need ever come.                                         *)
Fairness ==
  /\ WF_vars(Tick) /\ WF_vars(TaskThread)
  /\ \A nf \in NFs : WF_vars(Serve(nf))
  /\ \A nf \in Punctual : WF_vars(Beat(nf))

Spec     == Init /\ [][Next]_vars
FairSpec == Spec /\ Fairness

--------------------------------------------------------------------------------
OnList(nf)    == nf \in suspended[0] \cup suspended[1]
Connected(nf) == profile[nf].first # Off \/ profile[nf].hb # Off
AtRest(nf)    == http[nf] = "idle" /\ (task.at \in {"idle", "sweep"} \/ task.nf # nf)

(* An NF that sends its heartbeats in time is never suspended, nor put on a *)
(* list the sweep works off, wherever the timers of the task thread and the *)
(* steps of its requests fall.                                              *)
PunctualIsKept ==
  \A nf \in Punctual :
    ~OnList(nf) /\ (nf \in registered => profile[nf].status = "REGISTERED")

(* From its registration to its first lapse an NF that the NRF offers to    *)
(* others is watched by a timer, although the first timer is replaced by    *)
(* the periodic one while the task thread may be calling either.            *)
WatchedUntilLapse ==
  \A nf \in registered \ lapsed :
    AtRest(nf) /\ profile[nf].status = "REGISTERED" => Connected(nf)

(* An NF that registers and never sends a heartbeat leaves the registry.    *)
NeverHeardIsRemoved ==
  \A nf \in NFs :
    LET neverHeard == nf \in registered /\ profile[nf].firstUpdate
    IN neverHeard ~> ~neverHeard

(* An NF that was heard and is watched is suspended once it is silent.      *)
(* (A heartbeat that comes while the slot notifies the subscribers leaves   *)
(* it REGISTERED but no longer watched: hence AtRest.)                      *)
SilentIsSuspended ==
  \A nf \in NFs \ Punctual :
    (nf \in registered /\ profile[nf].hb # Off /\ AtRest(nf))
      ~> (nf \in registered => profile[nf].status = "SUSPENDED")

(* handle_update_nf_instance: "Subscribe again to heartbeat timeout if not  *)
(* done (e.g., change status from SUSPENDED to REGISTERED)".                *)
WatchedAgain ==
  \A nf \in registered :
    AtRest(nf) /\ profile[nf].status = "REGISTERED" => Connected(nf)
================================================================================
