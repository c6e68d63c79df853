------------------------------- MODULE IttiTimer -------------------------------
(***************************************************************************)
(* The timers of ITTI (oai-smf/src/itti/itti.cpp; AMF and UPF carry the    *)
(* same code).  Any thread sets up and removes timers; one thread,         *)
(* timer_manager_task, takes the earliest out of the set, waits for its    *)
(* time, and sends TIME_OUT to the task that asked for it.                 *)
(*                                                                         *)
(* The set is guarded by m_timers, but the manager reads current_timer     *)
(* without a lock, and a notification of c_timeout is lost unless the      *)
(* manager is already waiting: every step of the manager below is what it  *)
(* does between two accesses that another thread can come between.  The    *)
(* increment of timer_id has no lock either.                               *)
(***************************************************************************)
EXTENDS Naturals

CONSTANTS
  Intervals,   \* the intervals timers are set up with
  Ties,        \* can two running timers have the same time_out?
  Racing,      \* can two threads be in increment_timer_id at once?
  Shutdown,    \* is the process asked to terminate?
  Never,       \* the time_out of null_timer, 2^32 - 1 seconds from the start
  MaxTime,     \* bound: the clock stops there, and no time-out is later
  MaxTimers,   \* bound: timers set up
  MaxRemoves   \* bound: calls of timer_remove

ASSUME TimerAssumption ==
  /\ Intervals \subseteq Nat
  /\ Ties \in BOOLEAN /\ Racing \in BOOLEAN /\ Shutdown \in BOOLEAN
  /\ MaxTime \in Nat /\ MaxTimers \in Nat /\ MaxRemoves \in Nat
  /\ Never \in Nat /\ Never > MaxTime

VARIABLES
  now,        \* system_clock
  calls,      \* calls of timer_setup so far; the timer of a call is known by its number
  lastId,     \* timer_id
  reading,    \* timers whose thread has read timer_id and not written it back
  begun,      \* timers whose thread has not taken m_timers yet
  timers,     \* the std::set, ordered by time_out
  current,    \* current_timer
  pc,         \* where timer_manager_task is
  deadline,   \* when its wait_for returns
  woken,      \* was c_timeout notified while it waits?
  toTask,     \* the destination it read: a task, or TASK_NONE
  terminate,  \* the flag of send_terminate_msg
  process,    \* how far the shutdown of the process is
  fired,      \* timers whose TIME_OUT was sent
  removed,    \* timers removed before their TIME_OUT was sent
  removes     \* calls of timer_remove so far

ids     == <<calls, lastId, reading, begun>>
manager == <<pc, deadline, toTask>>
history == <<fired, removed>>
vars == <<now, ids, timers, current, manager, woken, terminate, process, history,
          removes>>

Timer     == [key : 1 .. MaxTimers, id : Nat \ {0}, at : 0 .. MaxTime]
NullTimer == [key |-> 0, id |-> 0, at |-> Never]

TypeOK ==
  /\ now \in 0 .. MaxTime
  /\ calls \in 0 .. MaxTimers /\ lastId \in Nat
  /\ reading \subseteq Timer /\ begun \subseteq Timer /\ timers \subseteq Timer
  /\ current \in Timer \cup {NullTimer}
  /\ pc \in {"top", "pick", "check", "enter", "wait", "signal", "send", "reinsert",
             "stopped"}
  /\ deadline \in (0 .. MaxTime) \cup {Never}
  /\ woken \in BOOLEAN /\ toTask \in BOOLEAN /\ terminate \in BOOLEAN
  /\ process \in {"running", "terminating", "joining", "joined", "aborted"}
  /\ fired \subseteq 1 .. MaxTimers
  /\ removed \subseteq 1 .. MaxTimers
  /\ removes \in 0 .. MaxRemoves

Init ==
  /\ now = 0 /\ calls = 0 /\ lastId = 0 /\ reading = {} /\ begun = {}
  /\ timers = {} /\ current = NullTimer
  /\ pc = "top" /\ deadline = 0 /\ woken = FALSE /\ toTask = FALSE
  /\ terminate = FALSE /\ process = "running"
  /\ fired = {} /\ removed = {} /\ removes = 0

--------------------------------------------------------------------------------
(* current_timer is a running timer from when it was picked until its       *)
(* TIME_OUT is sent; afterwards it keeps its value.                         *)
Running == IF current = NullTimer \/ current.key \in fired THEN {} ELSE {current}

Setting == reading \cup begun
Pending == Setting \cup timers \cup Running

InsertedIfEmpty(t) == IF timers = {} THEN {t} ELSE timers

(* std::set::insert drops a timer whose time_out equals that of another.    *)
Inserted(t) == IF \E u \in timers : u.at = t.at THEN timers ELSE timers \cup {t}

ReinsertedAlways == Inserted(current)
Reinserted       == IF current = NullTimer THEN timers ELSE Inserted(current)

(* A notification reaches the manager only while it waits.                  *)
Notify == woken' = (woken \/ pc = "wait")

Tasks == process \in {"running", "terminating"}

(* timer_setup.  ++timer_id has no lock: a thread reads it, and writes it   *)
(* back later.  What is read of the clock afterwards is taken here, as an   *)
(* interruption before that is the same as a longer interval.               *)
ReadId(interval) ==
  LET t == [key |-> calls + 1, id |-> lastId + 1, at |-> now + interval]
  IN /\ Tasks
     /\ calls < MaxTimers
     /\ Racing \/ reading = {}
     /\ t.at <= MaxTime
     /\ Ties \/ \A u \in Pending : u.at # t.at
     /\ calls' = calls + 1
     /\ reading' = reading \cup {t}
     /\ UNCHANGED <<now, lastId, begun, timers, current, manager, woken, terminate,
                    process, history, removes>>

StoreId(t) ==
  /\ Tasks
  /\ t \in reading
  /\ reading' = reading \ {t}
  /\ begun' = begun \cup {t}
  /\ lastId' = t.id
  /\ UNCHANGED <<now, calls, timers, current, manager, woken, terminate, process,
                 history, removes>>

Insert(t) ==
  /\ Tasks
  /\ t \in begun
  /\ begun' = begun \ {t}
  /\ timers' = Inserted(t)
  /\ Notify
  /\ UNCHANGED <<now, calls, lastId, reading, current, manager, terminate, process,
                 history, removes>>

TimerSetup ==
  \/ \E t \in reading : StoreId(t)
  \/ \E t \in begun : Insert(t)

(* timer_remove: current_timer if it has the id, also when it is used up,   *)
(* else the first timer of the set that has it.  The id 0 stands for none   *)
(* (null_timer has it).                                                     *)
First(id) == {t \in timers : t.id = id /\ \A u \in timers : u.id = id => t.at <= u.at}

TimerRemove(id) ==
  /\ Tasks
  /\ removes < MaxRemoves
  /\ removes' = removes + 1
  /\ \/ /\ current.id = id
        /\ current' = NullTimer
        /\ removed' = removed \cup {t.key : t \in Running}
        /\ Notify
        /\ timers' = timers
     \/ /\ current.id # id
        /\ timers' = timers \ First(id)
        /\ removed' = removed \cup {t.key : t \in First(id)}
        /\ UNCHANGED <<current, woken>>
  /\ UNCHANGED <<now, ids, manager, terminate, process, fired>>

--------------------------------------------------------------------------------
(* timer_manager_task, which clears the flag when it stops.                 *)
Stop ==
  /\ terminate' = FALSE
  /\ pc' = "stopped"

Top ==
  /\ pc = "top"
  /\ \/ terminate /\ Stop
     \/ ~terminate /\ pc' = "pick" /\ UNCHANGED terminate
  /\ UNCHANGED <<now, ids, timers, current, deadline, woken, toTask, process,
                 history, removes>>

Earliest(t) == \A u \in timers : t.at <= u.at

Pick ==
  /\ pc = "pick"
  /\ \E t \in timers :
       /\ Earliest(t)
       /\ current' = t
       /\ timers' = timers \ {t}
  /\ pc' = "check"
  /\ UNCHANGED <<now, ids, deadline, woken, toTask, terminate, process, history,
                 removes>>

DueEarly == current.at <= now + 1
Due      == current.at <= now

Check ==
  /\ pc = "check"
  /\ \/ terminate /\ Stop
     \/ /\ ~terminate
        /\ pc' = IF Due THEN "signal" ELSE "enter"
        /\ UNCHANGED terminate
  /\ UNCHANGED <<now, ids, timers, current, deadline, woken, toTask, process,
                 history, removes>>

(* It takes m_timeout, computes how long to wait, and waits.                *)
Enter ==
  /\ pc = "enter"
  /\ pc' = "wait"
  /\ deadline' = current.at
  /\ woken' = FALSE
  /\ UNCHANGED <<now, ids, timers, current, toTask, terminate, process, history,
                 removes>>

(* wait_for returns: with timeout once the time has come, with no_timeout   *)
(* after a notification, or spuriously.                                     *)
WaitTimesOut ==
  /\ pc = "wait"
  /\ deadline <= now
  /\ pc' = "signal"
  /\ UNCHANGED <<now, ids, timers, current, deadline, woken, toTask, terminate,
                 process, history, removes>>

WaitIsNotified ==
  /\ pc = "wait"
  /\ woken
  /\ pc' = "reinsert"
  /\ UNCHANGED <<now, ids, timers, current, deadline, woken, toTask, terminate,
                 process, history, removes>>

SpuriousWakeup ==
  /\ pc = "wait"
  /\ pc' = "reinsert"
  /\ UNCHANGED <<now, ids, timers, current, deadline, woken, toTask, terminate,
                 process, history, removes>>

Reinsert ==
  /\ pc = "reinsert"
  /\ timers' = Reinserted
  /\ current' = NullTimer
  /\ pc' = "top"
  /\ UNCHANGED <<now, ids, deadline, woken, toTask, terminate, process, history,
                 removes>>

(* It reads the destination from current_timer, then the id and the user    *)
(* arguments; a TIME_OUT for TASK_NONE is not sent, and one that carries    *)
(* the arguments of null_timer means nothing to the task.                   *)
Signal ==
  /\ pc = "signal"
  /\ toTask' = (current # NullTimer)
  /\ pc' = "send"
  /\ UNCHANGED <<now, ids, timers, current, deadline, woken, terminate, process,
                 history, removes>>

Send ==
  /\ pc = "send"
  /\ fired' = IF toTask /\ current # NullTimer THEN fired \cup {current.key} ELSE fired
  /\ pc' = "top"
  /\ UNCHANGED <<now, ids, timers, current, deadline, woken, toTask, terminate,
                 process, removed, removes>>

Manager ==
  Top \/ Pick \/ Check \/ Enter \/ WaitTimesOut \/ WaitIsNotified \/ Reinsert
    \/ Signal \/ Send

--------------------------------------------------------------------------------
(* send_terminate_msg, then the destructor of itti_mw: it joins the manager *)
(* only while the flag is up; destroying a joinable thread aborts.          *)
SendTerminate ==
  /\ Shutdown
  /\ process = "running"
  /\ process' = "terminating"
  /\ terminate' = TRUE
  /\ UNCHANGED <<now, ids, timers, current, manager, woken, history, removes>>

Destroy ==
  /\ process = "terminating"
  /\ process' = IF terminate THEN "joining" ELSE "aborted"
  /\ UNCHANGED <<now, ids, timers, current, manager, woken, terminate, history,
                 removes>>

Join ==
  /\ process = "joining"
  /\ pc = "stopped"
  /\ process' = "joined"
  /\ UNCHANGED <<now, ids, timers, current, manager, woken, terminate, history,
                 removes>>

Tick ==
  /\ now < MaxTime
  /\ now' = now + 1
  /\ UNCHANGED <<ids, timers, current, manager, woken, terminate, process, history,
                 removes>>

Next ==
  \/ Tick
  \/ \E i \in Intervals : ReadId(i)
  \/ TimerSetup
  \/ \E id \in 0 .. calls : TimerRemove(id)
  \/ Manager \/ SpuriousWakeup
  \/ SendTerminate \/ Destroy \/ Join

(* The clock advances, the manager is scheduled and a thread finishes the   *)
(* call it has begun; the tasks need not do anything.  Once asked to, the   *)
(* main thread goes through the shutdown.                                   *)
Fairness ==
  WF_vars(Tick) /\ WF_vars(Manager) /\ WF_vars(TimerSetup) /\ WF_vars(Destroy \/ Join)

Spec     == Init /\ [][Next]_vars
FairSpec == Spec /\ Fairness

--------------------------------------------------------------------------------
(* What the manager and the threads keep true between any two accesses;     *)
(* from it follows that the timers are those of TimerService.               *)

(* current_timer is at work from Pick on, and used up before.               *)
CurrentIsRunning ==
  /\ pc \in {"check", "enter", "wait", "reinsert", "signal", "send"} =>
       current = NullTimer \/ current.key \notin fired
  /\ pc \in {"top", "pick"} => current = NullTimer \/ current.key \in fired
  /\ pc = "send" /\ ~ toTask => current = NullTimer

(* A timer is at one place only, and at none once it has fired; its id may  *)
(* be another's too.                                                        *)
InOnePlace ==
  /\ \A t \in Setting \cup timers : t.key <= calls /\ t.key \notin fired
  /\ current.key <= calls
  /\ \A key \in fired : key <= calls
  /\ current \notin Setting \cup timers
  /\ reading \cap begun = {} /\ Setting \cap timers = {}
  /\ \A t \in Setting \cup timers, u \in Setting \cup timers \cup {current} :
       t.key = u.key => t = u

TimeHasCome ==
  /\ pc = "wait" => current = NullTimer \/ deadline = current.at
  /\ pc \in {"signal", "send"} => current = NullTimer \/ current.at <= now

NoTies == ~Ties => \A t, u \in Pending : t.at = u.at => t = u

TimersAreKept == CurrentIsRunning /\ InOnePlace /\ TimeHasCome /\ NoTies

Service == INSTANCE TimerService WITH pending <- Pending

(* timer_setup, timer_remove and the TIME_OUT of the manager are those of   *)
(* TimerService: no timer fires early, twice, or after its removal, and     *)
(* none disappears, however the manager and the threads are interrupted,    *)
(* also when two of them get one id from ++timer_id.                        *)
ServiceSpec == Service!Spec

(* As long as nothing is removed and the process runs every timer fires,    *)
(* also when the notification of timer_setup came too early and was lost.   *)
FiresUndisturbed ==
  \A key \in 1 .. MaxTimers :
    key <= calls ~> (key \in fired \/ removes > 0 \/ process # "running")

(* itti.cpp, in timer_setup and timer_remove: "wake up thread timer if      *)
(* necessary".  Every timer fires unless it is removed.                     *)
EveryTimerFires ==
  \A key \in 1 .. MaxTimers : key <= calls ~> key \in fired \cup removed
================================================================================
