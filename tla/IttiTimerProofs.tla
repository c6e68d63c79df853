---------------------------- MODULE IttiTimerProofs ----------------------------
(***************************************************************************)
(* IttiTimer implements TimerService as long as no two running timers have *)
(* the same time_out: the inductive invariant is TimersAreKept, and every  *)
(* step of the manager is a step of the service or none of its business.   *)
(***************************************************************************)
EXTENDS IttiTimer, TLAPS

(* The initial state is well typed.                                         *)
LEMMA TypeInit == Init => TypeOK
<1> SUFFICES ASSUME Init PROVE TypeOK
  OBVIOUS
<1>1. now \in 0 .. MaxTime /\ calls \in 0 .. MaxTimers /\ removes \in 0 .. MaxRemoves
      /\ deadline \in (0 .. MaxTime) \cup {Never}
  BY TimerAssumption DEF Init
<1> QED
  BY <1>1 DEF Init, TypeOK

(* A time-out set within the bounds of the model is a timer.                *)
LEMMA NewTimer ==
  ASSUME TypeOK, NEW i \in Intervals, calls < MaxTimers, now + i <= MaxTime
  PROVE  [key |-> calls + 1, id |-> lastId + 1, at |-> now + i] \in Timer
BY TimerAssumption DEF TypeOK, Timer

(* std::set::insert adds its argument or nothing.                           *)
LEMMA InsertedIsTimer ==
  ASSUME NEW t, timers \subseteq Timer, t \in Timer
  PROVE  Inserted(t) \subseteq Timer
BY DEF Inserted

(* Every step of any thread preserves the types.                            *)
LEMMA TypeStep == TypeOK /\ [Next]_vars => TypeOK'
<1> SUFFICES ASSUME TypeOK, [Next]_vars PROVE TypeOK'
  OBVIOUS
<1> USE TimerAssumption
<1>1. CASE Tick
  BY <1>1 DEF Tick, TypeOK, ids, manager, history
<1>2. ASSUME NEW i \in Intervals, ReadId(i) PROVE TypeOK'
  <2>1. reading' \subseteq Timer
    BY <1>2, NewTimer DEF ReadId, TypeOK
  <2>2. calls' \in 0 .. MaxTimers
    BY <1>2 DEF ReadId, TypeOK
  <2> QED
    BY <1>2, <2>1, <2>2 DEF ReadId, TypeOK, manager, history
<1>16. ASSUME NEW t \in reading, StoreId(t) PROVE TypeOK'
  <2>1. t.id \in Nat
    BY DEF TypeOK, Timer
  <2> QED
    BY <1>16, <2>1 DEF StoreId, TypeOK, manager, history
<1>17. ASSUME NEW t \in begun, Insert(t) PROVE TypeOK'
  <2>1. timers' \subseteq Timer
    BY <1>17, InsertedIsTimer DEF Insert, TypeOK
  <2>2. woken' \in BOOLEAN
    BY <1>17 DEF Insert, Notify, TypeOK
  <2> QED
    BY <1>17, <2>1, <2>2 DEF Insert, TypeOK, manager, history
<1>3. ASSUME NEW id \in 0 .. calls, TimerRemove(id) PROVE TypeOK'
  <2>1. timers' \subseteq Timer /\ current' \in Timer \cup {NullTimer}
    BY <1>3 DEF TimerRemove, TypeOK
  <2>2. woken' \in BOOLEAN
    BY <1>3 DEF TimerRemove, Notify, TypeOK
  <2>3. removed' \subseteq 1 .. MaxTimers
    <3>1. Running \subseteq Timer /\ First(id) \subseteq Timer
      BY DEF TypeOK, Running, First
    <3>2. \A t \in Timer : t.key \in 1 .. MaxTimers
      BY DEF Timer
    <3>3. {t.key : t \in Running} \subseteq 1 .. MaxTimers
          /\ {t.key : t \in First(id)} \subseteq 1 .. MaxTimers
      BY <3>1, <3>2
    <3> QED
      BY <1>3, <3>3 DEF TimerRemove, TypeOK
  <2>4. removes' \in 0 .. MaxRemoves
    BY <1>3 DEF TimerRemove, TypeOK
  <2> QED
    BY <1>3, <2>1, <2>2, <2>3, <2>4 DEF TimerRemove, TypeOK, ids, manager
<1>4. CASE Top
  BY <1>4 DEF Top, Stop, TypeOK, ids, history
<1>5. CASE Pick
  BY <1>5 DEF Pick, TypeOK, ids, history
<1>6. CASE Check
  BY <1>6 DEF Check, Stop, TypeOK, ids, history
<1>7. CASE Enter
  <2>1. current.at \in (0 .. MaxTime) \cup {Never}
    BY DEF TypeOK, Timer, NullTimer
  <2> QED
    BY <1>7, <2>1 DEF Enter, TypeOK, ids, history
<1>8. CASE WaitTimesOut
  BY <1>8 DEF WaitTimesOut, TypeOK, ids, history
<1>9. CASE WaitIsNotified \/ SpuriousWakeup
  BY <1>9 DEF WaitIsNotified, SpuriousWakeup, TypeOK, ids, history
<1>10. CASE Reinsert
  <2>1. timers' \subseteq Timer
    BY <1>10, InsertedIsTimer DEF Reinsert, Reinserted, TypeOK
  <2> QED
    BY <1>10, <2>1 DEF Reinsert, TypeOK, ids, history
<1>11. CASE Signal
  BY <1>11 DEF Signal, TypeOK, ids, history
<1>12. CASE Send
  BY <1>12 DEF Send, TypeOK, Timer, ids
<1>13. CASE SendTerminate
  BY <1>13 DEF SendTerminate, TypeOK, manager, ids, history
<1>14. CASE Destroy \/ Join
  BY <1>14 DEF Destroy, Join, TypeOK, manager, ids, history
<1>15. CASE UNCHANGED vars
  BY <1>15 DEF vars, ids, manager, history, TypeOK
<1> QED
  BY <1>1, <1>2, <1>3, <1>4, <1>5, <1>6, <1>7, <1>8, <1>9, <1>10, <1>11, <1>12,
     <1>13, <1>14, <1>15, <1>16, <1>17 DEF Next, TimerSetup, Manager

(* Type correctness of every behaviour of the timer manager.                *)
THEOREM TypeCorrect == Spec => []TypeOK
BY TypeInit, TypeStep, PTL DEF Spec

--------------------------------------------------------------------------------
(* In the initial state there are no timers to keep.                        *)
LEMMA KeptInit == Init => TimersAreKept
BY TimerAssumption DEF Init, TimersAreKept, CurrentIsRunning, InOnePlace,
   TimeHasCome, NoTies, Pending, Setting, Running, NullTimer

(* A timer has a number and an id above 0, null_timer has 0.                *)
LEMMA TimerIsNotNull ==
  ASSUME NEW t \in Timer PROVE /\ t # NullTimer /\ t.at \in Nat
                            /\ t.key \in Nat \ {0} /\ t.id \in Nat \ {0}
BY TimerAssumption DEF Timer, NullTimer

(* timer_setup begins: the new number and the new time_out are nobody       *)
(* else's, whatever the id is.                                              *)
LEMMA ReadKeeps ==
  ASSUME TypeOK, TimersAreKept, NEW i \in Intervals, ReadId(i)
  PROVE  TimersAreKept'
<1> DEFINE t == [key |-> calls + 1, id |-> lastId + 1, at |-> now + i]
<1> USE TimerAssumption DEF TimersAreKept
<1>1. t \in Timer
  BY NewTimer DEF ReadId
<1>2. reading' = reading \cup {t} /\ calls' = calls + 1
      /\ UNCHANGED <<now, begun, timers, current, pc, deadline, toTask, fired>>
  BY DEF ReadId, manager, history
<1>3. calls \in Nat /\ fired \subseteq 1 .. MaxTimers
  BY DEF TypeOK
<1>4. CurrentIsRunning' /\ TimeHasCome'
  BY <1>2 DEF CurrentIsRunning, TimeHasCome
<1>5. ASSUME NEW u \in Setting \cup timers \cup {current}
      PROVE  u.key # t.key /\ u.key <= calls /\ u # t
  <2>1. u.key \in Nat /\ u.key <= calls
    BY <1>3 DEF InOnePlace, TypeOK, NullTimer, Timer, Setting
  <2> QED
    BY <1>3, <2>1
<1>6. t.key \notin fired /\ t \notin Setting \cup timers \cup {current}
  BY <1>3, <1>5 DEF InOnePlace
<1>7. Setting' = Setting \cup {t}
  BY <1>2 DEF Setting
<1>8. InOnePlace'
  <2>1. \A u \in (Setting \cup timers)' : u.key <= calls' /\ u.key \notin fired'
    <3>1. \A u \in Setting \cup timers : u.key \in Nat
      BY DEF TypeOK, Timer, Setting
    <3> QED
      BY <1>2, <1>3, <1>6, <1>7, <3>1 DEF InOnePlace
  <2>2. current'.key <= calls' /\ current' \notin (Setting \cup timers)'
    <3>1. current.key \in Nat
      BY DEF TypeOK, Timer, NullTimer
    <3> QED
      BY <1>2, <1>3, <1>6, <1>7, <3>1 DEF InOnePlace
  <2>3. \A key \in fired' : key <= calls'
    BY <1>2, <1>3 DEF InOnePlace
  <2>4. \A u \in (Setting \cup timers)', v \in (Setting \cup timers \cup {current})' :
          u.key = v.key => u = v
    BY <1>2, <1>5, <1>7 DEF InOnePlace
  <2>5. reading' \cap begun' = {} /\ Setting' \cap timers' = {}
    BY <1>2, <1>6, <1>7 DEF InOnePlace, Setting
  <2> QED
    BY <2>1, <2>2, <2>3, <2>4, <2>5 DEF InOnePlace
<1>9. NoTies'
  <2>1. Running' = Running
    BY <1>2 DEF Running
  <2>2. Pending' = Pending \cup {t}
    BY <1>2, <1>7, <2>1 DEF Pending
  <2>3. ~Ties => \A w \in Pending : w.at # t.at
    BY DEF ReadId
  <2> QED
    BY <2>2, <2>3 DEF NoTies
<1> QED
  BY <1>4, <1>8, <1>9

(* It goes on: the timer moves on to begun and, unless its time_out is in   *)
(* the set, to the set.                                                     *)
LEMMA SetupKeeps ==
  ASSUME TypeOK, TimersAreKept, TimerSetup
  PROVE  TimersAreKept'
<1> USE DEF TimersAreKept
<1>1. UNCHANGED <<now, calls, current, pc, deadline, toTask, fired>>
  BY DEF TimerSetup, StoreId, Insert, manager, history
<1>2. CurrentIsRunning' /\ TimeHasCome'
  BY <1>1 DEF CurrentIsRunning, TimeHasCome
<1>3. (Setting \cup timers)' \subseteq Setting \cup timers
      /\ reading' \cap begun' = {} /\ Setting' \cap timers' = {}
  <2>1. CASE \E t \in reading : StoreId(t)
    BY <2>1 DEF StoreId, Setting, InOnePlace
  <2>2. CASE \E t \in begun : Insert(t)
    BY <2>2 DEF Insert, Inserted, Setting, InOnePlace
  <2> QED
    BY <2>1, <2>2 DEF TimerSetup
<1>4. InOnePlace'
  BY <1>1, <1>3 DEF InOnePlace
<1>5. NoTies'
  BY <1>1, <1>3 DEF NoTies, Pending, Running
<1> QED
  BY <1>2, <1>4, <1>5

(* timer_remove only takes away.                                            *)
LEMMA RemoveKeeps ==
  ASSUME TypeOK, TimersAreKept, NEW id \in 0 .. calls, TimerRemove(id)
  PROVE  TimersAreKept'
<1> USE TimerAssumption DEF TimersAreKept
<1>1. timers' \subseteq timers /\ current' \in {current, NullTimer}
      /\ UNCHANGED <<now, calls, reading, begun, pc, deadline, toTask, fired>>
  BY DEF TimerRemove, ids, manager
<1>2. CurrentIsRunning' /\ TimeHasCome'
  BY <1>1 DEF CurrentIsRunning, TimeHasCome
<1>3. InOnePlace'
  <2>1. \A t \in Setting \cup timers : t.key # NullTimer.key
    BY TimerIsNotNull DEF TypeOK, NullTimer, Setting
  <2>2. NullTimer.key <= calls /\ NullTimer \notin Setting \cup timers
    BY TimerIsNotNull DEF NullTimer, TypeOK, Setting
  <2> QED
    BY <1>1, <2>1, <2>2 DEF InOnePlace, Setting
<1>4. Running' \subseteq Running
  BY <1>1 DEF Running
<1>5. NoTies'
  BY <1>1, <1>4 DEF NoTies, Pending, Setting
<1> QED
  BY <1>2, <1>3, <1>5

(* Pick: the earliest timer becomes current_timer.                          *)
LEMMA PickKeeps == TypeOK /\ TimersAreKept /\ Pick => TimersAreKept'
<1> SUFFICES ASSUME TypeOK, TimersAreKept, Pick PROVE TimersAreKept'
  OBVIOUS
<1> USE TimerAssumption DEF TimersAreKept
<1>1. PICK t \in timers : current' = t /\ timers' = timers \ {t}
  BY DEF Pick
<1>2. pc' = "check" /\ UNCHANGED <<now, calls, reading, begun, fired>>
  BY DEF Pick, ids, history
<1>3. t.key \notin fired
  BY DEF InOnePlace, Setting
<1>4. CurrentIsRunning' /\ TimeHasCome'
  BY <1>1, <1>2, <1>3 DEF CurrentIsRunning, TimeHasCome
<1>5. InOnePlace'
  BY <1>1, <1>2 DEF InOnePlace, Setting
<1>6. Pending' \subseteq Pending
  BY <1>1, <1>2 DEF Running, Pending, Setting
<1>7. NoTies'
  BY <1>1, <1>6 DEF NoTies, Pending, Setting
<1> QED
  BY <1>4, <1>5, <1>7

(* Reinsert: current_timer goes back, and nothing has its time_out.         *)
LEMMA ReinsertKeeps == TypeOK /\ TimersAreKept /\ Reinsert => TimersAreKept'
<1> SUFFICES ASSUME TypeOK, TimersAreKept, Reinsert PROVE TimersAreKept'
  OBVIOUS
<1> USE TimerAssumption DEF TimersAreKept
<1>1. pc = "reinsert" /\ pc' = "top" /\ current' = NullTimer
      /\ UNCHANGED <<now, calls, reading, begun, fired>>
  BY DEF Reinsert, ids, history
<1>2. timers' \subseteq timers \cup Running
  BY <1>1 DEF Reinsert, Reinserted, Inserted, Running, CurrentIsRunning
<1>3. CurrentIsRunning' /\ TimeHasCome'
  BY <1>1 DEF CurrentIsRunning, TimeHasCome
<1>4. InOnePlace'
  <2>1. \A t \in Pending : t.key # NullTimer.key
    BY TimerIsNotNull DEF TypeOK, NullTimer, Running, Pending, Setting
  <2>2. NullTimer.key <= calls /\ NullTimer \notin Setting \cup timers
    BY TimerIsNotNull DEF NullTimer, TypeOK, Setting
  <2>3. Running \subseteq {current} /\ \A t \in Running : t.key \notin fired
    BY DEF Running
  <2>4. NullTimer \notin (Setting \cup timers)'
    BY <1>1, <1>2, <2>1, <2>2 DEF Running, Pending, Setting
  <2>5. Setting' = Setting /\ current \notin Setting
    BY <1>1 DEF InOnePlace, Setting
  <2>6. (Setting \cup timers)' \subseteq Setting \cup timers \cup Running
    BY <1>2, <2>5
  <2>7. \A t \in (Setting \cup timers)' : /\ t.key <= calls' /\ t.key \notin fired'
                                         /\ t.key # current'.key
    BY <1>1, <2>1, <2>3, <2>6 DEF InOnePlace, Pending
  <2>8. Setting' \cap timers' = {} /\ reading' \cap begun' = {}
    BY <1>1, <1>2, <2>3, <2>5 DEF InOnePlace
  <2>9. \A t \in (Setting \cup timers)', u \in (Setting \cup timers)' :
          t.key = u.key => t = u
    <3>1. \A t, u \in Setting \cup timers \cup {current} : t.key = u.key => t = u
      BY DEF InOnePlace
    <3> QED
      BY <2>3, <2>6, <3>1
  <2>10. current'.key <= calls' /\ \A key \in fired' : key <= calls'
    BY <1>1, <2>2 DEF InOnePlace
  <2>11. \A t \in (Setting \cup timers)', u \in (Setting \cup timers \cup {current})' :
           t.key = u.key => t = u
    BY <2>7, <2>9
  <2> QED
    BY <2>4, <2>7, <2>8, <2>10, <2>11, <1>1 DEF InOnePlace
<1>5. Running' = {}
  BY <1>1 DEF Running
<1>6. NoTies'
  BY <1>1, <1>2, <1>5 DEF NoTies, Pending, Setting, Running
<1> QED
  BY <1>3, <1>4, <1>6

(* Send: current_timer is used up.                                          *)
LEMMA SendKeeps == TypeOK /\ TimersAreKept /\ Send => TimersAreKept'
<1> SUFFICES ASSUME TypeOK, TimersAreKept, Send PROVE TimersAreKept'
  OBVIOUS
<1> USE TimerAssumption DEF TimersAreKept
<1>1. pc = "send" /\ pc' = "top" /\ UNCHANGED <<now, calls, reading, begun, timers, current>>
  BY DEF Send, ids
<1>2. fired' = IF current = NullTimer THEN fired ELSE fired \cup {current.key}
  BY <1>1 DEF Send, CurrentIsRunning
<1>3. CurrentIsRunning' /\ TimeHasCome'
  BY <1>1, <1>2 DEF CurrentIsRunning, TimeHasCome
<1>4. \A t \in Setting \cup timers : t.key # current.key
  BY DEF InOnePlace, Setting
<1>5. current # NullTimer => current.key \in 1 .. MaxTimers /\ current.key <= calls
  BY DEF TypeOK, Timer, InOnePlace
<1>6. InOnePlace'
  BY <1>1, <1>2, <1>4, <1>5 DEF InOnePlace, Setting
<1>7. Running' \subseteq Running
  BY <1>1, <1>2 DEF Running
<1>8. NoTies'
  BY <1>1, <1>7 DEF NoTies, Pending, Setting
<1> QED
  BY <1>3, <1>6, <1>8

(* Every other step of the manager leaves the timers where they are.        *)
LEMMA OthersKeep ==
  ASSUME TypeOK, TimersAreKept,
         Top \/ Check \/ Enter \/ WaitTimesOut \/ WaitIsNotified \/ SpuriousWakeup
           \/ Signal \/ SendTerminate \/ Destroy \/ Join \/ Tick \/ UNCHANGED vars
  PROVE  TimersAreKept'
<1> USE TimerAssumption DEF TimersAreKept
<1>1. UNCHANGED <<calls, reading, begun, timers, current, fired>> /\ now' \in {now, now + 1}
  BY DEF Top, Check, Enter, WaitTimesOut, WaitIsNotified, SpuriousWakeup, Signal,
         SendTerminate, Destroy, Join, Tick, vars, ids, manager, history
<1>2. InOnePlace' /\ NoTies'
  BY <1>1 DEF InOnePlace, NoTies, Pending, Setting, Running
<1>3. CurrentIsRunning'
  BY <1>1 DEF Top, Check, Enter, WaitTimesOut, WaitIsNotified, SpuriousWakeup, Signal,
         SendTerminate, Destroy, Join, Tick, vars, manager, Stop, CurrentIsRunning
<1>4. TimeHasCome'
  <2>1. now \in Nat /\ current.at \in Nat /\ deadline \in Nat
    BY DEF TypeOK, Timer, NullTimer
  <2> QED
    BY <1>1, <2>1 DEF Top, Check, Enter, WaitTimesOut, WaitIsNotified, SpuriousWakeup,
           Signal, SendTerminate, Destroy, Join, Tick, vars, manager, Stop, Due,
           TimeHasCome
<1> QED
  BY <1>2, <1>3, <1>4

(* The invariant is inductive.                                              *)
LEMMA KeptStep == TypeOK /\ TimersAreKept /\ [Next]_vars => TimersAreKept'
BY ReadKeeps, SetupKeeps, RemoveKeeps, PickKeeps, ReinsertKeeps, SendKeeps, OthersKeep
   DEF Next, Manager

(* No timer is lost, forgotten, due twice or due early inside the manager.  *)
THEOREM TimersKept == Spec => []TimersAreKept
<1>1. Init /\ [][Next]_vars => []TypeOK
  BY TypeCorrect DEF Spec
<1> QED
  BY <1>1, KeptInit, KeptStep, PTL DEF Spec
--------------------------------------------------------------------------------
(* Each step as the service sees it.                                        *)

(* The beginning of timer_setup is Setup.                                   *)
LEMMA ReadServes ==
  ASSUME TypeOK, NEW i \in Intervals, ReadId(i)
  PROVE  Service!Setup
<1> DEFINE t == [key |-> calls + 1, id |-> lastId + 1, at |-> now + i]
<1>1. calls' = calls + 1 /\ reading' = reading \cup {t}
      /\ UNCHANGED <<now, begun, timers, current, fired, removed>>
  BY DEF ReadId, history
<1>2. Running' = Running
  BY <1>1 DEF Running
<1>3. Pending' = Pending \cup {t}
  BY <1>1, <1>2 DEF Pending, Setting
<1>4. t.key = calls' /\ t.at >= now
  BY <1>1, TimerAssumption DEF TypeOK
<1>5. t \in Pending'
  BY <1>3
<1> QED
  BY <1>1, <1>3, <1>4, <1>5 DEF Service!Setup

(* The rest of it does not lose the timer when no two of them have one      *)
(* time_out.                                                                *)
LEMMA SetupServes ==
  ASSUME TypeOK, TimersAreKept, ~Ties, TimerSetup
  PROVE  UNCHANGED Service!vars
<1> USE DEF TimersAreKept
<1>1. UNCHANGED <<now, calls, current, fired, removed>>
  BY DEF TimerSetup, StoreId, Insert, history
<1>2. Running' = Running
  BY <1>1 DEF Running
<1>3. (Setting \cup timers)' = Setting \cup timers
  <2>1. CASE \E t \in reading : StoreId(t)
    BY <2>1 DEF StoreId, Setting
  <2>2. ASSUME NEW t \in begun, Insert(t)
        PROVE  (Setting \cup timers)' = Setting \cup timers
    <3>1. \A u \in timers : u.at # t.at
      BY DEF NoTies, Pending, Setting, InOnePlace
    <3>2. timers' = timers \cup {t} /\ begun' = begun \ {t} /\ reading' = reading
      BY <2>2, <3>1 DEF Insert, Inserted
    <3> QED
      BY <3>2 DEF Setting
  <2> QED
    BY <2>1, <2>2 DEF TimerSetup
<1> QED
  BY <1>1, <1>2, <1>3 DEF Service!vars, Pending

(* timer_remove is Remove of a running timer, or finds none.                *)
LEMMA RemoveServes ==
  ASSUME TypeOK, TimersAreKept, ~Ties, NEW id \in 0 .. calls, TimerRemove(id)
  PROVE  (\E t \in Pending : Service!Remove(t)) \/ UNCHANGED Service!vars
<1> USE DEF TimersAreKept
<1>1. UNCHANGED <<now, calls, reading, begun, fired>>
  BY DEF TimerRemove, ids
<1>2. CASE current.id = id
  <2>1. current' = NullTimer /\ timers' = timers /\ Running' = {}
        /\ removed' = removed \cup {t.key : t \in Running}
    BY <1>2 DEF TimerRemove, Running
  <2>2. CASE Running = {}
    <3>1. removed' = removed
      BY <2>1, <2>2
    <3> QED
      BY <1>1, <2>1, <2>2, <3>1 DEF Service!vars, Pending, Setting
  <2>3. CASE Running = {current}
    <3>1. removed' = removed \cup {current.key}
      BY <2>1, <2>3
    <3>2. Pending' = Pending \ {current} /\ current \in Pending
      BY <1>1, <2>1, <2>3 DEF Pending, Setting, InOnePlace
    <3> QED
      BY <1>1, <3>1, <3>2 DEF Service!Remove
  <2> QED
    BY <2>2, <2>3 DEF Running
<1>3. CASE current.id # id
  <2>1. timers' = timers \ First(id) /\ Running' = Running
        /\ removed' = removed \cup {t.key : t \in First(id)}
    BY <1>1, <1>3 DEF TimerRemove, Running
  <2>2. CASE First(id) = {}
    <3>1. removed' = removed /\ timers' = timers
      BY <2>1, <2>2
    <3> QED
      BY <1>1, <2>1, <3>1 DEF Service!vars, Pending, Setting
  <2>3. CASE \E t \in First(id) : TRUE
    <3>1. PICK t \in First(id) : TRUE
      BY <2>3
    <3>2. t \in timers /\ t \in Pending
      BY <3>1 DEF First, Pending
    <3>3. ASSUME NEW u \in First(id) PROVE u = t
      <4>1. u \in Pending /\ u.at <= t.at /\ t.at <= u.at
        BY <3>1 DEF First, Pending
      <4>2. u.at \in Nat /\ t.at \in Nat
        BY <3>2, TimerIsNotNull DEF First, TypeOK
      <4>3. u.at = t.at
        BY <4>1, <4>2
      <4> QED
        BY <3>2, <4>1, <4>3 DEF NoTies
    <3>4. First(id) = {t}
      BY <3>1, <3>3
    <3>5. removed' = removed \cup {t.key} /\ timers' = timers \ {t}
      BY <2>1, <3>4
    <3>6. t \notin Setting /\ t \notin Running
      BY <3>2 DEF InOnePlace, Running
    <3>7. Pending' = Pending \ {t}
      BY <1>1, <2>1, <3>5, <3>6 DEF Pending, Setting
    <3> QED
      BY <1>1, <3>2, <3>5, <3>7 DEF Service!Remove
  <2> QED
    BY <2>2, <2>3
<1> QED
  BY <1>2, <1>3

(* Pick and Reinsert move a running timer in and out of current_timer.      *)
LEMMA PickServes ==
  ASSUME TypeOK, TimersAreKept, Pick
  PROVE  UNCHANGED Service!vars
<1> USE DEF TimersAreKept
<1>1. UNCHANGED <<now, calls, reading, begun, fired, removed>>
  BY DEF Pick, ids, history
<1>2. PICK t \in timers : current' = t /\ timers' = timers \ {t}
  BY DEF Pick
<1>3. Running = {}
  BY DEF Pick, Running, CurrentIsRunning
<1>4. Running' = {t}
  BY <1>1, <1>2, TimerIsNotNull DEF Running, TypeOK, InOnePlace
<1> QED
  BY <1>1, <1>2, <1>3, <1>4 DEF Service!vars, Pending, Setting

(* Putting current_timer back into the set leaves the service as it is: the *)
(* manager no longer works on the timer, but it is still pending.           *)
LEMMA ReinsertServes ==
  ASSUME TypeOK, TimersAreKept, ~Ties, Reinsert
  PROVE  UNCHANGED Service!vars
<1> USE DEF TimersAreKept
<1>1. UNCHANGED <<now, calls, reading, begun, fired, removed>> /\ current' = NullTimer
  BY DEF Reinsert, ids, history
<1>2. Running' = {}
  BY <1>1 DEF Running
<1>3. CASE current = NullTimer
  <2>1. timers' = timers /\ Running = {}
    BY <1>3 DEF Reinsert, Reinserted, Running
  <2> QED
    BY <1>1, <1>2, <2>1 DEF Service!vars, Pending, Setting
<1>4. CASE current # NullTimer
  <2>1. Running = {current}
    BY <1>4 DEF Running, CurrentIsRunning, Reinsert
  <2>2. \A u \in timers : u.at # current.at
    BY <2>1 DEF NoTies, Pending, InOnePlace
  <2>3. timers' = timers \cup {current}
    BY <1>4, <2>2 DEF Reinsert, Reinserted, Inserted
  <2> QED
    BY <1>1, <1>2, <2>1, <2>3 DEF Service!vars, Pending, Setting
<1> QED
  BY <1>3, <1>4

(* Send is Fire of the timer it picked, unless that was removed meanwhile.  *)
LEMMA SendServes ==
  ASSUME TypeOK, TimersAreKept, Send
  PROVE  (\E t \in Pending : Service!Fire(t)) \/ UNCHANGED Service!vars
<1> USE DEF TimersAreKept
<1>1. pc = "send" /\ UNCHANGED <<now, calls, reading, begun, timers, current, removed>>
  BY DEF Send, ids
<1>2. CASE current = NullTimer
  <2>1. fired' = fired /\ Running' = Running
    BY <1>1, <1>2 DEF Send, Running
  <2> QED
    BY <1>1, <2>1 DEF Service!vars, Pending, Setting
<1>3. CASE current # NullTimer
  <2>1. fired' = fired \cup {current.key}
    BY <1>1, <1>3 DEF Send, CurrentIsRunning
  <2>2. Running = {current} /\ current.at <= now
    BY <1>1, <1>3 DEF Running, CurrentIsRunning, TimeHasCome
  <2>3. Running' = {} /\ current \notin timers
    BY <1>1, <2>1 DEF Running, InOnePlace
  <2>4. Pending' = Pending \ {current}
    BY <1>1, <2>2, <2>3 DEF Pending, Setting, InOnePlace
  <2>5. current \in Pending
    BY <2>2 DEF Pending
  <2> QED
    BY <1>1, <2>1, <2>2, <2>4, <2>5 DEF Service!Fire
<1> QED
  BY <1>2, <1>3

(* What is left does not concern the service, but for the clock.            *)
LEMMA OthersServe ==
  ASSUME Top \/ Check \/ Enter \/ WaitTimesOut \/ WaitIsNotified \/ SpuriousWakeup
           \/ Signal \/ SendTerminate \/ Destroy \/ Join \/ Tick \/ UNCHANGED vars
  PROVE  Service!Tick \/ UNCHANGED Service!vars
<1>1. UNCHANGED <<calls, reading, begun, timers, current, fired, removed>>
  BY DEF Top, Check, Enter, WaitTimesOut, WaitIsNotified, SpuriousWakeup, Signal,
         SendTerminate, Destroy, Join, Tick, vars, ids, manager, history
<1>2. Running' = Running
  BY <1>1 DEF Running
<1>3. now' = now + 1 \/ now' = now
  BY DEF Top, Check, Enter, WaitTimesOut, WaitIsNotified, SpuriousWakeup, Signal,
         SendTerminate, Destroy, Join, Tick, vars
<1> QED
  BY <1>1, <1>2, <1>3 DEF Service!Tick, Service!vars, Pending, Setting

(* The timer manager implements TimerService: whatever the interleaving of  *)
(* its steps with timer_setup and timer_remove, a timer fires at most once, *)
(* never early, never after a removal in time, and none is lost.            *)
THEOREM Implements == ASSUME ~Ties PROVE Spec => ServiceSpec
<1>1. Init => Service!Init
  BY DEF Init, Service!Init, Pending, Setting, Running
<1>2. TypeOK /\ TimersAreKept /\ [Next]_vars => [Service!Next]_(Service!vars)
  <2> SUFFICES ASSUME TypeOK, TimersAreKept, [Next]_vars
               PROVE  Service!Next \/ UNCHANGED Service!vars
    OBVIOUS
  <2>1. ASSUME NEW i \in Intervals, ReadId(i) PROVE Service!Next
    BY <2>1, ReadServes DEF Service!Next
  <2>7. CASE TimerSetup
    BY <2>7, SetupServes
  <2>2. ASSUME NEW id \in 0 .. calls, TimerRemove(id)
        PROVE  Service!Next \/ UNCHANGED Service!vars
    BY <2>2, RemoveServes DEF Service!Next
  <2>3. CASE Pick
    BY <2>3, PickServes
  <2>4. CASE Reinsert
    BY <2>4, ReinsertServes
  <2>5. CASE Send
    BY <2>5, SendServes DEF Service!Next
  <2>6. CASE Top \/ Check \/ Enter \/ WaitTimesOut \/ WaitIsNotified \/ SpuriousWakeup
             \/ Signal \/ SendTerminate \/ Destroy \/ Join \/ Tick \/ UNCHANGED vars
    BY <2>6, OthersServe DEF Service!Next
  <2> QED
    BY <2>1, <2>2, <2>3, <2>4, <2>5, <2>6, <2>7 DEF Next, Manager
<1> QED
  BY <1>1, <1>2, TypeCorrect, TimersKept, PTL DEF Spec, ServiceSpec, Service!Spec
================================================================================
