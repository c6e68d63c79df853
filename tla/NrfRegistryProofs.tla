--------------------------- MODULE NrfRegistryProofs ---------------------------
(***************************************************************************)
(* What the registry of the NRF keeps, for any number of NFs and requests, *)
(* any periods and any lag of the task thread.                             *)
(*                                                                         *)
(* RegInv says which profiles exist: the registry, a request or a slot     *)
(* that holds one finds it.  On it rest, each by itself, what the timers   *)
(* of a punctual NF can reach (InTime) and which timer watches over an NF  *)
(* until its first lapse (Watch).                                          *)
(***************************************************************************)
EXTENDS NrfRegistry, TLAPS

\* The task thread is in a slot of the NF, whose profile exists.
InNf(nf) == task.at \notin {"idle", "sweep"} /\ task.nf = nf /\ task.alive

\* Whoever holds a profile finds it, and a new profile has no timer yet.
Held ==
  \A nf \in NFs :
    /\ nf \in registered \/ http[nf] # "idle" \/ InNf(nf) => profile[nf] # Off
    /\ http[nf] = "monitor" =>
         ~InNf(nf) /\ profile[nf].first = Off /\ profile[nf].hb = Off

RegInv == TypeOK /\ requests \in [NFs -> Nat] /\ Held

--------------------------------------------------------------------------------
(* The task thread and the profile it works on.                             *)
LEMMA SlotType ==
  ASSUME TypeOK, task.at \notin {"idle", "sweep"}
  PROVE  /\ task.nf \in NFs /\ task.alive \in BOOLEAN /\ task.slot \in {"first", "hb"}
         /\ task.at \in {"suspend", "notify", "list", "clear"}
         /\ task = [at |-> task.at, slot |-> task.slot, nf |-> task.nf, alive |-> task.alive]
  BY DEF TypeOK, Tasks

\* A slot goes on: it stays in its NF.
LEMMA GoesOn ==
  ASSUME TypeOK, task.at \notin {"idle", "sweep"},
         NEW at \in {"suspend", "notify", "list", "clear"}, Goes(at)
  PROVE  /\ task' \in Tasks /\ task'.at = at
         /\ task'.nf = task.nf /\ task'.slot = task.slot /\ task'.alive = task.alive
         /\ \A nf \in NFs : InNf(nf)' <=> InNf(nf)
<1>1. task' = [at |-> at, slot |-> task.slot, nf |-> task.nf, alive |-> task.alive]
  BY SlotType DEF Goes
<1>2. task' \in Tasks /\ task'.at = at
      /\ task'.nf = task.nf /\ task'.slot = task.slot /\ task'.alive = task.alive
  BY <1>1, SlotType DEF Tasks
<1> QED
  BY <1>2 DEF InNf

\* A profile is destroyed under the slot.
LEMMA DestroyedUnder ==
  ASSUME TypeOK, NEW nf \in NFs, task' = Destroyed(nf)
  PROVE  /\ task' \in Tasks /\ task'.at = task.at /\ ~InNf(nf)'
         /\ task'.at \notin {"idle", "sweep"} => task'.nf = task.nf /\ task'.slot = task.slot
         /\ \A m \in NFs \ {nf} : InNf(m)' <=> InNf(m)
<1>1. CASE task.at \in {"idle", "sweep"} \/ task.nf # nf
  BY <1>1 DEF Destroyed, InNf, TypeOK
<1>2. CASE task.at \notin {"idle", "sweep"} /\ task.nf = nf
  <2>1. task' = [at |-> task.at, slot |-> task.slot, nf |-> nf, alive |-> FALSE]
    BY <1>2, SlotType DEF Destroyed
  <2>2. task' \in Tasks
    BY <1>2, <2>1, SlotType DEF Tasks
  <2>3. task'.at = task.at /\ task'.nf = nf /\ task'.alive = FALSE /\ task'.slot = task.slot
    BY <2>1
  <2> QED
    BY <1>2, <2>2, <2>3 DEF InNf
<1> QED
  BY <1>1, <1>2

\* A slot writes to the profile of its NF, if there is one.
LEMMA SlotWrites ==
  ASSUME RegInv, task.at \notin {"idle", "sweep"}, NEW p, Writes(p), task.alive => p \in Profiles
  PROVE  /\ profile' \in [NFs -> Profiles \cup {Off}]
         /\ \A nf \in NFs : profile'[nf] = IF InNf(nf) THEN p ELSE profile[nf]
<1>1. task.nf \in NFs /\ profile \in [NFs -> Profiles \cup {Off}] /\ task.alive \in BOOLEAN
  BY SlotType DEF RegInv, TypeOK
<1>2. CASE task.alive
  BY <1>1, <1>2 DEF Writes, InNf
<1>3. CASE ~task.alive
  BY <1>1, <1>3 DEF Writes, InNf
<1> QED
  BY <1>2, <1>3

LEMMA SlotProfileExists ==
  ASSUME RegInv, task.at \notin {"idle", "sweep"}, task.alive
  PROVE  InNf(task.nf) /\ SlotProfile \in Profiles /\ SlotProfile # Off
<1>1. task.nf \in NFs /\ InNf(task.nf)
  BY SlotType DEF RegInv, InNf
<1>2. profile[task.nf] # Off /\ profile[task.nf] \in Profiles \cup {Off}
  BY <1>1 DEF RegInv, Held, TypeOK
<1> QED
  BY <1>1, <1>2 DEF SlotProfile

--------------------------------------------------------------------------------
(* Types and holders are kept by each step.                                 *)
LEMMA NewProfileType == NewProfile \in Profiles /\ NewProfile # Off
<1>1. Off \in Countdown
  BY DEF Countdown
<1>2. NewProfile \in Profiles
  BY <1>1 DEF Profiles, NewProfile
<1> QED
  BY <1>2, NoProfileAssumption

LEMMA RegInit == Init => RegInv
<1> SUFFICES ASSUME Init
             PROVE  RegInv
  OBVIOUS
<1>1. TypeOK
  BY RegistryAssumption DEF Init, TypeOK, Tasks, Idle
<1>2. requests \in [NFs -> Nat]
  BY DEF Init
<1>3. Held
  BY DEF Init, Held, InNf, Idle
<1> QED
  BY <1>1, <1>2, <1>3 DEF RegInv

\* Time goes on between the requests.
LEMMA ClockType ==
  ASSUME TypeOK, ClockAdvances
  PROVE  clock' \in 0 .. 2 * Interval - 1 /\ quiet' \in [NFs -> 0 .. Heartbeat]
<1>1. clock + 1 \in Nat /\ 2 * Interval \in Nat \ {0}
  BY RegistryAssumption DEF TypeOK
<1>2. (clock + 1) % (2 * Interval) \in 0 .. 2 * Interval - 1
  BY <1>1
<1>3. \A nf \in NFs : nf \in Punctual \cap registered => quiet[nf] + 1 \in 0 .. Heartbeat
  BY RegistryAssumption DEF TypeOK, ClockAdvances, TimeMayPass
<1>4. quiet' \in [NFs -> 0 .. Heartbeat]
  BY <1>3, RegistryAssumption DEF ClockAdvances
<1> QED
  BY <1>2, <1>4 DEF ClockAdvances

\* What a tick leaves of a profile none of whose slots is due.
LEMMA TickedProfile ==
  ASSUME NEW p \in Profiles, p.first # 0, p.hb # 0, NEW q,
         q = [p EXCEPT !.first = Ticked(@), !.hb = Ticked(@)]
  PROVE  /\ q \in Profiles
         /\ q.status = p.status /\ q.updated = p.updated /\ q.firstUpdate = p.firstUpdate
         /\ q.first = IF p.first = Off THEN Off ELSE p.first - 1
         /\ q.hb = IF p.hb = Off THEN Off ELSE p.hb - 1
<1>1. \A c \in Countdown : c # 0 => Ticked(c) \in Countdown
  BY RegistryAssumption DEF Countdown, Ticked, LongestWait, FirstInterval
<1>2. /\ p.status \in {"REGISTERED", "SUSPENDED"} /\ p.updated \in BOOLEAN
      /\ p.firstUpdate \in BOOLEAN /\ p.first \in Countdown /\ p.hb \in Countdown
  BY DEF Profiles
<1>3. q = [status |-> p.status, updated |-> p.updated, first |-> Ticked(p.first),
           hb |-> Ticked(p.hb), firstUpdate |-> p.firstUpdate]
  BY DEF Profiles
<1>4. q \in Profiles
  BY <1>1, <1>2, <1>3 DEF Profiles
<1> QED
  BY <1>3, <1>4 DEF Ticked

LEMMA TickProfiles ==
  ASSUME RegInv, Tick
  PROVE  /\ profile' \in [NFs -> Profiles \cup {Off}]
         /\ \A nf \in NFs : profile[nf] = Off => profile'[nf] = Off
         /\ \A nf \in NFs : profile[nf] # Off =>
              /\ profile'[nf] # Off /\ profile[nf] \in Profiles
              /\ profile[nf].first # 0 /\ profile[nf].hb # 0
              /\ profile'[nf].status = profile[nf].status
              /\ profile'[nf].updated = profile[nf].updated
              /\ profile'[nf].firstUpdate = profile[nf].firstUpdate
              /\ profile'[nf].first = IF profile[nf].first = Off THEN Off ELSE profile[nf].first - 1
              /\ profile'[nf].hb = IF profile[nf].hb = Off THEN Off ELSE profile[nf].hb - 1
<1> DEFINE q(nf) == [profile[nf] EXCEPT !.first = Ticked(@), !.hb = Ticked(@)]
<1>1. /\ profile \in [NFs -> Profiles \cup {Off}]
      /\ profile' = [nf \in NFs |-> IF profile[nf] = Off THEN Off ELSE q(nf)]
  BY DEF RegInv, TypeOK, Tick
<1>2. \A nf \in NFs : profile[nf] # Off =>
        profile[nf] \in Profiles /\ profile[nf].first # 0 /\ profile[nf].hb # 0
  BY <1>1 DEF Tick, Due
<1>3. \A nf \in NFs : profile[nf] # Off =>
        /\ q(nf) \in Profiles
        /\ q(nf).status = profile[nf].status /\ q(nf).updated = profile[nf].updated
        /\ q(nf).firstUpdate = profile[nf].firstUpdate
        /\ q(nf).first = IF profile[nf].first = Off THEN Off ELSE profile[nf].first - 1
        /\ q(nf).hb = IF profile[nf].hb = Off THEN Off ELSE profile[nf].hb - 1
  BY <1>2, TickedProfile
<1> HIDE DEF q
<1>4. \A nf \in NFs : profile[nf] # Off => profile'[nf] = q(nf) /\ q(nf) # Off
  BY <1>1, <1>3, NoProfileAssumption
<1>5. profile' \in [NFs -> Profiles \cup {Off}]
  BY <1>1, <1>3
<1> QED
  BY <1>1, <1>2, <1>3, <1>4, <1>5

LEMMA ProfileSet ==
  ASSUME TypeOK, NEW nf \in NFs, NEW q \in Profiles \cup {Off},
         profile' = [profile EXCEPT ![nf] = q]
  PROVE  /\ profile' \in [NFs -> Profiles \cup {Off}] /\ profile'[nf] = q
         /\ \A m \in NFs \ {nf} : profile'[m] = profile[m]
  BY DEF TypeOK

LEMMA ProfileOf ==
  ASSUME RegInv, NEW nf \in NFs, profile[nf] # Off
  PROVE  profile[nf] \in Profiles
  BY DEF RegInv, TypeOK

\* The periods that timers are set to.
LEMMA Periods ==
  ASSUME TypeOK
  PROVE  /\ FirstInterval \in Countdown /\ Heartbeat \in Countdown /\ Off \in Countdown
         /\ FirstInterval + lag \in Countdown /\ Heartbeat + Margin + lag \in Countdown
         /\ lag \in Nat /\ FirstInterval = 2 * Heartbeat /\ Heartbeat \in Nat \ {0}
         /\ Margin \in Nat
  BY RegistryAssumption DEF TypeOK, Countdown, LongestWait, FirstInterval

\* handle_heartbeat_timeout_*: the slot is started for the NF.
LEMMA CallSlotTask ==
  ASSUME NEW nf \in NFs, NEW slot \in {"first", "hb"}, CallSlot(nf, slot)
  PROVE  /\ task' \in Tasks /\ task'.at = IF profile[nf].updated THEN "clear" ELSE "suspend"
         /\ task'.slot = slot /\ task'.nf = nf /\ task'.alive = TRUE
         /\ \A m \in NFs : ~InNf(m) /\ (InNf(m)' <=> m = nf)
<1>1. task' = [at |-> IF profile[nf].updated THEN "clear" ELSE "suspend",
               slot |-> slot, nf |-> nf, alive |-> TRUE]
  BY DEF CallSlot
<1>2. task' \in Tasks /\ task'.at = (IF profile[nf].updated THEN "clear" ELSE "suspend")
      /\ task'.slot = slot /\ task'.nf = nf /\ task'.alive = TRUE
  BY <1>1 DEF Tasks
<1>3. \A m \in NFs : ~InNf(m) /\ (InNf(m)' <=> m = nf)
  BY <1>2 DEF InNf, CallSlot, Idle
<1> QED
  BY <1>2, <1>3

LEMMA CallSlotDoes ==
  ASSUME RegInv, NEW nf \in NFs, NEW slot \in {"first", "hb"}, CallSlot(nf, slot)
  PROVE  /\ profile[nf] # Off /\ profile[nf] \in Profiles
         /\ slot = "first" => profile[nf].first = 0
         /\ slot = "hb" => profile[nf].hb = 0
         /\ profile' \in [NFs -> Profiles \cup {Off}]
         /\ \A m \in NFs \ {nf} : profile'[m] = profile[m]
         /\ profile'[nf] # Off /\ profile'[nf].status = profile[nf].status
         /\ profile'[nf].updated = profile[nf].updated
         /\ profile'[nf].firstUpdate = profile[nf].firstUpdate
         /\ profile'[nf].first = IF slot = "first" THEN FirstInterval ELSE profile[nf].first
         /\ profile'[nf].hb = IF slot = "hb" THEN Heartbeat ELSE profile[nf].hb
<1>1. profile[nf] # Off /\ profile[nf][slot] = 0 /\ profile[nf] \in Profiles
  BY ProfileOf DEF CallSlot, Due
<1> DEFINE q == [profile[nf] EXCEPT ![slot] = Period(slot)]
<1>2. /\ q \in Profiles
      /\ q.status = profile[nf].status /\ q.updated = profile[nf].updated
      /\ q.firstUpdate = profile[nf].firstUpdate
      /\ q.first = IF slot = "first" THEN FirstInterval ELSE profile[nf].first
      /\ q.hb = IF slot = "hb" THEN Heartbeat ELSE profile[nf].hb
  <2>1. CASE slot = "first"
    <3>1. q = [profile[nf] EXCEPT !.first = FirstInterval]
      BY <2>1 DEF Period
    <3> HIDE DEF q
    <3> QED
      BY <1>1, <2>1, <3>1, Periods DEF Profiles, RegInv
  <2>2. CASE slot = "hb"
    <3>1. q = [profile[nf] EXCEPT !.hb = Heartbeat]
      BY <2>2 DEF Period
    <3> HIDE DEF q
    <3> QED
      BY <1>1, <2>2, <3>1, Periods DEF Profiles, RegInv
  <2> QED
    BY <2>1, <2>2
<1>3. profile' = [profile EXCEPT ![nf] = q]
  BY DEF CallSlot
<1> HIDE DEF q
<1>4. /\ profile' \in [NFs -> Profiles \cup {Off}] /\ profile'[nf] = q /\ q # Off
      /\ \A m \in NFs \ {nf} : profile'[m] = profile[m]
  BY <1>2, <1>3, ProfileSet, NoProfileAssumption DEF RegInv
<1> QED
  BY <1>1, <1>2, <1>4

LEMMA SuspendDoes ==
  ASSUME RegInv, Suspend
  PROVE  /\ task.at = "suspend" /\ profile' \in [NFs -> Profiles \cup {Off}]
         /\ \A m \in NFs : ~InNf(m) => profile'[m] = profile[m]
         /\ \A m \in NFs : InNf(m) =>
              /\ profile[m] # Off /\ profile'[m] # Off /\ profile'[m].status = "SUSPENDED"
              /\ profile'[m].updated = profile[m].updated
              /\ profile'[m].firstUpdate = profile[m].firstUpdate
              /\ profile'[m].first = profile[m].first /\ profile'[m].hb = profile[m].hb
         /\ task' \in Tasks /\ task'.at = IF task.slot = "first" THEN "list" ELSE "notify"
         /\ task'.nf = task.nf /\ task'.slot = task.slot
         /\ \A m \in NFs : InNf(m)' <=> InNf(m)
<1>1. task.at = "suspend" /\ TypeOK
  BY DEF Suspend, InSlot, RegInv
<1> DEFINE q == [SlotProfile EXCEPT !.status = "SUSPENDED"]
<1>2. task.alive => /\ q \in Profiles /\ q.status = "SUSPENDED"
                    /\ q.updated = SlotProfile.updated
                    /\ q.firstUpdate = SlotProfile.firstUpdate
                    /\ q.first = SlotProfile.first /\ q.hb = SlotProfile.hb
  BY <1>1, SlotProfileExists DEF Profiles
<1>3. Writes(q)
  BY DEF Suspend
<1> HIDE DEF q
<1>4. /\ profile' \in [NFs -> Profiles \cup {Off}]
      /\ \A nf \in NFs : profile'[nf] = IF InNf(nf) THEN q ELSE profile[nf]
  BY <1>1, <1>2, <1>3, SlotWrites
<1>5. \A m \in NFs : InNf(m) => m = task.nf /\ task.alive /\ SlotProfile = profile[m] /\ SlotProfile # Off
  BY <1>1, SlotProfileExists DEF InNf, SlotProfile
<1>6. /\ task' \in Tasks /\ task'.at = (IF task.slot = "first" THEN "list" ELSE "notify")
      /\ task'.nf = task.nf /\ task'.slot = task.slot
      /\ \A m \in NFs : InNf(m)' <=> InNf(m)
  BY <1>1, GoesOn DEF Suspend
<1> QED
  BY <1>1, <1>2, <1>4, <1>5, <1>6, NoProfileAssumption

LEMMA NotifyDoes ==
  ASSUME RegInv, Notify
  PROVE  /\ task.at = "notify" /\ profile' \in [NFs -> Profiles \cup {Off}]
         /\ \A m \in NFs : ~InNf(m) => profile'[m] = profile[m]
         /\ \A m \in NFs : InNf(m) =>
              /\ profile[m] # Off /\ profile'[m] # Off /\ profile'[m].hb = Off
              /\ profile'[m].status = profile[m].status
              /\ profile'[m].updated = profile[m].updated
              /\ profile'[m].firstUpdate = profile[m].firstUpdate
              /\ profile'[m].first = profile[m].first
              /\ m \in lapsed'
         /\ lapsed \subseteq lapsed' /\ lapsed' \subseteq NFs
         /\ task' \in Tasks /\ task'.at = "list" /\ task'.nf = task.nf /\ task'.slot = task.slot
         /\ \A m \in NFs : InNf(m)' <=> InNf(m)
<1>1. task.at = "notify" /\ TypeOK
  BY DEF Notify, InSlot, RegInv
<1> DEFINE q == [SlotProfile EXCEPT !.hb = Off]
<1>2. task.alive => /\ q \in Profiles /\ q.hb = Off
                    /\ q.status = SlotProfile.status /\ q.updated = SlotProfile.updated
                    /\ q.firstUpdate = SlotProfile.firstUpdate
                    /\ q.first = SlotProfile.first
  BY <1>1, SlotProfileExists, Periods DEF Profiles
<1>3. Writes(q)
  BY DEF Notify
<1> HIDE DEF q
<1>4. /\ profile' \in [NFs -> Profiles \cup {Off}]
      /\ \A nf \in NFs : profile'[nf] = IF InNf(nf) THEN q ELSE profile[nf]
  BY <1>1, <1>2, <1>3, SlotWrites
<1>5. \A m \in NFs : InNf(m) => m = task.nf /\ task.alive /\ SlotProfile = profile[m] /\ SlotProfile # Off
  BY <1>1, SlotProfileExists DEF InNf, SlotProfile
<1>6. /\ task' \in Tasks /\ task'.at = "list"
      /\ task'.nf = task.nf /\ task'.slot = task.slot
      /\ \A m \in NFs : InNf(m)' <=> InNf(m)
  BY <1>1, GoesOn DEF Notify
<1>7. /\ lapsed \subseteq lapsed' /\ lapsed' \subseteq NFs
      /\ \A m \in NFs : InNf(m) => m \in lapsed'
  BY <1>1, <1>5, SlotType DEF Notify, TypeOK
<1> QED
  BY <1>1, <1>2, <1>4, <1>5, <1>6, <1>7, NoProfileAssumption

LEMMA ClearDoes ==
  ASSUME RegInv, Clear
  PROVE  /\ task.at = "clear" /\ profile' \in [NFs -> Profiles \cup {Off}]
         /\ \A m \in NFs : ~InNf(m) => profile'[m] = profile[m]
         /\ \A m \in NFs : InNf(m) =>
              /\ profile[m] # Off /\ profile'[m] # Off /\ ~profile'[m].updated
              /\ profile'[m].status = profile[m].status
              /\ profile'[m].firstUpdate = profile[m].firstUpdate
              /\ profile'[m].first = IF task.slot = "first" THEN Off ELSE profile[m].first
              /\ profile'[m].hb = profile[m].hb
         /\ task' = Idle /\ task' \in Tasks
         /\ \A m \in NFs : ~InNf(m)'
<1>1. task.at = "clear" /\ TypeOK
  BY DEF Clear, InSlot, RegInv
<1> DEFINE q == Cleared(SlotProfile)
<1>2. task.alive => /\ q \in Profiles /\ ~q.updated
                    /\ q.status = SlotProfile.status
                    /\ q.firstUpdate = SlotProfile.firstUpdate
                    /\ q.first = (IF task.slot = "first" THEN Off ELSE SlotProfile.first)
                    /\ q.hb = SlotProfile.hb
  BY <1>1, SlotProfileExists, Periods DEF Profiles, Cleared
<1>3. Writes(q)
  BY DEF Clear
<1> HIDE DEF q
<1>4. /\ profile' \in [NFs -> Profiles \cup {Off}]
      /\ \A nf \in NFs : profile'[nf] = IF InNf(nf) THEN q ELSE profile[nf]
  BY <1>1, <1>2, <1>3, SlotWrites
<1>5. \A m \in NFs : InNf(m) => m = task.nf /\ task.alive /\ SlotProfile = profile[m] /\ SlotProfile # Off
  BY <1>1, SlotProfileExists DEF InNf, SlotProfile
<1>6. task' = Idle /\ task' \in Tasks /\ \A m \in NFs : ~InNf(m)'
  BY DEF Clear, Idle, InNf, Tasks
<1> QED
  BY <1>1, <1>2, <1>4, <1>5, <1>6, NoProfileAssumption

--------------------------------------------------------------------------------
(* The requests and the profile they work on.                               *)
LEMMA HttpGoes ==
  ASSUME TypeOK, NEW nf \in NFs,
         NEW at \in {"idle", "monitor", "disconnect", "subscribe", "status", "unlist"},
         http' = [http EXCEPT ![nf] = at]
  PROVE  /\ http' \in [NFs -> {"idle", "monitor", "disconnect", "subscribe", "status", "unlist"}]
         /\ http'[nf] = at /\ \A m \in NFs \ {nf} : http'[m] = http[m]
  BY DEF TypeOK

LEMMA BeatDoes ==
  ASSUME RegInv, NEW nf \in NFs, Beat(nf)
  PROVE  /\ profile[nf] # Off /\ profile[nf] \in Profiles
         /\ profile' \in [NFs -> Profiles \cup {Off}] /\ profile'[nf] # Off
         /\ \A m \in NFs \ {nf} : profile'[m] = profile[m]
         /\ profile'[nf].status = "REGISTERED"
         /\ profile'[nf].updated = profile[nf].updated
         /\ profile'[nf].firstUpdate = profile[nf].firstUpdate
         /\ profile'[nf].first = profile[nf].first
         /\ profile'[nf].hb = profile[nf].hb
<1>1. profile[nf] # Off /\ profile[nf] \in Profiles
  BY ProfileOf DEF RegInv, Held, Beat
<1> DEFINE q == [profile[nf] EXCEPT !.status = "REGISTERED"]
<1>2. /\ q \in Profiles
      /\ q.status = "REGISTERED"
      /\ q.updated = profile[nf].updated
      /\ q.firstUpdate = profile[nf].firstUpdate
      /\ q.first = profile[nf].first
      /\ q.hb = profile[nf].hb
  BY <1>1, Periods DEF Profiles, RegInv
<1>3. profile' = [profile EXCEPT ![nf] = q]
  BY DEF Beat
<1> HIDE DEF q
<1> QED
  BY <1>1, <1>2, <1>3, ProfileSet, NoProfileAssumption DEF RegInv

LEMMA DisconnectDoes ==
  ASSUME RegInv, NEW nf \in NFs, Disconnect(nf)
  PROVE  /\ profile[nf] # Off /\ profile[nf] \in Profiles
         /\ profile' \in [NFs -> Profiles \cup {Off}] /\ profile'[nf] # Off
         /\ \A m \in NFs \ {nf} : profile'[m] = profile[m]
         /\ profile'[nf].first = Off
         /\ profile'[nf].status = profile[nf].status
         /\ profile'[nf].updated = profile[nf].updated
         /\ profile'[nf].firstUpdate = profile[nf].firstUpdate
         /\ profile'[nf].hb = profile[nf].hb
<1>1. profile[nf] # Off /\ profile[nf] \in Profiles
  BY ProfileOf DEF RegInv, Held, Disconnect
<1> DEFINE q == [profile[nf] EXCEPT !.first = Off]
<1>2. /\ q \in Profiles
      /\ q.first = Off
      /\ q.status = profile[nf].status
      /\ q.updated = profile[nf].updated
      /\ q.firstUpdate = profile[nf].firstUpdate
      /\ q.hb = profile[nf].hb
  BY <1>1, Periods DEF Profiles, RegInv
<1>3. profile' = [profile EXCEPT ![nf] = q]
  BY DEF Disconnect
<1> HIDE DEF q
<1> QED
  BY <1>1, <1>2, <1>3, ProfileSet, NoProfileAssumption DEF RegInv

LEMMA SubscribeDoes ==
  ASSUME RegInv, NEW nf \in NFs, Subscribe(nf)
  PROVE  /\ profile[nf] # Off /\ profile[nf] \in Profiles
         /\ profile' \in [NFs -> Profiles \cup {Off}] /\ profile'[nf] # Off
         /\ \A m \in NFs \ {nf} : profile'[m] = profile[m]
         /\ profile'[nf].hb = (IF profile[nf].firstUpdate THEN Heartbeat + Margin + lag ELSE profile[nf].hb)
         /\ ~profile'[nf].firstUpdate
         /\ profile'[nf].status = profile[nf].status
         /\ profile'[nf].updated = profile[nf].updated
         /\ profile'[nf].first = profile[nf].first
<1>1. profile[nf] # Off /\ profile[nf] \in Profiles
  BY ProfileOf DEF RegInv, Held, Subscribe
<1> DEFINE q == Subscribed(profile[nf])
<1>2. /\ q \in Profiles
      /\ q.hb = (IF profile[nf].firstUpdate THEN Heartbeat + Margin + lag ELSE profile[nf].hb)
      /\ ~q.firstUpdate
      /\ q.status = profile[nf].status
      /\ q.updated = profile[nf].updated
      /\ q.first = profile[nf].first
  BY <1>1, Periods DEF Profiles, RegInv, Subscribed
<1>3. profile' = [profile EXCEPT ![nf] = q]
  BY DEF Subscribe
<1> HIDE DEF q
<1> QED
  BY <1>1, <1>2, <1>3, ProfileSet, NoProfileAssumption DEF RegInv

LEMMA SetStatusDoes ==
  ASSUME RegInv, NEW nf \in NFs, SetStatus(nf)
  PROVE  /\ profile[nf] # Off /\ profile[nf] \in Profiles
         /\ profile' \in [NFs -> Profiles \cup {Off}] /\ profile'[nf] # Off
         /\ \A m \in NFs \ {nf} : profile'[m] = profile[m]
         /\ profile'[nf].status = "REGISTERED"
         /\ profile'[nf].updated
         /\ profile'[nf].firstUpdate = profile[nf].firstUpdate
         /\ profile'[nf].first = profile[nf].first
         /\ profile'[nf].hb = profile[nf].hb
<1>1. profile[nf] # Off /\ profile[nf] \in Profiles
  BY ProfileOf DEF RegInv, Held, SetStatus
<1> DEFINE q == [profile[nf] EXCEPT !.status = "REGISTERED", !.updated = TRUE]
<1>2. /\ q \in Profiles
      /\ q.status = "REGISTERED"
      /\ q.updated
      /\ q.firstUpdate = profile[nf].firstUpdate
      /\ q.first = profile[nf].first
      /\ q.hb = profile[nf].hb
  BY <1>1, Periods DEF Profiles, RegInv
<1>3. profile' = [profile EXCEPT ![nf] = q]
  BY DEF SetStatus
<1> HIDE DEF q
<1> QED
  BY <1>1, <1>2, <1>3, ProfileSet, NoProfileAssumption DEF RegInv

LEMMA MonitorDoes ==
  ASSUME RegInv, NEW nf \in NFs, Monitor(nf)
  PROVE  /\ profile[nf] # Off /\ profile' \in [NFs -> Profiles \cup {Off}]
         /\ \A m \in NFs \ {nf} : profile'[m] = profile[m]
         /\ nf \notin registered => profile'[nf] = Off
         /\ nf \in registered =>
              /\ profile'[nf] # Off /\ profile'[nf].first = FirstInterval + lag
              /\ profile'[nf].status = profile[nf].status
              /\ profile'[nf].updated = profile[nf].updated
              /\ profile'[nf].firstUpdate = profile[nf].firstUpdate
              /\ profile'[nf].hb = profile[nf].hb
<1>1. profile[nf] # Off /\ profile[nf] \in Profiles
  BY ProfileOf DEF RegInv, Held, Monitor
<1> DEFINE q == [profile[nf] EXCEPT !.first = FirstInterval + lag]
<1>2. /\ q \in Profiles
      /\ q.first = FirstInterval + lag
      /\ q.status = profile[nf].status /\ q.updated = profile[nf].updated
      /\ q.firstUpdate = profile[nf].firstUpdate /\ q.hb = profile[nf].hb
  BY <1>1, Periods DEF Profiles, RegInv
<1>3. profile' = [profile EXCEPT ![nf] = Released(nf, q)]
  BY DEF Monitor
<1> HIDE DEF q
<1>4. Released(nf, q) \in Profiles \cup {Off}
  BY <1>2 DEF Released
<1>5. /\ profile' \in [NFs -> Profiles \cup {Off}] /\ profile'[nf] = Released(nf, q)
      /\ \A m \in NFs \ {nf} : profile'[m] = profile[m]
  BY <1>3, <1>4, ProfileSet DEF RegInv
<1>6. CASE nf \in registered
  BY <1>1, <1>2, <1>5, <1>6, NoProfileAssumption DEF Released
<1>7. CASE nf \notin registered
  BY <1>1, <1>5, <1>7 DEF Released
<1> QED
  BY <1>6, <1>7

LEMMA UnlistDoes ==
  ASSUME RegInv, NEW nf \in NFs, Unlist(nf)
  PROVE  /\ profile[nf] # Off /\ profile' \in [NFs -> Profiles \cup {Off}]
         /\ \A m \in NFs \ {nf} : profile'[m] = profile[m]
         /\ profile'[nf] = IF nf \in registered THEN profile[nf] ELSE Off
         /\ task' \in Tasks /\ task'.at = task.at
         /\ task'.at \notin {"idle", "sweep"} => task'.nf = task.nf /\ task'.slot = task.slot
         /\ \A m \in NFs \ {nf} : InNf(m)' <=> InNf(m)
         /\ InNf(nf)' <=> InNf(nf) /\ nf \in registered
         /\ suspended' \in [0 .. 1 -> SUBSET NFs]
         /\ suspended'[0] \subseteq suspended[0] /\ suspended'[1] \subseteq suspended[1]
<1>1. profile[nf] # Off /\ TypeOK
  BY DEF RegInv, Held, Unlist
<1>2. Released(nf, profile[nf]) \in Profiles \cup {Off}
  BY <1>1 DEF Released, TypeOK
<1>3. /\ profile' \in [NFs -> Profiles \cup {Off}] /\ profile'[nf] = Released(nf, profile[nf])
      /\ \A m \in NFs \ {nf} : profile'[m] = profile[m]
  BY <1>1, <1>2, ProfileSet DEF Unlist
<1>4. /\ task' \in Tasks /\ task'.at = task.at
      /\ task'.at \notin {"idle", "sweep"} => task'.nf = task.nf /\ task'.slot = task.slot
      /\ \A m \in NFs \ {nf} : InNf(m)' <=> InNf(m)
      /\ InNf(nf)' <=> InNf(nf) /\ nf \in registered
  <2>1. CASE nf \in registered
    BY <1>1, <2>1 DEF Unlist, InNf, TypeOK
  <2>2. CASE nf \notin registered
    <3>1. task' = Destroyed(nf)
      BY <2>2 DEF Unlist
    <3> QED
      BY <1>1, <2>2, <3>1, DestroyedUnder
  <2> QED
    BY <2>1, <2>2
<1>5. /\ suspended' \in [0 .. 1 -> SUBSET NFs]
      /\ suspended'[0] \subseteq suspended[0] /\ suspended'[1] \subseteq suspended[1]
  BY <1>1 DEF Unlist, TypeOK
<1> QED
  BY <1>1, <1>3, <1>4, <1>5 DEF Released

\* A new profile replaces what there was; the slot is left with the old one.
LEMMA RegisterDoes ==
  ASSUME RegInv, NEW nf \in NFs, Register(nf)
  PROVE  /\ profile' \in [NFs -> Profiles \cup {Off}] /\ profile'[nf] = NewProfile
         /\ profile'[nf] # Off
         /\ \A m \in NFs \ {nf} : profile'[m] = profile[m]
         /\ task' \in Tasks /\ task'.at = task.at /\ ~InNf(nf)'
         /\ task'.at \notin {"idle", "sweep"} => task'.nf = task.nf /\ task'.slot = task.slot
         /\ \A m \in NFs \ {nf} : InNf(m)' <=> InNf(m)
<1>1. TypeOK /\ task' = Destroyed(nf) /\ profile' = [profile EXCEPT ![nf] = NewProfile]
  BY DEF RegInv, Register
<1> QED
  BY <1>1, NewProfileType, ProfileSet, DestroyedUnder

LEMMA DeregisterDoes ==
  ASSUME RegInv, NEW nf \in NFs, Deregister(nf)
  PROVE  /\ profile' \in [NFs -> Profiles \cup {Off}] /\ profile'[nf] = Off
         /\ \A m \in NFs \ {nf} : profile'[m] = profile[m]
         /\ task' \in Tasks /\ task'.at = task.at /\ ~InNf(nf)'
         /\ task'.at \notin {"idle", "sweep"} => task'.nf = task.nf /\ task'.slot = task.slot
         /\ \A m \in NFs \ {nf} : InNf(m)' <=> InNf(m)
<1>1. TypeOK /\ task' = Destroyed(nf) /\ profile' = [profile EXCEPT ![nf] = Off]
  BY DEF RegInv, Deregister
<1> QED
  BY <1>1, ProfileSet, DestroyedUnder

\* The sweep destroys profiles on the other list that no request holds.
LEMMA SweepDoes ==
  ASSUME RegInv, Sweep
  PROVE  /\ profile' \in [NFs -> Profiles \cup {Off}]
         /\ \A m \in NFs : profile'[m] # Off => profile'[m] = profile[m]
         /\ \A m \in NFs : profile'[m] = Off /\ profile[m] # Off => m \notin registered' /\ http[m] = "idle"
         /\ OtherBucket \in 0 .. 1 /\ registered' = registered \ suspended[OtherBucket]
         /\ task' \in Tasks /\ task'.at = "sweep"
         /\ \A m \in NFs : ~InNf(m) /\ ~InNf(m)'
<1>1. clock \div Interval \in Nat
  BY RegistryAssumption DEF RegInv, TypeOK
<1>2. OtherBucket \in 0 .. 1
  BY <1>1 DEF OtherBucket, Bucket
<1>3. profile \in [NFs -> Profiles \cup {Off}]
  BY DEF RegInv, TypeOK
<1>4. task' = [at |-> "sweep", bucket |-> OtherBucket] /\ task = Idle
  BY DEF Sweep
<1>5. task' \in Tasks /\ task'.at = "sweep" /\ task.at = "idle"
  BY <1>2, <1>4 DEF Tasks, Idle
<1> QED
  BY <1>2, <1>3, <1>5 DEF Sweep, InNf

--------------------------------------------------------------------------------
LEMMA CountsType ==
  ASSUME RegInv, NEW nf \in NFs, Counts(nf)
  PROVE  /\ requests' \in [NFs -> Nat]
         /\ \A m \in NFs : requests'[m] \in 0 .. MaxRequests[m]
<1>1. /\ requests \in [NFs -> Nat] /\ MaxRequests \in [NFs -> Nat]
      /\ \A m \in NFs : requests[m] \in 0 .. MaxRequests[m]
      /\ requests[nf] < MaxRequests[nf] /\ requests' = [requests EXCEPT ![nf] = @ + 1]
  BY RegistryAssumption DEF RegInv, TypeOK, Counts
<1>2. requests[nf] + 1 \in 0 .. MaxRequests[nf]
  BY <1>1
<1> QED
  BY <1>1, <1>2

\* A request that goes on without leaving the profile.
LEMMA HttpHeld ==
  ASSUME RegInv, NEW nf \in NFs, UNCHANGED <<task, registered>>,
         profile'[nf] # Off, \A m \in NFs \ {nf} : profile'[m] = profile[m],
         http'[nf] # "monitor", \A m \in NFs \ {nf} : http'[m] = http[m]
  PROVE  Held'
<1> SUFFICES ASSUME NEW m \in NFs
             PROVE  /\ m \in registered' \/ http'[m] # "idle" \/ InNf(m)' => profile'[m] # Off
                    /\ http'[m] = "monitor" =>
                         ~InNf(m)' /\ profile'[m].first = Off /\ profile'[m].hb = Off
  BY DEF Held
<1>1. InNf(m)' <=> InNf(m)
  BY DEF InNf
<1>2. CASE m = nf
  BY <1>2
<1>3. CASE m # nf
  BY <1>1, <1>3 DEF RegInv, Held
<1> QED
  BY <1>2, <1>3

LEMMA RegStep == RegInv /\ [Next]_vars => RegInv'
<1> SUFFICES ASSUME RegInv, [Next]_vars
             PROVE  RegInv'
  OBVIOUS
<1>0. TypeOK /\ requests \in [NFs -> Nat] /\ Held
  BY DEF RegInv
<1>1. CASE Tick
  <2>1. profile' \in [NFs -> Profiles \cup {Off}]
    BY <1>1, TickProfiles
  <2>2. clock' \in 0 .. 2 * Interval - 1 /\ quiet' \in [NFs -> 0 .. Heartbeat]
    BY <1>0, <1>1, ClockType DEF Tick
  <2>3. sweepIn' \in 0 .. Interval
    <3>1. sweepIn \in 0 .. Interval /\ sweepIn # 0 /\ sweepIn' = sweepIn - 1 /\ Interval \in Nat
      BY <1>0, <1>1, RegistryAssumption DEF Tick, TypeOK
    <3> QED
      BY <3>1
  <2>4. TypeOK'
    BY <1>0, <1>1, <2>1, <2>2, <2>3 DEF Tick, TypeOK, lists
  <2>5. Held'
    <3>1. \A nf \in NFs : http[nf] = "idle"
      BY <1>1 DEF Tick, ClockAdvances, TimeMayPass
    <3> QED
      BY <1>0, <1>1, <3>1, TickProfiles DEF Tick, Held, InNf, lists
  <2> QED
    BY <1>0, <1>1, <2>4, <2>5 DEF Tick, RegInv
<1>2. CASE LateTick
  <2>1. clock' \in 0 .. 2 * Interval - 1 /\ quiet' \in [NFs -> 0 .. Heartbeat]
    BY <1>0, <1>2, ClockType DEF LateTick
  <2>2. lag' \in 0 .. MaxLag
    BY <1>0, <1>2, RegistryAssumption DEF LateTick, TypeOK
  <2>3. TypeOK' /\ Held'
    BY <1>0, <1>2, <2>1, <2>2 DEF LateTick, TypeOK, Held, InNf, lists
  <2> QED
    BY <1>0, <1>2, <2>3 DEF LateTick, RegInv
<1>3. CASE Sweep
  <2>1. TypeOK'
    BY <1>0, <1>3, SweepDoes, RegistryAssumption DEF Sweep, TypeOK, env
  <2>2. Held'
    <3> SUFFICES ASSUME NEW nf \in NFs
                 PROVE  /\ nf \in registered' \/ http'[nf] # "idle" \/ InNf(nf)' => profile'[nf] # Off
                        /\ http'[nf] = "monitor" =>
                             ~InNf(nf)' /\ profile'[nf].first = Off /\ profile'[nf].hb = Off
      BY DEF Held
    <3>1. http' = http /\ registered' \subseteq registered
      BY <1>3, SweepDoes DEF Sweep
    <3> QED
      BY <1>0, <1>3, <3>1, SweepDoes DEF Held
  <2> QED
    BY <1>0, <1>3, <2>1, <2>2 DEF Sweep, RegInv, env
<1>4. CASE ClearList
  <2>1. task' \in Tasks /\ \A nf \in NFs : ~InNf(nf)'
    BY <1>4 DEF ClearList, Tasks, Idle, InNf
  <2>2. suspended' \in [0 .. 1 -> SUBSET NFs]
    BY <1>0, <1>4 DEF ClearList, TypeOK
  <2>3. TypeOK' /\ Held'
    BY <1>0, <1>4, <2>1, <2>2 DEF ClearList, TypeOK, Held, env
  <2> QED
    BY <1>0, <1>4, <2>3 DEF ClearList, RegInv, env
<1>5. ASSUME NEW nf \in NFs, NEW slot \in {"first", "hb"}, CallSlot(nf, slot)
      PROVE  RegInv'
  <2>1. TypeOK'
    <3>1. profile' \in [NFs -> Profiles \cup {Off}]
      BY <1>5, CallSlotDoes
    <3>2. task' \in Tasks
      BY <1>5, CallSlotTask
    <3> QED
      BY <1>0, <1>5, <3>1, <3>2 DEF CallSlot, TypeOK, lists, env
  <2>2. http[nf] # "monitor"
    <3>1. profile[nf].first = 0 \/ profile[nf].hb = 0
      BY <1>5, CallSlotDoes
    <3>2. Off # 0
      BY RegistryAssumption
    <3> QED
      BY <1>0, <3>1, <3>2 DEF Held
  <2>3. Held'
    <3> SUFFICES ASSUME NEW m \in NFs
                 PROVE  /\ m \in registered' \/ http'[m] # "idle" \/ InNf(m)' => profile'[m] # Off
                        /\ http'[m] = "monitor" =>
                             ~InNf(m)' /\ profile'[m].first = Off /\ profile'[m].hb = Off
      BY DEF Held
    <3>1. UNCHANGED <<registered, http>>
      BY <1>5 DEF CallSlot, lists
    <3>2. CASE m = nf
      BY <1>5, <2>2, <3>1, <3>2, CallSlotDoes
    <3>3. CASE m # nf
      <4>1. profile'[m] = profile[m]
        BY <1>5, <3>3, CallSlotDoes
      <4>2. ~InNf(m)'
        BY <1>5, <3>3, CallSlotTask
      <4> QED
        BY <1>0, <3>1, <4>1, <4>2 DEF Held
    <3> QED
      BY <3>2, <3>3
  <2> QED
    BY <1>0, <1>5, <2>1, <2>3 DEF CallSlot, RegInv, env
<1>6. CASE Suspend
  <2>1. TypeOK'
    BY <1>0, <1>6, SuspendDoes DEF Suspend, TypeOK, lists, env
  <2>2. Held'
    BY <1>0, <1>6, SuspendDoes DEF Suspend, Held, lists
  <2> QED
    BY <1>0, <1>6, <2>1, <2>2 DEF Suspend, RegInv, env
<1>7. CASE Notify
  <2>1. TypeOK'
    BY <1>0, <1>7, NotifyDoes DEF Notify, TypeOK, lists, env
  <2>2. Held'
    BY <1>0, <1>7, NotifyDoes DEF Notify, Held, lists
  <2> QED
    BY <1>0, <1>7, <2>1, <2>2 DEF Notify, RegInv, env
<1>8. CASE List
  <2>1. /\ task' \in Tasks /\ task'.at = "clear" /\ task.nf \in NFs
        /\ \A nf \in NFs : InNf(nf)' <=> InNf(nf)
    BY <1>0, <1>8, GoesOn, SlotType DEF List, InSlot
  <2>2. suspended' \in [0 .. 1 -> SUBSET NFs]
    BY <1>0, <1>8, <2>1 DEF List, Added, TypeOK
  <2>3. TypeOK' /\ Held'
    BY <1>0, <1>8, <2>1, <2>2 DEF List, TypeOK, Held, env
  <2> QED
    BY <1>0, <1>8, <2>3 DEF List, RegInv, env
<1>9. CASE Clear
  <2>1. TypeOK'
    BY <1>0, <1>9, ClearDoes DEF Clear, TypeOK, lists, env
  <2>2. Held'
    BY <1>0, <1>9, ClearDoes DEF Clear, Held, lists
  <2> QED
    BY <1>0, <1>9, <2>1, <2>2 DEF Clear, RegInv, env
<1>10. ASSUME NEW nf \in NFs, Register(nf)
       PROVE  RegInv'
  <2>1. http' = [http EXCEPT ![nf] = "monitor"] /\ Counts(nf)
    BY <1>10 DEF Register
  <2>2. quiet' \in [NFs -> 0 .. Heartbeat]
    BY <1>0, <1>10, RegistryAssumption DEF Register, TypeOK
  <2>3. TypeOK'
    BY <1>0, <1>10, <2>1, <2>2, RegisterDoes, HttpGoes, CountsType DEF Register, TypeOK
  <2>4. NewProfile.first = Off /\ NewProfile.hb = Off
    BY DEF NewProfile
  <2>5. Held'
    <3>1. \A m \in NFs \ {nf} : http'[m] = http[m] /\ (m \in registered' => m \in registered)
      BY <1>0, <1>10, <2>1, HttpGoes DEF Register
    <3> QED
      BY <1>0, <1>10, <2>4, <3>1, RegisterDoes DEF Held
  <2> QED
    BY <2>1, <2>3, <2>5, CountsType DEF RegInv
<1>11. ASSUME NEW nf \in NFs, Beat(nf)
       PROVE  RegInv'
  <2>1. http' = [http EXCEPT ![nf] = "disconnect"]
    BY <1>11 DEF Beat
  <2>2. requests' \in [NFs -> Nat] /\ \A m \in NFs : requests'[m] \in 0 .. MaxRequests[m]
    <3>1. CASE nf \in Punctual
      BY <1>0, <1>11, <3>1 DEF Beat, TypeOK
    <3>2. CASE nf \notin Punctual
      BY <1>11, <3>2, CountsType DEF Beat
    <3> QED
      BY <3>1, <3>2
  <2>3. TypeOK'
    BY <1>0, <1>11, <2>1, <2>2, BeatDoes, HttpGoes DEF Beat, TypeOK, lists
  <2>4. Held'
    <3>1. http'[nf] = "disconnect" /\ \A m \in NFs \ {nf} : http'[m] = http[m]
      BY <1>0, <2>1, HttpGoes
    <3> QED
      BY <1>11, <3>1, BeatDoes, HttpHeld DEF Beat, lists
  <2> QED
    BY <2>2, <2>3, <2>4 DEF RegInv
<1>12. ASSUME NEW nf \in NFs, Deregister(nf)
       PROVE  RegInv'
  <2>1. TypeOK'
    BY <1>0, <1>12, DeregisterDoes, CountsType DEF Deregister, TypeOK
  <2>2. Held'
    BY <1>0, <1>12, DeregisterDoes DEF Deregister, Held
  <2> QED
    BY <1>12, <2>1, <2>2, CountsType DEF RegInv, Deregister
<1>13. ASSUME NEW nf \in NFs, Monitor(nf)
       PROVE  RegInv'
  <2>1. http' = [http EXCEPT ![nf] = "idle"]
    BY <1>13 DEF Monitor
  <2>2. TypeOK'
    BY <1>0, <1>13, <2>1, MonitorDoes, HttpGoes DEF Monitor, TypeOK, lists, env
  <2>3. http'[nf] = "idle" /\ \A m \in NFs \ {nf} : http'[m] = http[m]
    BY <1>0, <2>1, HttpGoes
  <2>4. ~InNf(nf) /\ UNCHANGED <<task, registered>>
    BY <1>0, <1>13 DEF Monitor, Held, lists
  <2>5. Held'
    BY <1>0, <1>13, <2>3, <2>4, MonitorDoes DEF Held, InNf
  <2> QED
    BY <1>0, <1>13, <2>2, <2>5 DEF Monitor, RegInv, env
<1>14. ASSUME NEW nf \in NFs, Disconnect(nf)
       PROVE  RegInv'
  <2>1. http' = [http EXCEPT ![nf] = "subscribe"]
    BY <1>14 DEF Disconnect
  <2>2. TypeOK'
    BY <1>0, <1>14, <2>1, DisconnectDoes, HttpGoes DEF Disconnect, TypeOK, lists, env
  <2>3. http'[nf] = "subscribe" /\ \A m \in NFs \ {nf} : http'[m] = http[m]
    BY <1>0, <2>1, HttpGoes
  <2>4. Held'
    BY <1>14, <2>3, DisconnectDoes, HttpHeld DEF Disconnect, lists
  <2> QED
    BY <1>0, <1>14, <2>2, <2>4 DEF Disconnect, RegInv, env
<1>15. ASSUME NEW nf \in NFs, Subscribe(nf)
       PROVE  RegInv'
  <2>1. http' = [http EXCEPT ![nf] = "status"]
    BY <1>15 DEF Subscribe
  <2>2. TypeOK'
    BY <1>0, <1>15, <2>1, SubscribeDoes, HttpGoes DEF Subscribe, TypeOK, lists, env
  <2>3. http'[nf] = "status" /\ \A m \in NFs \ {nf} : http'[m] = http[m]
    BY <1>0, <2>1, HttpGoes
  <2>4. Held'
    BY <1>15, <2>3, SubscribeDoes, HttpHeld DEF Subscribe, lists
  <2> QED
    BY <1>0, <1>15, <2>2, <2>4 DEF Subscribe, RegInv, env
<1>16. ASSUME NEW nf \in NFs, SetStatus(nf)
       PROVE  RegInv'
  <2>1. http' = [http EXCEPT ![nf] = "unlist"]
    BY <1>16 DEF SetStatus
  <2>2. TypeOK'
    BY <1>0, <1>16, <2>1, SetStatusDoes, HttpGoes DEF SetStatus, TypeOK, lists, env
  <2>3. http'[nf] = "unlist" /\ \A m \in NFs \ {nf} : http'[m] = http[m]
    BY <1>0, <2>1, HttpGoes
  <2>4. Held'
    BY <1>16, <2>3, SetStatusDoes, HttpHeld DEF SetStatus, lists
  <2> QED
    BY <1>0, <1>16, <2>2, <2>4 DEF SetStatus, RegInv, env
<1>17. ASSUME NEW nf \in NFs, Unlist(nf)
       PROVE  RegInv'
  <2>1. http' = [http EXCEPT ![nf] = "idle"]
    BY <1>17 DEF Unlist
  <2>2. quiet' \in [NFs -> 0 .. Heartbeat]
    BY <1>0, <1>17, RegistryAssumption DEF Unlist, TypeOK
  <2>3. TypeOK'
    BY <1>0, <1>17, <2>1, <2>2, UnlistDoes, HttpGoes DEF Unlist, TypeOK
  <2>4. http'[nf] = "idle" /\ \A m \in NFs \ {nf} : http'[m] = http[m]
    BY <1>0, <2>1, HttpGoes
  <2>5. Held'
    <3> SUFFICES ASSUME NEW m \in NFs
                 PROVE  /\ m \in registered' \/ http'[m] # "idle" \/ InNf(m)' => profile'[m] # Off
                        /\ http'[m] = "monitor" =>
                             ~InNf(m)' /\ profile'[m].first = Off /\ profile'[m].hb = Off
      BY DEF Held
    <3>1. UNCHANGED registered
      BY <1>17 DEF Unlist
    <3>2. CASE m = nf
      BY <1>17, <2>4, <3>1, <3>2, UnlistDoes
    <3>3. CASE m # nf
      BY <1>0, <1>17, <2>4, <3>1, <3>3, UnlistDoes DEF Held
    <3> QED
      BY <3>2, <3>3
  <2> QED
    BY <1>0, <1>17, <2>3, <2>5 DEF Unlist, RegInv
<1>18. CASE UNCHANGED vars
  BY <1>0, <1>18 DEF vars, RegInv, TypeOK, Held, InNf, lists, env
<1> QED
  BY <1>1, <1>2, <1>3, <1>4, <1>5, <1>6, <1>7, <1>8, <1>9, <1>10, <1>11, <1>12, <1>13, <1>14,
     <1>15, <1>16, <1>17, <1>18
  DEF Next, TaskThread, Serve

(* The type invariant of the registry, whatever the task thread and the     *)
(* requests do to a profile in between each other (nrf_app.cpp,             *)
(* nrf_profile.cpp).                                                        *)
THEOREM TypeCorrect == Spec => []TypeOK
<1>1. RegInv => TypeOK
  BY DEF RegInv
<1> QED
  BY <1>1, RegInit, RegStep, PTL DEF Spec

--------------------------------------------------------------------------------
(* The timer that watches over an NF: the first until a heartbeat comes,    *)
(* the periodic one from then on.                                           *)
Watch(nf) ==
  profile[nf] # Off =>
    /\ profile[nf].updated \/ profile[nf].hb # Off \/ http[nf] \in {"status", "unlist"}
         => ~profile[nf].firstUpdate
    /\ ~profile[nf].firstUpdate /\ nf \notin lapsed => profile[nf].hb # Off
    /\ profile[nf].firstUpdate /\ http[nf] = "idle" /\ profile[nf].status = "REGISTERED"
         => profile[nf].first # Off
    /\ InNf(nf) /\ profile[nf].firstUpdate =>
         /\ task.slot = "first"
         /\ task.at # "suspend" /\ http[nf] = "idle" => profile[nf].status = "SUSPENDED"

\* A step of others leaves the watch of an NF as it is.
LEMMA WatchFrame ==
  ASSUME NEW nf, Watch(nf), profile'[nf] = profile[nf], http'[nf] = http[nf],
         nf \notin lapsed' => nf \notin lapsed,
         InNf(nf)' => InNf(nf) /\ task'.slot = task.slot /\ task'.at = task.at
  PROVE  Watch(nf)'
  BY DEF Watch

LEMMA WatchStep ==
  ASSUME RegInv, [Next]_vars, NEW nf \in NFs, Watch(nf)
  PROVE  Watch(nf)'
<1>0. TypeOK /\ Held
  BY DEF RegInv
<1>1. CASE Tick
  <2>1. UNCHANGED <<http, task, lapsed>> /\ http[nf] = "idle"
    BY <1>1 DEF Tick, ClockAdvances, TimeMayPass
  <2>2. InNf(nf)' <=> InNf(nf)
    BY <2>1 DEF InNf
  <2>3. \A c \in Countdown : c # Off /\ c # 0 => c - 1 # Off
    BY RegistryAssumption DEF Countdown
  <2>4. profile[nf] # Off => profile[nf].first \in Countdown /\ profile[nf].hb \in Countdown
    BY ProfileOf DEF Profiles
  <2>5. profile[nf] # Off =>
          /\ (profile'[nf].first = Off) <=> (profile[nf].first = Off)
          /\ (profile'[nf].hb = Off) <=> (profile[nf].hb = Off)
    BY <1>1, <2>3, <2>4, TickProfiles
  <2> QED
    BY <1>1, <2>1, <2>2, <2>5, TickProfiles DEF Watch
<1>2. CASE LateTick \/ ClearList \/ List \/ UNCHANGED vars
  <2>1. UNCHANGED <<profile, http, lapsed>>
    BY <1>2 DEF LateTick, ClearList, List, vars
  <2>2. CASE List
    <3>1. task.at = "list" /\ task'.at = "clear" /\ task'.slot = task.slot /\ (InNf(nf)' <=> InNf(nf))
      BY <1>0, <2>2, GoesOn DEF List, InSlot
    <3> QED
      BY <2>1, <3>1 DEF Watch
  <2>3. CASE ClearList
    <3>1. ~InNf(nf)'
      BY <2>3 DEF ClearList, Idle, InNf
    <3> QED
      BY <2>1, <3>1, WatchFrame
  <2>4. CASE LateTick \/ UNCHANGED vars
    <3>1. UNCHANGED task
      BY <2>4 DEF LateTick, vars
    <3> QED
      BY <2>1, <3>1, WatchFrame DEF InNf
  <2> QED
    BY <1>2, <2>2, <2>3, <2>4
<1>3. CASE Sweep
  <2>1. UNCHANGED <<http, lapsed>>
    BY <1>3 DEF Sweep
  <2>2. CASE profile'[nf] = Off
    BY <2>2 DEF Watch
  <2>3. CASE profile'[nf] # Off
    BY <1>3, <2>1, <2>3, SweepDoes, WatchFrame
  <2> QED
    BY <2>2, <2>3
<1>4. ASSUME NEW m \in NFs, NEW slot \in {"first", "hb"}, CallSlot(m, slot)
      PROVE  Watch(nf)'
  <2>1. UNCHANGED <<http, lapsed>>
    BY <1>4 DEF CallSlot
  <2>2. CASE m # nf
    <3>1. profile'[nf] = profile[nf]
      BY <1>4, <2>2, CallSlotDoes
    <3>2. ~InNf(nf)'
      BY <1>4, <2>2, CallSlotTask
    <3> QED
      BY <2>1, <3>1, <3>2, WatchFrame
  <2>3. CASE m = nf
    <3>0. CallSlot(nf, slot)
      BY <1>4, <2>3
    <3>1. FirstInterval # Off /\ Heartbeat # Off /\ Off # 0
      BY RegistryAssumption DEF FirstInterval
    <3>2. /\ profile[nf] # Off
          /\ slot = "hb" => profile[nf].hb = 0
          /\ profile'[nf].status = profile[nf].status
          /\ profile'[nf].updated = profile[nf].updated
          /\ profile'[nf].firstUpdate = profile[nf].firstUpdate
          /\ profile'[nf].first = IF slot = "first" THEN FirstInterval ELSE profile[nf].first
          /\ profile'[nf].hb = IF slot = "hb" THEN Heartbeat ELSE profile[nf].hb
      BY <3>0, CallSlotDoes
    <3>3. task'.at = (IF profile[nf].updated THEN "clear" ELSE "suspend") /\ task'.slot = slot
      BY <3>0, CallSlotTask
    <3>4. slot = "hb" \/ task'.at # "suspend" => ~profile[nf].firstUpdate
      BY <3>1, <3>2, <3>3 DEF Watch
    <3> QED
      BY <2>1, <3>1, <3>2, <3>3, <3>4 DEF Watch
  <2> QED
    BY <2>2, <2>3
<1>5. CASE Suspend
  <2>1. UNCHANGED <<http, lapsed>>
    BY <1>5 DEF Suspend
  <2>2. CASE ~InNf(nf)
    BY <1>5, <2>1, <2>2, SuspendDoes, WatchFrame
  <2>3. CASE InNf(nf)
    BY <1>5, <2>1, <2>3, SuspendDoes DEF Watch
  <2> QED
    BY <2>2, <2>3
<1>6. CASE Notify
  <2>1. UNCHANGED http
    BY <1>6 DEF Notify
  <2>2. CASE ~InNf(nf)
    BY <1>6, <2>1, <2>2, NotifyDoes, WatchFrame
  <2>3. CASE InNf(nf)
    BY <1>6, <2>1, <2>3, NotifyDoes DEF Watch
  <2> QED
    BY <2>2, <2>3
<1>7. CASE Clear
  <2>1. UNCHANGED <<http, lapsed>>
    BY <1>7 DEF Clear
  <2>2. CASE ~InNf(nf)
    BY <1>7, <2>1, <2>2, ClearDoes, WatchFrame
  <2>3. CASE InNf(nf)
    BY <1>7, <2>1, <2>3, ClearDoes DEF Watch
  <2> QED
    BY <2>2, <2>3
<1>8. ASSUME NEW m \in NFs, Register(m)
      PROVE  Watch(nf)'
  <2>1. http' = [http EXCEPT ![m] = "monitor"] /\ lapsed' = lapsed \ {m}
    BY <1>8 DEF Register
  <2>2. CASE m # nf
    BY <1>0, <1>8, <2>1, <2>2, RegisterDoes, HttpGoes, WatchFrame DEF InNf
  <2>3. CASE m = nf
    <3>1. http'[nf] = "monitor"
      BY <1>0, <2>1, <2>3, HttpGoes
    <3>2. NewProfile.firstUpdate /\ ~NewProfile.updated /\ NewProfile.hb = Off
      BY DEF NewProfile
    <3> QED
      BY <1>8, <2>3, <3>1, <3>2, RegisterDoes DEF Watch
  <2> QED
    BY <2>2, <2>3
<1>9. ASSUME NEW m \in NFs, Deregister(m)
      PROVE  Watch(nf)'
  <2>1. UNCHANGED <<http, lapsed>>
    BY <1>9 DEF Deregister
  <2>2. CASE m # nf
    BY <1>9, <2>1, <2>2, DeregisterDoes, WatchFrame DEF InNf
  <2>3. CASE m = nf
    BY <1>9, <2>3, DeregisterDoes DEF Watch
  <2> QED
    BY <2>2, <2>3
<1>10. ASSUME NEW m \in NFs, Beat(m) \/ Serve(m), m # nf
       PROVE  Watch(nf)'
  <2>1. profile'[nf] = profile[nf]
    BY <1>10, BeatDoes, MonitorDoes, DisconnectDoes, SubscribeDoes, SetStatusDoes, UnlistDoes
    DEF Serve
  <2>2. http'[nf] = http[nf] /\ UNCHANGED lapsed
    BY <1>0, <1>10 DEF TypeOK, Serve, Beat, Monitor, Disconnect, Subscribe, SetStatus, Unlist
  <2>3. InNf(nf)' => InNf(nf) /\ task'.slot = task.slot /\ task'.at = task.at
    <3>1. CASE Unlist(m)
      BY <1>10, <3>1, UnlistDoes DEF InNf
    <3>2. CASE ~Unlist(m)
      BY <1>10, <3>2 DEF Serve, Beat, Monitor, Disconnect, Subscribe, SetStatus, InNf
    <3> QED
      BY <3>1, <3>2
  <2> QED
    BY <2>1, <2>2, <2>3, WatchFrame
<1>11. CASE Beat(nf)
  <2>1. http'[nf] = "disconnect" /\ UNCHANGED <<lapsed, task>>
    BY <1>0, <1>11, HttpGoes DEF Beat
  <2> QED
    BY <1>11, <2>1, BeatDoes DEF Watch, InNf
<1>12. CASE Monitor(nf)
  <2>1. http'[nf] = "idle" /\ UNCHANGED <<lapsed, task>> /\ http[nf] = "monitor"
    BY <1>0, <1>12, HttpGoes DEF Monitor
  <2>2. ~InNf(nf)'
    BY <1>0, <2>1 DEF Held, InNf
  <2>3. FirstInterval + lag # Off
    BY <1>0, Periods, RegistryAssumption
  <2> QED
    BY <1>12, <2>1, <2>2, <2>3, MonitorDoes DEF Watch
<1>13. CASE Disconnect(nf)
  <2>1. http'[nf] = "subscribe" /\ UNCHANGED <<lapsed, task>>
    BY <1>0, <1>13, HttpGoes DEF Disconnect
  <2> QED
    BY <1>13, <2>1, DisconnectDoes DEF Watch, InNf
<1>14. CASE Subscribe(nf)
  <2>1. http'[nf] = "status" /\ UNCHANGED <<lapsed, task>>
    BY <1>0, <1>14, HttpGoes DEF Subscribe
  <2>2. Heartbeat + Margin + lag # Off
    BY <1>0, Periods, RegistryAssumption
  <2> QED
    BY <1>14, <2>1, <2>2, SubscribeDoes DEF Watch, InNf
<1>15. CASE SetStatus(nf)
  <2>1. http[nf] = "status" /\ http'[nf] = "unlist" /\ UNCHANGED <<lapsed, task>>
    BY <1>0, <1>15, HttpGoes DEF SetStatus
  <2> QED
    BY <1>15, <2>1, SetStatusDoes DEF Watch, InNf
<1>16. CASE Unlist(nf)
  <2>1. http[nf] = "unlist" /\ http'[nf] = "idle" /\ UNCHANGED lapsed
    BY <1>0, <1>16, HttpGoes DEF Unlist
  <2> QED
    BY <1>16, <2>1, UnlistDoes DEF Watch, InNf
<1> QED
  BY <1>1, <1>2, <1>3, <1>4, <1>5, <1>6, <1>7, <1>8, <1>9, <1>10, <1>11, <1>12, <1>13, <1>14,
     <1>15, <1>16
  DEF Next, TaskThread, Serve

Watches == \A nf \in NFs : Watch(nf)

(* From its registration to its first lapse an NF that the NRF offers to    *)
(* others is watched by a timer, although the request that replaces the     *)
(* first timer by the periodic one can come between any two accesses of the *)
(* slots of either (handle_update_nf_instance).                             *)
THEOREM WatchedAfterRegistration == Spec => []WatchedUntilLapse
<1>1. Init => Watches
  BY DEF Init, Watches, Watch
<1>2. RegInv /\ Watches /\ [Next]_vars => Watches'
  BY WatchStep DEF Watches
<1>3. RegInv /\ Watches => WatchedUntilLapse
  BY DEF RegInv, Held, TypeOK, Watches, Watch, WatchedUntilLapse, AtRest, Connected
<1> QED
  BY <1>1, <1>2, <1>3, RegInit, RegStep, PTL DEF Spec

--------------------------------------------------------------------------------
(* The timers of a punctual NF: its first timer is disconnected before it   *)
(* runs out, and when the periodic one runs out a heartbeat has come since  *)
(* it was started, though the slot may wipe out the mark of a later one.    *)
Timely(nf) ==
  /\ nf \in registered /\ quiet[nf] < Heartbeat
  /\ profile[nf].status = "REGISTERED"
  /\ profile[nf].first # Off => profile[nf].first + quiet[nf] >= FirstInterval
  /\ profile[nf].hb # Off /\ ~profile[nf].updated =>
       /\ profile[nf].hb + quiet[nf] >= Heartbeat
       /\ http[nf] = "unlist" => profile[nf].hb >= Heartbeat
  /\ http[nf] \in {"subscribe", "status", "unlist"} => profile[nf].first = Off

InTime(nf) ==
  /\ ~OnList(nf)
  /\ task.at \in {"suspend", "notify", "list"} => task.nf # nf
  /\ InNf(nf) => /\ task.slot = "hb"
                 /\ profile[nf].hb # Off /\ profile[nf].hb >= Heartbeat
  /\ profile[nf] # Off => Timely(nf)

\* A step of others leaves the timers of an NF as they are.
LEMMA InTimeFrame ==
  ASSUME NEW nf, InTime(nf), profile'[nf] = profile[nf], http'[nf] = http[nf],
         quiet'[nf] = quiet[nf], nf \in registered => nf \in registered',
         OnList(nf)' => OnList(nf),
         task'.at \in {"suspend", "notify", "list"} => task'.nf # nf,
         InNf(nf)' => InNf(nf) /\ task'.slot = task.slot
  PROVE  InTime(nf)'
<1>1. Timely(nf) => Timely(nf)'
  BY DEF Timely
<1> QED
  BY <1>1 DEF InTime

\* The numbers in a profile.
LEMMA ProfileNumbers ==
  ASSUME RegInv, NEW nf \in NFs, profile[nf] # Off
  PROVE  /\ profile[nf].first # Off => profile[nf].first \in Nat
         /\ profile[nf].hb # Off => profile[nf].hb \in Nat
         /\ profile[nf].updated \in BOOLEAN /\ profile[nf].firstUpdate \in BOOLEAN
         /\ quiet[nf] \in Nat /\ Heartbeat \in Nat \ {0} /\ FirstInterval \in Nat
         /\ Off # 0
<1>1. profile[nf] \in Profiles
  BY ProfileOf
<1>2. /\ profile[nf].first \in Countdown /\ profile[nf].hb \in Countdown
      /\ profile[nf].updated \in BOOLEAN /\ profile[nf].firstUpdate \in BOOLEAN
  BY <1>1 DEF Profiles
<1>3. \A c \in Countdown : c # Off => c \in Nat
  BY RegistryAssumption DEF Countdown, LongestWait, FirstInterval
<1>4. quiet[nf] \in Nat /\ Heartbeat \in Nat \ {0} /\ FirstInterval \in Nat /\ Off # 0
  BY RegistryAssumption DEF RegInv, TypeOK, FirstInterval
<1> QED
  BY <1>2, <1>3, <1>4

\* The slot of a punctual NF that is due is the periodic one, and a heartbeat
\* has come.
LEMMA DueInTime ==
  ASSUME RegInv, NEW nf \in NFs, InTime(nf), NEW slot \in {"first", "hb"}, CallSlot(nf, slot)
  PROVE  slot = "hb" /\ profile[nf].updated
<1>1. /\ profile[nf] # Off
      /\ slot = "first" => profile[nf].first = 0
      /\ slot = "hb" => profile[nf].hb = 0
  BY CallSlotDoes
<1>2. Timely(nf)
  BY <1>1 DEF InTime
<1>3. slot # "first"
  BY <1>1, <1>2, ProfileNumbers, RegistryAssumption DEF Timely, FirstInterval
<1>4. profile[nf].updated
  BY <1>1, <1>2, <1>3, ProfileNumbers DEF Timely
<1> QED
  BY <1>3, <1>4

LEMMA InTimeStep ==
  ASSUME RegInv, [Next]_vars, NEW nf \in NFs, nf \in Punctual, InTime(nf)
  PROVE  InTime(nf)'
<1>0. TypeOK /\ Held
  BY DEF RegInv
<1>n. ~OnList(nf) /\ nf \notin suspended[0] /\ nf \notin suspended[1]
  BY DEF InTime, OnList
<1>1. CASE Tick
  <2>1. UNCHANGED <<http, suspended, registered>> /\ task = Idle /\ task' = Idle /\ http[nf] = "idle"
    BY <1>1 DEF Tick, ClockAdvances, TimeMayPass, lists
  <2>2. ~InNf(nf)' /\ task'.at = "idle"
    BY <2>1 DEF InNf, Idle
  <2>3. ~OnList(nf)'
    BY <1>n, <2>1 DEF OnList
  <2>4. ASSUME profile'[nf] # Off
        PROVE  Timely(nf)'
    <3>1. profile[nf] # Off /\ Timely(nf)
      BY <1>1, <2>4, TickProfiles DEF InTime
    <3>2. quiet[nf] + 1 < Heartbeat /\ quiet'[nf] = quiet[nf] + 1
      BY <1>1, <3>1 DEF Timely, Tick, ClockAdvances, TimeMayPass
    <3>3. /\ profile'[nf].status = profile[nf].status
          /\ profile'[nf].updated = profile[nf].updated
          /\ profile'[nf].first = IF profile[nf].first = Off THEN Off ELSE profile[nf].first - 1
          /\ profile'[nf].hb = IF profile[nf].hb = Off THEN Off ELSE profile[nf].hb - 1
      BY <1>1, <3>1, TickProfiles
    <3>4. profile'[nf].first # Off => profile'[nf].first + quiet'[nf] >= FirstInterval
      BY <3>1, <3>2, <3>3, ProfileNumbers DEF Timely
    <3>5. profile'[nf].hb # Off /\ ~profile'[nf].updated => profile'[nf].hb + quiet'[nf] >= Heartbeat
      BY <3>1, <3>2, <3>3, ProfileNumbers DEF Timely
    <3> QED
      BY <2>1, <3>1, <3>2, <3>3, <3>4, <3>5, ProfileNumbers DEF Timely
  <2> QED
    BY <2>2, <2>3, <2>4 DEF InTime
<1>2. CASE LateTick
  <2>1. UNCHANGED <<http, suspended, registered, task, profile>> /\ http[nf] = "idle"
    BY <1>2 DEF LateTick, ClockAdvances, TimeMayPass, lists
  <2>2. InNf(nf)' <=> InNf(nf)
    BY <2>1 DEF InNf
  <2>3. ASSUME profile[nf] # Off
        PROVE  Timely(nf)'
    <3>1. Timely(nf)
      BY <2>3 DEF InTime
    <3>2. quiet[nf] + 1 < Heartbeat /\ quiet'[nf] = quiet[nf] + 1
      BY <1>2, <3>1 DEF Timely, LateTick, ClockAdvances, TimeMayPass
    <3> QED
      BY <2>1, <2>3, <3>1, <3>2, ProfileNumbers DEF Timely
  <2> QED
    BY <1>n, <2>1, <2>2, <2>3 DEF InTime, OnList
<1>3. CASE Sweep
  <2>1. UNCHANGED <<http, suspended, quiet>>
    BY <1>3 DEF Sweep, env
  <2>2. /\ task'.at = "sweep" /\ ~InNf(nf)'
        /\ nf \in registered => nf \in registered'
    BY <1>3, <1>n, SweepDoes
  <2>3. profile'[nf] = profile[nf]
    <3>1. nf \notin suspended[OtherBucket]
      BY <1>3, <1>n, SweepDoes
    <3> QED
      BY <1>0, <1>3, <3>1 DEF Sweep, TypeOK
  <2> QED
    BY <2>1, <2>2, <2>3, InTimeFrame DEF OnList
<1>4. CASE ClearList
  <2>1. /\ UNCHANGED <<http, quiet, registered, profile>>
        /\ suspended' = [suspended EXCEPT ![task.bucket] = {}]
    BY <1>4 DEF ClearList, env
  <2>2. task'.at = "idle" /\ ~InNf(nf)'
    BY <1>4 DEF ClearList, Idle, InNf
  <2>3. OnList(nf)' => OnList(nf)
    BY <1>0, <2>1 DEF OnList, TypeOK
  <2> QED
    BY <2>1, <2>2, <2>3, InTimeFrame
<1>5. ASSUME NEW m \in NFs, NEW slot \in {"first", "hb"}, CallSlot(m, slot)
      PROVE  InTime(nf)'
  <2>1. UNCHANGED <<http, quiet, registered, suspended>>
    BY <1>5 DEF CallSlot, lists, env
  <2>2. CASE m # nf
    <3>1. profile'[nf] = profile[nf]
      BY <1>5, <2>2, CallSlotDoes
    <3>2. ~InNf(nf)' /\ task'.nf # nf
      BY <1>5, <2>2, CallSlotTask
    <3> QED
      BY <2>1, <3>1, <3>2, InTimeFrame DEF OnList
  <2>3. CASE m = nf
    <3>0. CallSlot(nf, slot)
      BY <1>5, <2>3
    <3>1. slot = "hb" /\ profile[nf].updated
      BY <3>0, DueInTime
    <3>2. task'.at = "clear" /\ task'.slot = "hb"
      BY <3>0, <3>1, CallSlotTask
    <3>3. /\ profile[nf] # Off
          /\ profile'[nf].status = profile[nf].status
          /\ profile'[nf].updated = profile[nf].updated
          /\ profile'[nf].first = profile[nf].first
          /\ profile'[nf].hb = Heartbeat
      BY <3>0, <3>1, CallSlotDoes
    <3>4. Heartbeat # Off /\ Heartbeat \in Nat
      BY RegistryAssumption
    <3>5. Timely(nf)'
      BY <2>1, <3>1, <3>3 DEF InTime, Timely
    <3> QED
      BY <1>n, <2>1, <3>2, <3>3, <3>4, <3>5 DEF InTime, OnList
  <2> QED
    BY <2>2, <2>3
<1>6. CASE Suspend \/ Notify
  <2>1. UNCHANGED <<http, quiet, registered, suspended>>
    BY <1>6 DEF Suspend, Notify, lists, env
  <2>2. task.nf # nf /\ ~InNf(nf)
    BY <1>6 DEF Suspend, Notify, InSlot, InTime, InNf
  <2>3. profile'[nf] = profile[nf] /\ ~InNf(nf)' /\ task'.nf # nf
    <3>1. CASE Suspend
      BY <2>2, <3>1, SuspendDoes
    <3>2. CASE Notify
      BY <2>2, <3>2, NotifyDoes
    <3> QED
      BY <1>6, <3>1, <3>2
  <2> QED
    BY <2>1, <2>3, InTimeFrame DEF OnList
<1>7. CASE List
  <2>1. UNCHANGED <<http, quiet, registered, profile>>
    BY <1>7 DEF List, env
  <2>2. task.at = "list" /\ task.nf # nf
    BY <1>7 DEF List, InSlot, InTime
  <2>3. task'.at = "clear" /\ task'.nf # nf
    BY <1>0, <1>7, <2>2, GoesOn DEF List
  <2>4. OnList(nf)' => OnList(nf)
    BY <1>0, <1>7, <2>2 DEF List, Added, OnList, TypeOK
  <2> QED
    BY <2>1, <2>3, <2>4, InTimeFrame DEF InNf
<1>8. CASE Clear
  <2>1. UNCHANGED <<http, quiet, registered, suspended>>
    BY <1>8 DEF Clear, lists, env
  <2>2. task'.at = "idle" /\ ~InNf(nf)'
    BY <1>8, ClearDoes DEF Idle
  <2>3. CASE ~InNf(nf)
    BY <1>8, <2>1, <2>2, <2>3, ClearDoes, InTimeFrame DEF OnList
  <2>4. CASE InNf(nf)
    <3>1. task.slot = "hb" /\ profile[nf].hb # Off /\ profile[nf].hb >= Heartbeat
      BY <2>4 DEF InTime
    <3>2. /\ profile[nf] # Off
          /\ profile'[nf].status = profile[nf].status
          /\ profile'[nf].first = profile[nf].first
          /\ profile'[nf].hb = profile[nf].hb
      BY <1>8, <2>4, <3>1, ClearDoes
    <3>3. profile[nf].hb + quiet[nf] >= Heartbeat
      BY <3>1, <3>2, ProfileNumbers
    <3>4. Timely(nf)'
      BY <2>1, <3>1, <3>2, <3>3 DEF InTime, Timely
    <3> QED
      BY <1>n, <2>1, <2>2, <3>4 DEF InTime, OnList
  <2> QED
    BY <2>3, <2>4
<1>9. ASSUME NEW m \in NFs, Register(m)
      PROVE  InTime(nf)'
  <2>1. /\ http' = [http EXCEPT ![m] = "monitor"] /\ quiet' = [quiet EXCEPT ![m] = 0]
        /\ registered' = registered \cup {m} /\ UNCHANGED suspended
    BY <1>9 DEF Register
  <2>2. task'.at \in {"suspend", "notify", "list"} => task'.nf # nf
    BY <1>9, RegisterDoes DEF InTime
  <2>3. CASE m # nf
    <3>1. profile'[nf] = profile[nf] /\ http'[nf] = http[nf] /\ quiet'[nf] = quiet[nf]
      BY <1>0, <1>9, <2>1, <2>3, RegisterDoes DEF TypeOK
    <3>2. InNf(nf)' => InNf(nf) /\ task'.slot = task.slot
      BY <1>9, <2>3, RegisterDoes DEF InNf
    <3> QED
      BY <2>1, <2>2, <3>1, <3>2, InTimeFrame DEF OnList
  <2>4. CASE m = nf
    <3>1. http'[nf] = "monitor" /\ quiet'[nf] = 0
      BY <1>0, <2>1, <2>4 DEF TypeOK
    <3>2. profile'[nf] = NewProfile /\ ~InNf(nf)'
      BY <1>9, <2>4, RegisterDoes
    <3>3. NewProfile.status = "REGISTERED" /\ NewProfile.first = Off /\ NewProfile.hb = Off
      BY DEF NewProfile
    <3>4. Timely(nf)'
      BY <2>1, <2>4, <3>1, <3>2, <3>3, RegistryAssumption DEF Timely
    <3> QED
      BY <1>n, <2>1, <2>2, <3>2, <3>4 DEF InTime, OnList
  <2> QED
    BY <2>3, <2>4
<1>10. ASSUME NEW m \in NFs, Deregister(m)
       PROVE  InTime(nf)'
  <2>1. UNCHANGED <<http, quiet, suspended>> /\ registered' = registered \ {m}
    BY <1>10 DEF Deregister
  <2>2. task'.at \in {"suspend", "notify", "list"} => task'.nf # nf
    BY <1>10, DeregisterDoes DEF InTime
  <2>3. CASE m # nf
    <3>1. profile'[nf] = profile[nf]
      BY <1>10, <2>3, DeregisterDoes
    <3>2. InNf(nf)' => InNf(nf) /\ task'.slot = task.slot
      BY <1>10, <2>3, DeregisterDoes DEF InNf
    <3> QED
      BY <2>1, <2>2, <2>3, <3>1, <3>2, InTimeFrame DEF OnList
  <2>4. CASE m = nf
    <3>1. profile'[nf] = Off /\ ~InNf(nf)'
      BY <1>10, <2>4, DeregisterDoes
    <3> QED
      BY <1>n, <2>1, <2>2, <3>1 DEF InTime, OnList
  <2> QED
    BY <2>3, <2>4
<1>11. ASSUME NEW m \in NFs, Beat(m) \/ Serve(m), m # nf
       PROVE  InTime(nf)'
  <2>1. profile'[nf] = profile[nf]
    BY <1>11, BeatDoes, MonitorDoes, DisconnectDoes, SubscribeDoes, SetStatusDoes, UnlistDoes
    DEF Serve
  <2>2. http'[nf] = http[nf] /\ quiet'[nf] = quiet[nf] /\ UNCHANGED registered
    BY <1>0, <1>11 DEF TypeOK, Serve, Beat, Monitor, Disconnect, Subscribe, SetStatus, Unlist,
                       lists, env
  <2>3. /\ InNf(nf)' => InNf(nf) /\ task'.slot = task.slot
        /\ task'.at \in {"suspend", "notify", "list"} => task'.nf # nf
        /\ OnList(nf)' => OnList(nf)
    <3>1. CASE Unlist(m)
      BY <1>11, <3>1, UnlistDoes DEF InNf, InTime, OnList
    <3>2. CASE ~Unlist(m)
      <4>1. UNCHANGED <<task, suspended>>
        BY <1>11, <3>2 DEF Serve, Beat, Monitor, Disconnect, Subscribe, SetStatus, lists
      <4> QED
        BY <4>1 DEF InNf, InTime, OnList
    <3> QED
      BY <3>1, <3>2
  <2> QED
    BY <2>1, <2>2, <2>3, InTimeFrame
\* Steps of the NF's own requests.
<1>12. CASE Beat(nf)
  <2>1. http'[nf] = "disconnect" /\ UNCHANGED <<task, quiet, registered, suspended>>
    BY <1>0, <1>12, HttpGoes DEF Beat, lists
  <2>2. Timely(nf)'
    BY <1>12, <2>1, BeatDoes DEF InTime, Timely
  <2> QED
    BY <1>12, <2>1, <2>2, BeatDoes DEF InTime, InNf, OnList
<1>13. CASE Monitor(nf)
  <2>1. /\ http[nf] = "monitor" /\ http'[nf] = "idle"
        /\ UNCHANGED <<task, quiet, registered, suspended>>
    BY <1>0, <1>13, HttpGoes DEF Monitor, lists, env
  <2>2. ~InNf(nf)'
    BY <1>0, <2>1 DEF Held, InNf
  <2>3. profile[nf] # Off
    BY <1>13, MonitorDoes
  <2>4. Timely(nf) /\ nf \in registered
    BY <2>3 DEF InTime, Timely
  <2>5. /\ profile'[nf].status = profile[nf].status
        /\ profile'[nf].updated = profile[nf].updated
        /\ profile'[nf].first = FirstInterval + lag /\ profile'[nf].hb = profile[nf].hb
    BY <1>13, <2>4, MonitorDoes
  <2>6. lag \in Nat
    BY <1>0, Periods
  <2>7. profile'[nf].first + quiet[nf] >= FirstInterval
    BY <2>3, <2>5, <2>6, ProfileNumbers
  <2>8. Timely(nf)'
    BY <2>1, <2>4, <2>5, <2>7 DEF Timely
  <2> QED
    BY <2>1, <2>2, <2>8 DEF InTime, OnList
<1>14. CASE Disconnect(nf)
  <2>1. http'[nf] = "subscribe" /\ UNCHANGED <<task, quiet, registered, suspended>>
    BY <1>0, <1>14, HttpGoes DEF Disconnect, lists, env
  <2>2. Timely(nf)'
    BY <1>14, <2>1, DisconnectDoes DEF InTime, Timely
  <2> QED
    BY <1>14, <2>1, <2>2, DisconnectDoes DEF InTime, InNf, OnList
<1>15. CASE Subscribe(nf)
  <2>1. /\ http[nf] = "subscribe" /\ http'[nf] = "status"
        /\ UNCHANGED <<task, quiet, registered, suspended>>
    BY <1>0, <1>15, HttpGoes DEF Subscribe, lists, env
  <2>2. /\ profile[nf] # Off
        /\ profile'[nf].status = profile[nf].status
        /\ profile'[nf].updated = profile[nf].updated
        /\ profile'[nf].first = profile[nf].first
        /\ profile'[nf].hb = IF profile[nf].firstUpdate THEN Heartbeat + Margin + lag
                                                        ELSE profile[nf].hb
    BY <1>15, SubscribeDoes
  <2>3. Heartbeat + Margin + lag # Off /\ Heartbeat + Margin + lag >= Heartbeat
    BY <1>0, Periods, RegistryAssumption
  <2>4. Heartbeat + Margin + lag + quiet[nf] >= Heartbeat
    BY <1>0, <2>2, Periods, ProfileNumbers
  <2>5. Timely(nf)
    BY <2>2 DEF InTime
  <2>6. Timely(nf)'
    BY <2>1, <2>2, <2>4, <2>5 DEF Timely
  <2>7. InNf(nf)' => /\ task'.slot = "hb"
                     /\ profile'[nf].hb # Off /\ profile'[nf].hb >= Heartbeat
    BY <2>1, <2>2, <2>3 DEF InTime, InNf
  <2> QED
    BY <2>1, <2>6, <2>7 DEF InTime, OnList
<1>16. CASE SetStatus(nf)
  <2>1. /\ http[nf] = "status" /\ http'[nf] = "unlist"
        /\ UNCHANGED <<task, quiet, registered, suspended>>
    BY <1>0, <1>16, HttpGoes DEF SetStatus, lists, env
  <2>2. Timely(nf)'
    BY <1>16, <2>1, SetStatusDoes DEF InTime, Timely
  <2> QED
    BY <1>16, <2>1, <2>2, SetStatusDoes DEF InTime, InNf, OnList
<1>17. CASE Unlist(nf)
  <2>1. /\ http[nf] = "unlist" /\ http'[nf] = "idle" /\ UNCHANGED registered
        /\ quiet'[nf] = 0
    BY <1>0, <1>17, HttpGoes DEF Unlist, TypeOK
  <2>2. profile[nf] # Off
    BY <1>17, UnlistDoes
  <2>3. Timely(nf) /\ nf \in registered
    BY <2>2 DEF InTime, Timely
  <2>4. profile'[nf] = profile[nf]
    BY <1>17, <2>3, UnlistDoes
  <2>5. profile[nf].hb # Off /\ ~profile[nf].updated => profile[nf].hb + 0 >= Heartbeat
    BY <2>1, <2>2, <2>3, ProfileNumbers DEF Timely
  <2>6. Timely(nf)'
    BY <2>1, <2>2, <2>3, <2>4, <2>5, ProfileNumbers DEF Timely
  <2>7. /\ InNf(nf)' => InNf(nf) /\ task'.slot = task.slot
        /\ task'.at \in {"suspend", "notify", "list"} => task'.nf # nf
        /\ ~OnList(nf)'
    BY <1>n, <1>17, UnlistDoes DEF InNf, InTime, OnList
  <2> QED
    BY <2>4, <2>6, <2>7 DEF InTime
<1>18. CASE UNCHANGED vars
  BY <1>18, InTimeFrame DEF vars, lists, env, InNf, InTime, OnList
<1> QED
  BY <1>1, <1>2, <1>3, <1>4, <1>5, <1>6, <1>7, <1>8, <1>9, <1>10, <1>11, <1>12, <1>13, <1>14,
     <1>15, <1>16, <1>17, <1>18
  DEF Next, TaskThread, Serve

PunctualInTime == \A nf \in Punctual : InTime(nf)

(* An NF that leaves less than the heartbeat period between two heartbeats  *)
(* is never suspended, nor put on a list the sweep works off, although the  *)
(* slot of the timer may come between any two accesses of the request, may  *)
(* wipe out the mark the request has just set, and counts its own ticks     *)
(* (handle_heartbeat_timeout_nfupdate, handle_update_nf_instance).          *)
THEOREM PunctualStays == Spec => []PunctualIsKept
<1>0. Punctual \subseteq NFs
  BY RegistryAssumption
<1>1. Init => PunctualInTime
  <2> SUFFICES ASSUME Init, NEW nf \in NFs
               PROVE  InTime(nf)
    BY <1>0 DEF PunctualInTime
  <2>1. profile[nf] = Off /\ task.at = "idle" /\ suspended[0] = {} /\ suspended[1] = {}
    BY DEF Init, Idle
  <2> QED
    BY <2>1 DEF InTime, InNf, OnList
<1>2. RegInv /\ PunctualInTime /\ [Next]_vars => PunctualInTime'
  BY <1>0, InTimeStep DEF PunctualInTime
<1>3. RegInv /\ PunctualInTime => PunctualIsKept
  BY <1>0 DEF RegInv, Held, PunctualInTime, InTime, Timely, PunctualIsKept
<1> QED
  BY <1>1, <1>2, <1>3, RegInit, RegStep, PTL DEF Spec
================================================================================
