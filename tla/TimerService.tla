----------------------------- MODULE TimerService ------------------------------
(***************************************************************************)
(* What the tasks of a network function expect of ITTI's timers: a timer   *)
(* that was set up fires once, not before its time, unless it is removed   *)
(* first.  IttiTimer implements it; SmfAssociation and PfcpStack use it.   *)
(***************************************************************************)
EXTENDS Naturals

VARIABLES
  now,      \* the clock
  calls,    \* timers set up so far; they are numbered from 1
  pending,  \* timers set up and neither fired nor removed
  fired,    \* numbers of the timers whose TIME_OUT was sent
  removed   \* numbers of the timers removed in time

vars == <<now, calls, pending, fired, removed>>

TypeOK ==
  /\ now \in Nat /\ calls \in Nat
  /\ pending \subseteq [key : Nat, id : Nat, at : Nat]
  /\ fired \subseteq Nat /\ removed \subseteq Nat

Init == now \in Nat /\ calls = 0 /\ pending = {} /\ fired = {} /\ removed = {}

Tick == now' = now + 1 /\ UNCHANGED <<calls, pending, fired, removed>>

Setup ==
  /\ calls' = calls + 1
  /\ \E t \in pending' : /\ t.key = calls' /\ t.at >= now
                         /\ pending' = pending \cup {t}
  /\ UNCHANGED <<now, fired, removed>>

Fire(t) ==
  /\ t \in pending
  /\ t.at <= now
  /\ pending' = pending \ {t}
  /\ fired' = fired \cup {t.key}
  /\ UNCHANGED <<now, calls, removed>>

Remove(t) ==
  /\ t \in pending
  /\ pending' = pending \ {t}
  /\ removed' = removed \cup {t.key}
  /\ UNCHANGED <<now, calls, fired>>

Next == Tick \/ Setup \/ \E t \in pending : Fire(t) \/ Remove(t)

Spec == Init /\ [][Next]_vars
================================================================================
