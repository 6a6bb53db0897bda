----------------------------- MODULE WheelProofs ------------------------------
(***************************************************************************)
(* The timer wheel keeps the promise of an alarm service, for every number *)
(* of timers, of threads that tick, of slots and of levels: which slot a   *)
(* timer goes to may decide when it fires, never that it fires twice,      *)
(* early or after a cancel.                                                *)
(***************************************************************************)
EXTENDS Wheel, Integers, WellFoundedInduction, TLAPS

States == {"free", "armed", "fired", "dropped", "cancelled"}

Armed(t) == alarm[t].state = "armed"

TypeInv ==
    /\ clock \in Nat /\ current \in Nat
    /\ alarm \in [Timers -> [state : States, at : Nat]]
    /\ home = [t \in Timers |-> home[t]]
    /\ stage = [k \in Tickers |-> stage[k]]
    /\ now \in [Tickers -> Nat]
    /\ list \in [Tickers -> SUBSET Timers]

\* No thread turns the wheel past the clock.
NeverAhead == current <= clock /\ \A k \in Tickers : now[k] <= clock

\* A timer in a slot is armed.
SlotsArmed == \A t \in Timers : home[t] # Nowhere => Armed(t)

\* So is a timer on a list taken off the wheel, which is in no slot and on
\* no other thread's list.
ListsArmed ==
    \A k \in Tickers : \A t \in list[k] :
        /\ Armed(t) /\ home[t] = Nowhere
        /\ \A j \in Tickers : t \in list[j] => j = k

IInv == TypeInv /\ NeverAhead /\ SlotsArmed /\ ListsArmed

-----------------------------------------------------------------------------
\* The empty mark of a timer without a slot is no slot.
LEMMA NowhereIsNoSlot ==
  ASSUME NEW l, NEW s PROVE <<l, s>> # Nowhere
  BY DEF Nowhere

\* What an insertion does to the slots: only those of its timers change.
LEMMA InsertLeaves ==
  ASSUME NEW homes, NEW ts, NEW cur, NEW cursors, NEW t \in Timers, t \notin ts
  PROVE  Insert(homes, ts, cur, cursors)[t] = homes[t]
  BY DEF Insert

\* An insertion yields a function on the timers.
LEMMA InsertDomain ==
  ASSUME NEW homes, NEW ts, NEW cur, NEW cursors
  PROVE  Insert(homes, ts, cur, cursors) =
           [t \in Timers |-> Insert(homes, ts, cur, cursors)[t]]
  BY DEF Insert

-----------------------------------------------------------------------------
\* Initially no timer is armed.
LEMMA InitInv == Init => IInv
  BY WheelAssumption DEF Init, IInv, TypeInv, NeverAhead, SlotsArmed, ListsArmed, Armed, Over, States, Nowhere

\* A new timer was in no slot and on no list.
LEMMA ScheduleInv ==
  ASSUME IInv, NEW t \in Timers, NEW d \in Delays, Schedule(t, clock + d)
  PROVE  IInv'
<1>1. clock + d \in Nat
  BY WheelAssumption DEF IInv, TypeInv
<1>2. TypeInv'
  BY <1>1 DEF IInv, TypeInv, Schedule, States
<1>3. NeverAhead'
  BY DEF IInv, NeverAhead, Schedule
<1>4. ~Armed(t) /\ \A k \in Tickers : t \notin list[k]
  BY DEF IInv, ListsArmed, Schedule, Armed
<1>5. SlotsArmed'
  BY DEF IInv, TypeInv, SlotsArmed, Armed, Schedule
<1>6. ListsArmed'
  <2> SUFFICES ASSUME NEW k \in Tickers, NEW u \in list[k]
               PROVE  /\ Armed(u)' /\ home'[u] = Nowhere
                      /\ \A j \in Tickers : u \in list[j] => j = k
    BY DEF ListsArmed, Schedule
  <2>1. u # t /\ u \in Timers
    BY <1>4 DEF IInv, TypeInv
  <2> QED
    BY <2>1 DEF IInv, TypeInv, ListsArmed, Armed, Schedule
<1> QED
  BY <1>2, <1>3, <1>5, <1>6 DEF IInv

\* A timer that is unlinked was on no list.
LEMMA CancelInv ==
  ASSUME IInv, NEW t \in Timers, Cancel(t)
  PROVE  IInv'
<1>1. TypeInv'
  BY DEF IInv, TypeInv, Cancel, Over, States
<1>2. NeverAhead'
  BY DEF IInv, NeverAhead, Cancel
<1>3. \A k \in Tickers : t \notin list[k]
  BY DEF IInv, ListsArmed, Cancel
<1>4. SlotsArmed'
  BY DEF IInv, TypeInv, SlotsArmed, Armed, Cancel
<1>5. ListsArmed'
  <2> SUFFICES ASSUME NEW k \in Tickers, NEW u \in list[k]
               PROVE  /\ Armed(u)' /\ home'[u] = Nowhere
                      /\ \A j \in Tickers : u \in list[j] => j = k
    BY DEF ListsArmed, Cancel
  <2>1. u # t /\ u \in Timers
    BY <1>3 DEF IInv, TypeInv
  <2> QED
    BY <2>1 DEF IInv, TypeInv, ListsArmed, Armed, Cancel
<1> QED
  BY <1>1, <1>2, <1>4, <1>5 DEF IInv

\* A tick takes one list, of timers that were in slots, to a thread that has none.
LEMMA TurnInv ==
  ASSUME IInv, NEW k \in Tickers, Turn(k)
  PROVE  IInv'
<1> DEFINE reached == { t \in Timers : home[t] \in { <<l, cursor[l]>> : l \in Turned } }
           taken == { t \in reached : home[t][1] = 0 }
           rest == [t \in Timers |-> IF t \in taken THEN Nowhere ELSE home[t]]
<1>1. /\ stage[k] = "turning" /\ list[k] = {} /\ Behind(k)
      /\ current' = current + TickLen
      /\ list' = [list EXCEPT ![k] = taken]
      /\ home' = Insert(rest, reached \ taken, current', cursor')
      /\ UNCHANGED <<clock, stage, now, alarm>>
  BY DEF Turn
<1>2. \A t \in reached : t \in Timers /\ home[t] # Nowhere /\ Armed(t)
  BY NowhereIsNoSlot DEF IInv, SlotsArmed
<1>3. \A t \in Timers : t \notin reached \ taken =>
          home'[t] = IF t \in taken THEN Nowhere ELSE home[t]
  BY <1>1, InsertLeaves
<1>4. home' = [t \in Timers |-> home'[t]]
  BY <1>1, InsertDomain
<1>5. taken \subseteq reached /\ reached \subseteq Timers
  OBVIOUS
<1>6. current' \in Nat /\ current' <= clock
  BY <1>1, WheelAssumption DEF IInv, TypeInv, NeverAhead, Behind
<1> HIDE DEF reached, taken, rest
<1>7. TypeInv'
  BY <1>1, <1>4, <1>5, <1>6 DEF IInv, TypeInv
<1>8. NeverAhead'
  BY <1>1, <1>6 DEF IInv, NeverAhead
<1>9. SlotsArmed'
  BY <1>1, <1>2, <1>3, <1>5 DEF IInv, SlotsArmed, Armed
<1>10. ListsArmed'
  <2> SUFFICES ASSUME NEW i \in Tickers, NEW u \in list'[i]
               PROVE  /\ Armed(u)' /\ home'[u] = Nowhere
                      /\ \A j \in Tickers : u \in list'[j] => j = i
    BY DEF ListsArmed
  <2>1. CASE i = k
    <3>1. u \in taken
      BY <1>1, <2>1 DEF IInv, TypeInv
    <3>2. \A j \in Tickers : u \notin list[j]
      BY <1>2, <1>5, <3>1 DEF IInv, ListsArmed
    <3>3. \A j \in Tickers : u \in list'[j] => j = i
      BY <1>1, <2>1, <3>2 DEF IInv, TypeInv
    <3> QED
      BY <1>1, <1>2, <1>3, <1>5, <3>1, <3>3 DEF Armed
  <2>2. CASE i # k
    <3>1. u \in list[i] /\ u \in Timers
      BY <1>1, <2>2 DEF IInv, TypeInv
    <3>2. Armed(u) /\ home[u] = Nowhere /\ \A j \in Tickers : u \in list[j] => j = i
      BY <3>1 DEF IInv, ListsArmed
    <3>3. u \notin reached
      BY <1>2, <3>2
    <3>4. \A j \in Tickers : u \in list'[j] => j = i
      BY <1>1, <1>5, <3>2, <3>3 DEF IInv, TypeInv
    <3> QED
      BY <1>1, <1>3, <1>5, <3>1, <3>2, <3>3, <3>4 DEF Armed
  <2> QED
    BY <2>1, <2>2
<1> QED
  BY <1>7, <1>8, <1>9, <1>10 DEF IInv

\* A visited timer leaves the only list it was on.
LEMMA VisitInv ==
  ASSUME IInv, NEW k \in Tickers, NEW t \in Timers, Visit(k, t)
  PROVE  IInv'
<1>1. /\ t \in list[k] /\ list' = [list EXCEPT ![k] = list[k] \ {t}]
      /\ UNCHANGED <<clock, current, cursor, now>>
  BY DEF Visit
<1>2. Armed(t) /\ home[t] = Nowhere /\ \A j \in Tickers : t \in list[j] => j = k
  BY <1>1 DEF IInv, ListsArmed
<1>3. \A i \in Tickers : list'[i] \subseteq list[i] /\ t \notin list'[i]
  BY <1>1, <1>2 DEF IInv, TypeInv
<1>4. /\ \A u \in Timers \ {t} : home'[u] = home[u] /\ alarm'[u] = alarm[u]
      /\ home' = [u \in Timers |-> home'[u]]
      /\ stage' = [i \in Tickers |-> stage'[i]]
  <2>1. CASE alarm[t].at > current
    <3>1. home' = Insert(home, {t}, current, cursor) /\ UNCHANGED <<stage, alarm>>
      BY <2>1 DEF Visit
    <3>2. \A u \in Timers \ {t} : home'[u] = home[u]
      <4> SUFFICES ASSUME NEW u \in Timers, u \notin {t} PROVE home'[u] = home[u]
        OBVIOUS
      <4>1. Insert(home, {t}, current, cursor)[u] = home[u]
        BY InsertLeaves
      <4> QED
        BY <3>1, <4>1
    <3>3. home' = [u \in Timers |-> home'[u]]
      <4>1. Insert(home, {t}, current, cursor)
              = [u \in Timers |-> Insert(home, {t}, current, cursor)[u]]
        BY InsertDomain
      <4> QED
        BY <3>1, <4>1
    <3> QED
      BY <3>1, <3>2, <3>3 DEF IInv, TypeInv
  <2>2. CASE ~(alarm[t].at > current)
    BY <2>2 DEF Visit, IInv, TypeInv
  <2> QED
    BY <2>1, <2>2
<1>5. alarm' \in [Timers -> [state : States, at : Nat]]
  BY DEF Visit, IInv, TypeInv, Over, States
<1>6. home'[t] # Nowhere => Armed(t)'
  <2>1. CASE alarm[t].at > current
    BY <2>1, <1>2 DEF Visit, Armed
  <2>2. CASE ~(alarm[t].at > current)
    BY <2>2, <1>2 DEF Visit
  <2> QED
    BY <2>1, <2>2
<1>7. TypeInv'
  BY <1>1, <1>4, <1>5 DEF IInv, TypeInv
<1>8. NeverAhead'
  BY <1>1 DEF IInv, NeverAhead
<1>9. SlotsArmed'
  BY <1>4, <1>6 DEF IInv, SlotsArmed, Armed
<1>10. ListsArmed'
  <2> SUFFICES ASSUME NEW i \in Tickers, NEW u \in list'[i]
               PROVE  /\ Armed(u)' /\ home'[u] = Nowhere
                      /\ \A j \in Tickers : u \in list'[j] => j = i
    BY DEF ListsArmed
  <2>1. u \in list[i] /\ u \in Timers \ {t}
    BY <1>3 DEF IInv, TypeInv
  <2>2. Armed(u) /\ home[u] = Nowhere /\ \A j \in Tickers : u \in list[j] => j = i
    BY <2>1 DEF IInv, ListsArmed
  <2> QED
    BY <1>3, <1>4, <2>1, <2>2 DEF Armed
<1> QED
  BY <1>7, <1>8, <1>9, <1>10 DEF IInv

\* Calls, the mutex and the passing of time touch no timer.
LEMMA OtherInv ==
  ASSUME IInv,
         ClockPasses \/ UNCHANGED vars
           \/ \E k \in Tickers : TickCall(k) \/ Lock(k) \/ Return(k)
  PROVE  IInv'
<1>1. UNCHANGED <<current, home, list, alarm>>
  BY DEF ClockPasses, vars, TickCall, Lock, Return
<1>2. TypeInv' /\ NeverAhead'
  BY DEF IInv, TypeInv, NeverAhead, ClockPasses, vars, TickCall, Lock, Return
<1>3. SlotsArmed' /\ ListsArmed'
  BY <1>1 DEF IInv, SlotsArmed, ListsArmed, Armed
<1> QED
  BY <1>2, <1>3 DEF IInv

\* In every reachable state an armed timer is in one place, and nothing else
\* is in a slot or on a list (emq_wheel_insert_locked, emq_wheel_tick,
\* emq_wheel_cancel).
THEOREM WheelInvariance == Spec => []IInv
<1>1. IInv /\ [Next]_vars => IInv'
  <2> SUFFICES ASSUME IInv, [Next]_vars PROVE IInv'
    OBVIOUS
  <2>1. ASSUME NEW t \in Timers, Cancel(t) PROVE IInv'
    BY <2>1, CancelInv
  <2>2. ASSUME NEW t \in Timers, NEW d \in Delays, Schedule(t, clock + d) PROVE IInv'
    BY <2>2, ScheduleInv
  <2>3. ASSUME NEW k \in Tickers, Turn(k) PROVE IInv'
    BY <2>3, TurnInv
  <2>4. ASSUME NEW k \in Tickers, NEW t \in Timers, Visit(k, t) PROVE IInv'
    BY <2>4, VisitInv
  <2>5. ASSUME ClockPasses \/ UNCHANGED vars
                 \/ \E k \in Tickers : TickCall(k) \/ Lock(k) \/ Return(k)
        PROVE  IInv'
    BY <2>5, OtherInv
  <2> QED
    BY <2>1, <2>2, <2>3, <2>4, <2>5 DEF Next, TickStep
<1> QED
  BY <1>1, InitInv, PTL DEF Spec

\* A timer fires at most once, never before its deadline and never after a
\* cancel that found it (emq_wheel_tick, emq_wheel_cancel).
THEOREM WheelIsAlarmService == Spec => ImplementsAlarms
<1>1. Init => AlarmService!Init
  BY DEF Init, AlarmService!Init, Over, AlarmService!Over
<1>2. IInv /\ [Next]_vars => [AlarmService!Next]_(AlarmService!vars)
  <2> SUFFICES ASSUME IInv, [Next]_vars PROVE [AlarmService!Next]_(AlarmService!vars)
    OBVIOUS
  <2>1. ASSUME NEW t \in Timers, Cancel(t) PROVE AlarmService!Cancel(t)
    BY <2>1 DEF Cancel, AlarmService!Cancel, Over, AlarmService!Over, IInv, SlotsArmed, Armed
  <2>2. ASSUME NEW t \in Timers, NEW d \in Delays, Schedule(t, clock + d)
        PROVE  AlarmService!Set(t)
    <3>1. clock + d \in Nat /\ alarm'[t].at = clock + d
      BY <2>2, WheelAssumption DEF IInv, TypeInv, Schedule
    <3> QED
      BY <2>2, <3>1 DEF Schedule, AlarmService!Set
  <2>3. ASSUME NEW k \in Tickers, NEW t \in Timers, Visit(k, t)
        PROVE  AlarmService!GoOff(t) \/ AlarmService!Drop(t) \/ UNCHANGED AlarmService!vars
    <3>1. CASE alarm[t].at > current
      BY <2>3, <3>1 DEF Visit, AlarmService!vars
    <3>2. CASE ~(alarm[t].at > current)
      <4>1. alarm[t].at <= clock /\ alarm[t].state = "armed"
        <5>1. alarm[t].at \in Nat
          BY DEF IInv, TypeInv
        <5>2. t \in list[k]
          BY <2>3 DEF Visit
        <5>3. Armed(t)
          BY <5>2 DEF IInv, ListsArmed
        <5> QED
          BY <3>2, <5>1, <5>3 DEF IInv, TypeInv, NeverAhead, Armed
      <4> QED
        BY <2>3, <3>2, <4>1
          DEF Visit, AlarmService!GoOff, AlarmService!Drop, AlarmService!Ends, Over, AlarmService!Over
    <3> QED
      BY <3>1, <3>2
  <2>4. ASSUME ClockPasses PROVE AlarmService!Passes
    BY <2>4 DEF ClockPasses, AlarmService!Passes
  <2>5. ASSUME UNCHANGED vars \/ \E k \in Tickers : TickCall(k) \/ Lock(k) \/ Return(k) \/ Turn(k)
        PROVE  UNCHANGED AlarmService!vars
    BY <2>5 DEF vars, AlarmService!vars, TickCall, Lock, Return, Turn
  <2> QED
    BY <2>1, <2>2, <2>3, <2>4, <2>5 DEF Next, TickStep, AlarmService!Next
<1> QED
  BY <1>1, <1>2, WheelInvariance, PTL DEF Spec, ImplementsAlarms, AlarmService!Spec

-----------------------------------------------------------------------------
(***************************************************************************)
(* The wheel is turned past no timer, for every number of slots and of     *)
(* levels (two at least) and every length of a tick.  The argument: a      *)
(* timer in a slot has a witness, the number D[i] of turns of each level   *)
(* up to its own that are at least to come before its deadline.  The slot  *)
(* is reached within D[l] turns of its level l; a turn of level i + 1      *)
(* costs Slots turns of level i, less those its cursor has behind it; and  *)
(* a tick, which turns the levels in Turned, takes one off each of theirs. *)
(***************************************************************************)

LEMMA LeastElement ==
  ASSUME NEW T, T \subseteq Nat, T # {}
  PROVE  \E n \in T : \A m \in T : n <= m
<1>1. PICK n \in T : \A m \in T : <<m, n>> \notin OpToRel(<, Nat)
  BY NatLessThanWellFounded, WFMin
<1>2. \A m \in T : ~(m < n)
  BY <1>1 DEF OpToRel
<1> QED
  BY <1>2

\* Induction up to and down from a level.
LEMMA Upwards ==
  ASSUME NEW l \in Nat, NEW Q, 0 \in Q, \A i \in 0 .. l - 1 : i \in Q => i + 1 \in Q
  PROVE  \A i \in 0 .. l : i \in Q
<1> SUFFICES ASSUME { n \in Nat : n <= l /\ n \notin Q } # {} PROVE FALSE
  OBVIOUS
<1>1. PICK n \in { m \in Nat : m <= l /\ m \notin Q } :
        \A m \in { k \in Nat : k <= l /\ k \notin Q } : n <= m
  BY LeastElement
<1>2. n # 0 /\ n - 1 \in 0 .. l - 1
  BY <1>1
<1>3. n - 1 \in Q
  BY <1>1, <1>2
<1> QED
  BY <1>1, <1>2, <1>3

LEMMA Downwards ==
  ASSUME NEW l \in Nat, NEW Q, l \in Q, \A i \in 0 .. l - 1 : i + 1 \in Q => i \in Q
  PROVE  \A i \in 0 .. l : i \in Q
<1> DEFINE R == { n \in Nat : n <= l /\ l - n \in Q }
<1>1. \A n \in 0 .. l - 1 : n \in R => n + 1 \in R
  <2> SUFFICES ASSUME NEW n \in 0 .. l - 1, l - n \in Q PROVE n + 1 \in R
    OBVIOUS
  <2>1. l - n - 1 \in 0 .. l - 1 /\ (l - n - 1) + 1 = l - n /\ l - (n + 1) = l - n - 1
    OBVIOUS
  <2>2. l - n - 1 \in Q
    BY <2>1
  <2> QED
    BY <2>1, <2>2
<1>2. 0 \in R
  OBVIOUS
<1>3. \A n \in 0 .. l : n \in R
  BY <1>1, <1>2, Upwards
<1> SUFFICES ASSUME NEW i \in 0 .. l PROVE i \in Q
  OBVIOUS
<1>4. l - i \in 0 .. l /\ l - (l - i) = i
  OBVIOUS
<1> QED
  BY <1>3, <1>4

\* Division, and positions on a ring.
LEMMA SlotDivision ==
  ASSUME NEW x \in Int
  PROVE  /\ (x \div Slots) \in Int /\ (x % Slots) \in 0 .. Slots - 1
         /\ x = Slots * (x \div Slots) + (x % Slots)
         /\ x >= 0 => (x % Slots) <= x
         /\ x >= Slots => (x \div Slots) >= 1
<1>1. Slots \in Nat /\ Slots > 0
  BY WheelAssumption
<1>2. /\ (x \div Slots) \in Int /\ (x % Slots) \in 0 .. Slots - 1
      /\ x = Slots * (x \div Slots) + (x % Slots)
  BY <1>1
<1> DEFINE q == (x \div Slots)
           r == (x % Slots)
<1>3. q \in Int /\ r \in 0 .. Slots - 1 /\ x = Slots * q + r
  BY <1>2
<1> HIDE DEF q, r
<1>4. x >= 0 => q >= 0
  <2>1. q <= -1 => Slots * q <= -Slots
    BY <1>1, <1>3
  <2> QED
    BY <1>1, <1>3, <2>1
<1>5. q >= 0 => Slots * q >= 0
  BY <1>1, <1>3
<1>6. x >= Slots => q >= 1
  <2>1. q <= 0 => Slots * q <= 0
    BY <1>1, <1>3
  <2> QED
    BY <1>1, <1>3, <2>1
<1>7. x >= 0 => r <= x
  BY <1>1, <1>3, <1>4, <1>5
<1> QED
  BY <1>2, <1>6, <1>7 DEF q, r

LEMMA Around ==
  ASSUME NEW x \in 0 .. 2 * Slots - 1
  PROVE  (x % Slots) = IF x < Slots THEN x ELSE x - Slots
<1>1. Slots \in Nat /\ Slots > 1
  BY WheelAssumption
<1> DEFINE q == (x \div Slots)
           r == (x % Slots)
<1>2. q \in Int /\ r \in 0 .. Slots - 1 /\ x = Slots * q + r
  BY <1>1, SlotDivision
<1> SUFFICES r = IF x < Slots THEN x ELSE x - Slots
  OBVIOUS
<1> HIDE DEF q, r
<1>3. q >= 2 => Slots * q >= 2 * Slots
  BY <1>1, <1>2
<1>4. q <= -1 => Slots * q <= -Slots
  BY <1>1, <1>2
<1>5. q = 0 \/ q = 1
  BY <1>1, <1>2, <1>3, <1>4
<1> QED
  BY <1>1, <1>2, <1>5

\* The ticks to a deadline are the least number that reaches it.
LEMMA TicksReach ==
  ASSUME NEW at \in Nat, NEW cur \in Nat
  PROVE  /\ TicksUntil(at, cur) \in Nat
         /\ at <= cur + TickLen * TicksUntil(at, cur)
         /\ TicksUntil(at, cur) >= 1 => cur + TickLen * (TicksUntil(at, cur) - 1) < at
         /\ TicksUntil(at, cur) = 0 <=> at <= cur
<1>1. TickLen \in Nat /\ TickLen > 0
  BY WheelAssumption
<1>2. CASE at <= cur
  BY <1>1, <1>2 DEF TicksUntil
<1>3. CASE ~(at <= cur)
  <2> DEFINE x == at - cur - 1
             q == (x \div TickLen)
             r == (x % TickLen)
  <2>1. TicksUntil(at, cur) = 1 + q
    BY <1>3 DEF TicksUntil
  <2>2. x \in Nat
    BY <1>3
  <2> HIDE DEF x
  <2>3. q \in Int /\ r \in 0 .. TickLen - 1 /\ x = TickLen * q + r
    BY <1>1, <2>2
  <2> HIDE DEF q, r
  <2>4. q >= 0
    <3>1. q <= -1 => TickLen * q <= -TickLen
      BY <1>1, <2>3
    <3> QED
      BY <1>1, <2>2, <2>3, <3>1
  <2>5. TickLen * (1 + q) = TickLen + TickLen * q /\ TickLen * q \in Int /\ (1 + q) - 1 = q
    BY <1>1, <2>3
  <2>6. at = cur + 1 + x
    BY <1>3 DEF x
  <2>7. at <= cur + TickLen * (1 + q) /\ cur + TickLen * q < at
    BY <1>1, <2>2, <2>3, <2>5, <2>6
  <2> QED
    BY <1>3, <2>1, <2>3, <2>4, <2>5, <2>7
<1> QED
  BY <1>2, <1>3

-----------------------------------------------------------------------------
\* Where a timer goes.

Rings == [0 .. Levels - 1 -> 0 .. Slots - 1]

\* Within `ahead' turns more the next slot of level l is s.
Ahead(cursors, l, ahead, s) == s = cursors[l] + ahead \/ s + Slots = cursors[l] + ahead

\* A timer for `at' in a slot that is `ahead' from the next one of level l.
Witness(at, cur, cursors, l, ahead, D) ==
    /\ cur + TickLen * (D[0] - 1) <= at
    /\ \A i \in 0 .. l - 1 : Slots * D[i + 1] < cursors[i] + D[i]
    /\ 1 + ahead <= D[l]
    /\ l = 0 => at <= cur + TickLen * (1 + ahead)

InTime(at, cur, cursors, h) ==
    \E l \in 0 .. Levels - 1 : \E ahead, s \in 0 .. Slots - 1 : \E D \in [0 .. l -> Int] :
        h = <<l, s>> /\ Ahead(cursors, l, ahead, s) /\ Witness(at, cur, cursors, l, ahead, D)

\* The loop of emq_wheel_insert_locked divides from level to level,
Divides(g, n, ticks) ==
    /\ g \in [0 .. n -> Int] /\ g[0] = ticks
    /\ \A i \in 1 .. n : g[i] = ((g[i - 1] - 1) \div Slots)

LEMMA DivisionDefined ==
  ASSUME NEW ticks \in Int, NEW n \in Nat
  PROVE  \E g : Divides(g, n, ticks)
<1> DEFINE Q == { m \in Nat : \E g : Divides(g, m, ticks) }
<1>1. 0 \in Q
  <2>1. Divides([i \in 0 .. 0 |-> ticks], 0, ticks)
    BY DEF Divides
  <2> QED
    BY <2>1
<1>2. ASSUME NEW m \in Nat, m \in Q PROVE m + 1 \in Q
  <2>1. PICK g : Divides(g, m, ticks)
    BY <1>2
  <2> DEFINE h == [i \in 0 .. m + 1 |-> IF i <= m THEN g[i] ELSE ((g[m] - 1) \div Slots)]
  <2>2. g[m] \in Int /\ ((g[m] - 1) \div Slots) \in Int
    BY <2>1, SlotDivision DEF Divides
  <2>3. h \in [0 .. m + 1 -> Int] /\ h[0] = ticks
    BY <2>1, <2>2 DEF Divides
  <2>4. ASSUME NEW i \in 1 .. m + 1 PROVE h[i] = ((h[i - 1] - 1) \div Slots)
    <3>1. i - 1 \in 0 .. m /\ h[i - 1] = g[i - 1]
      OBVIOUS
    <3>2. CASE i <= m
      BY <2>1, <3>1, <3>2 DEF Divides
    <3>3. CASE ~(i <= m)
      <4>1. i = m + 1 /\ i - 1 = m
        BY <3>3
      <4> QED
        BY <3>1, <4>1
    <3> QED
      BY <3>2, <3>3
  <2> HIDE DEF h
  <2>5. Divides(h, m + 1, ticks)
    BY <2>3, <2>4 DEF Divides
  <2> QED
    BY <2>5
<1>3. \A i \in 0 .. n - 1 : i \in Q => i + 1 \in Q
  BY <1>2
<1> HIDE DEF Q
<1>4. n \in Q
  BY <1>1, <1>3, Upwards
<1> QED
  BY <1>4 DEF Q

\* until few enough ticks are left for the level, or it is the last.
Fits(g, l) ==
    /\ l + 1 = Levels \/ g[l] <= Slots
    /\ \A k \in 0 .. l - 1 : g[k] > Slots

LEMMA LevelFound ==
  ASSUME NEW g \in [0 .. Levels - 1 -> Int]
  PROVE  \E l \in 0 .. Levels - 1 : Fits(g, l)
<1> DEFINE T == { l \in 0 .. Levels - 1 : l + 1 = Levels \/ g[l] <= Slots }
<1>1. Levels \in Nat /\ Levels > 0 /\ Slots \in Nat
  BY WheelAssumption
<1>2. Levels - 1 \in T /\ T \subseteq Nat
  BY <1>1
<1>3. PICK l \in T : \A m \in T : l <= m
  BY <1>2, LeastElement
<1>4. ASSUME NEW k \in 0 .. l - 1 PROVE g[k] > Slots
  <2>1. k \in 0 .. Levels - 1 /\ k \notin T /\ k + 1 # Levels
    BY <1>1, <1>3
  <2>2. g[k] \in Int
    BY <2>1
  <2> QED
    BY <1>1, <2>1, <2>2
<1> QED
  BY <1>3, <1>4 DEF Fits

\* The slot that emq_wheel_insert_locked chooses.
LEMMA HomeIs ==
  ASSUME NEW at \in Nat, NEW cur \in Nat, NEW cursors \in Rings
  PROVE  \E g, l : /\ l \in 0 .. Levels - 1 /\ Divides(g, Levels - 1, TicksUntil(at, cur)) /\ Fits(g, l)
                   /\ Home(at, cur, cursors) =
                        <<l, ((cursors[l] + IF g[l] = 0 THEN 0 ELSE ((g[l] - 1) % Slots)) % Slots)>>
<1>1. Levels - 1 \in Nat /\ TicksUntil(at, cur) \in Int
  BY WheelAssumption, TicksReach
<1> DEFINE ticks[l \in 0 .. Levels - 1] ==
             IF l = 0 THEN TicksUntil(at, cur) ELSE (ticks[l - 1] - 1) \div Slots
           level == CHOOSE l \in 0 .. Levels - 1 :
                      /\ l + 1 = Levels \/ ticks[l] <= Slots
                      /\ \A k \in 0 .. l - 1 : ticks[k] > Slots
           ahead == IF ticks[level] = 0 THEN 0 ELSE (ticks[level] - 1) % Slots
<1>2. Home(at, cur, cursors) = <<level, (cursors[level] + ahead) % Slots>>
  BY DEF Home
<1>3. \E g : g = [l \in 0 .. Levels - 1 |->
                    IF l = 0 THEN TicksUntil(at, cur) ELSE (g[l - 1] - 1) \div Slots]
  <2>1. PICK g : Divides(g, Levels - 1, TicksUntil(at, cur))
    BY <1>1, DivisionDefined
  <2>2. g = [l \in 0 .. Levels - 1 |->
               IF l = 0 THEN TicksUntil(at, cur) ELSE (g[l - 1] - 1) \div Slots]
    BY <1>1, <2>1 DEF Divides
  <2> QED
    BY <2>2
<1>4. ticks = [l \in 0 .. Levels - 1 |->
                 IF l = 0 THEN TicksUntil(at, cur) ELSE (ticks[l - 1] - 1) \div Slots]
  BY <1>3
<1> HIDE DEF ticks
<1>5. Divides(ticks, Levels - 1, TicksUntil(at, cur))
  <2> DEFINE Q == { i \in 0 .. Levels - 1 : ticks[i] \in Int }
  <2>1. ticks[0] = TicksUntil(at, cur)
    BY <1>1, <1>4
  <2>2. \A i \in 1 .. Levels - 1 : ticks[i] = ((ticks[i - 1] - 1) \div Slots)
    BY <1>1, <1>4
  <2>3. 0 \in Q
    BY <1>1, <2>1
  <2>4. ASSUME NEW i \in 0 .. Levels - 1 - 1, i \in Q PROVE i + 1 \in Q
    <3>1. i + 1 \in 1 .. Levels - 1 /\ (i + 1) - 1 = i /\ ticks[i] - 1 \in Int
      BY <1>1, <2>4
    <3>2. ticks[i + 1] = ((ticks[i] - 1) \div Slots)
      BY <2>2, <3>1
    <3>3. ((ticks[i] - 1) \div Slots) \in Int
      BY <3>1, SlotDivision
    <3> QED
      BY <3>1, <3>2, <3>3
  <2> HIDE DEF Q
  <2>5. \A i \in 0 .. Levels - 1 : i \in Q
    BY <1>1, <2>3, <2>4, Upwards
  <2>6. ticks \in [0 .. Levels - 1 -> Int]
    BY <1>4, <2>5 DEF Q
  <2> QED
    BY <2>1, <2>2, <2>6 DEF Divides
<1>6. \E l \in 0 .. Levels - 1 : Fits(ticks, l)
  BY <1>5, LevelFound DEF Divides
<1>7. level \in 0 .. Levels - 1 /\ Fits(ticks, level)
  BY <1>6 DEF Fits
<1> HIDE DEF level
<1> QED
  BY <1>2, <1>5, <1>7

\* It is reached in time.
LEMMA HomeInTime ==
  ASSUME Levels > 1, NEW at \in Nat, NEW cur \in Nat, NEW cursors \in Rings, cur <= at
  PROVE  InTime(at, cur, cursors, Home(at, cur, cursors))
<1> DEFINE T == TicksUntil(at, cur)
<1>1. PICK g, l : /\ l \in 0 .. Levels - 1 /\ Divides(g, Levels - 1, T) /\ Fits(g, l)
                  /\ Home(at, cur, cursors) =
                       <<l, ((cursors[l] + IF g[l] = 0 THEN 0 ELSE ((g[l] - 1) % Slots)) % Slots)>>
  BY HomeIs
<1>2. /\ Slots \in Nat /\ Slots > 1 /\ Levels \in Nat /\ TickLen \in Nat /\ TickLen > 0
      /\ l \in Nat /\ cursors[l] \in 0 .. Slots - 1 /\ g[l] \in Int
      /\ \A i \in 0 .. l : g[i] \in Int /\ i \in 0 .. Levels - 1
  <2>1. Slots \in Nat /\ Slots > 1 /\ Levels \in Nat /\ TickLen \in Nat /\ TickLen > 0 /\ l \in Nat
    BY <1>1, WheelAssumption
  <2>2. g \in [0 .. Levels - 1 -> Int] /\ cursors[l] \in 0 .. Slots - 1
    BY <1>1 DEF Rings, Divides
  <2>3. \A i \in 0 .. l : i \in 0 .. Levels - 1
    BY <1>1, <2>1
  <2>4. \A i \in 0 .. l : g[i] \in Int
    BY <2>2, <2>3
  <2> QED
    BY <1>1, <2>1, <2>2, <2>3, <2>4
<1> DEFINE ahead == IF g[l] = 0 THEN 0 ELSE ((g[l] - 1) % Slots)
           s == ((cursors[l] + ahead) % Slots)
<1>3. T \in Nat /\ (T = 0 <=> at <= cur) /\ at <= cur + TickLen * T
      /\ (T >= 1 => cur + TickLen * (T - 1) < at)
  BY TicksReach
<1>4. g[0] = T
  BY <1>1 DEF Divides
<1> HIDE DEF T
<1>5. ASSUME NEW i \in 0 .. l - 1 PROVE Slots * g[i + 1] <= g[i] - 1 /\ g[i + 1] >= 1
  <2>1. i + 1 \in 1 .. Levels - 1 /\ (i + 1) - 1 = i /\ g[i] \in Int /\ g[i] > Slots
    BY <1>1, <1>2 DEF Fits
  <2>2. g[i + 1] = ((g[i] - 1) \div Slots)
    BY <1>1, <2>1 DEF Divides
  <2>3. g[i] - 1 >= Slots
    BY <1>2, <2>1
  <2>4. /\ g[i] - 1 = Slots * ((g[i] - 1) \div Slots) + ((g[i] - 1) % Slots)
        /\ ((g[i] - 1) % Slots) \in 0 .. Slots - 1 /\ ((g[i] - 1) \div Slots) >= 1
    BY <2>1, <2>3, SlotDivision
  <2>5. g[i] - 1 = Slots * g[i + 1] + ((g[i] - 1) % Slots) /\ g[i + 1] \in Int /\ g[i + 1] >= 1
    <3>1. ((g[i] - 1) \div Slots) \in Int
      BY <2>1, SlotDivision
    <3> QED
      BY <2>2, <2>4, <3>1
  <2>6. Slots * g[i + 1] \in Int
    BY <1>2, <2>5
  <2> QED
    BY <2>1, <2>4, <2>5, <2>6
<1>6. g[l] >= 0 /\ (l # 0 => g[l] >= 1)
  <2>1. CASE l = 0
    BY <1>3, <1>4, <2>1
  <2>2. CASE l # 0
    <3>1. l - 1 \in 0 .. l - 1 /\ (l - 1) + 1 = l
      BY <1>1, <2>2
    <3>2. \A i \in 0 .. l - 1 : g[i + 1] >= 1
      BY <1>5
    <3>3. g[(l - 1) + 1] >= 1
      BY <3>1, <3>2
    <3>4. g[l] >= 1
      BY <3>1, <3>3
    <3> QED
      BY <1>2, <3>4
  <2> QED
    BY <2>1, <2>2
<1>7. /\ ahead \in 0 .. Slots - 1 /\ (g[l] # 0 => 1 + ahead <= g[l])
      /\ (g[l] # 0 /\ g[l] <= Slots => 1 + ahead = g[l]) /\ (g[l] = 0 => ahead = 0)
  <2>1. CASE g[l] = 0
    BY <1>2, <2>1
  <2>2. CASE g[l] # 0
    <3>0. ahead = ((g[l] - 1) % Slots)
      BY <2>2
    <3> HIDE DEF ahead
    <3>1. g[l] - 1 \in Nat /\ ahead = ((g[l] - 1) % Slots)
      BY <1>2, <1>6, <2>2, <3>0
    <3>2. ((g[l] - 1) % Slots) \in 0 .. Slots - 1 /\ ((g[l] - 1) % Slots) <= g[l] - 1
      BY <3>1, SlotDivision
    <3>3. g[l] <= Slots => ((g[l] - 1) % Slots) = g[l] - 1
      <4>1. g[l] <= Slots => g[l] - 1 \in 0 .. 2 * Slots - 1 /\ g[l] - 1 < Slots
        BY <1>2, <3>1
      <4> QED
        BY <4>1, Around
    <3> QED
      BY <1>2, <2>2, <3>1, <3>2, <3>3
  <2> QED
    BY <2>1, <2>2
<1> HIDE DEF ahead
<1>8. s \in 0 .. Slots - 1 /\ Ahead(cursors, l, ahead, s)
  <2>1. cursors[l] + ahead \in 0 .. 2 * Slots - 1
    BY <1>2, <1>7
  <2>2. PICK x \in 0 .. 2 * Slots - 1 : x = cursors[l] + ahead
    BY <2>1
  <2>3. s = (x % Slots)
    BY <2>2
  <2>4. s = IF x < Slots THEN x ELSE x - Slots
    BY <2>3, Around
  <2> HIDE DEF s
  <2> QED
    BY <1>2, <1>7, <2>2, <2>4 DEF Ahead
<1> HIDE DEF s
<1>9. Home(at, cur, cursors) = <<l, s>>
  BY <1>1 DEF ahead, s
<1>10. l = 0 => at <= cur + TickLen * (1 + ahead)
  <2> SUFFICES ASSUME l = 0 PROVE at <= cur + TickLen * (1 + ahead)
    OBVIOUS
  <2>1. g[l] <= Slots
    BY <1>1, <1>2 DEF Fits
  <2>2. CASE T = 0
    <3>1. at <= cur /\ ahead = 0
      BY <1>3, <1>4, <1>7, <2>2
    <3> QED
      BY <1>2, <3>1
  <2>3. CASE T # 0
    BY <1>3, <1>4, <1>7, <2>1, <2>3
  <2> QED
    BY <2>2, <2>3
<1> DEFINE D == [i \in 0 .. l |-> IF T = 0 THEN 1 ELSE g[i]]
<1>11. D \in [0 .. l -> Int]
  BY <1>2
<1>12. Witness(at, cur, cursors, l, ahead, D)
  <2>1. CASE T = 0
    <3>1. l = 0
      <4>1. l # 0 => g[0] > Slots
        BY <1>1 DEF Fits
      <4> QED
        BY <1>1, <1>2, <1>4, <2>1, <4>1
    <3>2. D[0] = 1 /\ ahead = 0 /\ D[l] = 1
      BY <1>4, <1>7, <2>1, <3>1
    <3>3. cur + TickLen * (D[0] - 1) <= at
      BY <1>2, <3>2
    <3> QED
      BY <1>10, <3>1, <3>2, <3>3 DEF Witness
  <2>2. CASE T # 0
    <3>1. \A i \in 0 .. l : D[i] = g[i]
      BY <2>2
    <3>2. 0 \in 0 .. l /\ l \in 0 .. l /\ \A i \in 0 .. l - 1 : i \in 0 .. l /\ i + 1 \in 0 .. l
      BY <1>1
    <3>3. cur + TickLen * (D[0] - 1) <= at
      <4>1. T >= 1 /\ D[0] = T
        BY <1>3, <1>4, <2>2, <3>1, <3>2
      <4>2. TickLen * (T - 1) \in Int
        BY <1>2, <1>3
      <4> QED
        BY <1>3, <4>1, <4>2
    <3>4. ASSUME NEW i \in 0 .. l - 1 PROVE Slots * D[i + 1] < cursors[i] + D[i]
      <4>1. D[i + 1] = g[i + 1] /\ D[i] = g[i] /\ g[i] \in Int /\ g[i + 1] \in Int
        BY <1>2, <3>1, <3>2
      <4>2. cursors[i] \in 0 .. Slots - 1
        BY <1>2, <3>2 DEF Rings
      <4>3. Slots * g[i + 1] <= g[i] - 1 /\ Slots * g[i + 1] \in Int
        BY <1>2, <1>5, <4>1
      <4> QED
        BY <1>2, <4>1, <4>2, <4>3
    <3>5. g[l] # 0
      BY <1>3, <1>4, <1>6, <2>2
    <3>6. 1 + ahead <= D[l]
      BY <1>7, <3>1, <3>2, <3>5
    <3> QED
      BY <1>10, <3>3, <3>4, <3>6 DEF Witness
  <2> QED
    BY <2>1, <2>2
<1> HIDE DEF D
<1> QED
  BY <1>1, <1>7, <1>8, <1>9, <1>11, <1>12 DEF InTime

-----------------------------------------------------------------------------
\* What a witness shows, and how a tick changes it.

\* A timer above the lowest level is not due for two ticks.
LEMMA Climb ==
  ASSUME NEW cursors \in Rings, NEW l \in 0 .. Levels - 1, NEW D \in [0 .. l -> Int], D[l] >= 1,
         \A i \in 0 .. l - 1 : Slots * D[i + 1] < cursors[i] + D[i]
  PROVE  D[0] >= 1 /\ (l # 0 => D[0] >= 2)
<1>1. Slots \in Nat /\ Slots > 1 /\ l \in Nat /\ Levels \in Nat
  BY WheelAssumption
<1> DEFINE Q == { i \in 0 .. l : D[i] >= 1 /\ (i # l => D[i] >= 2) }
<1>2. l \in Q
  BY <1>1
<1>3. ASSUME NEW i \in 0 .. l - 1, i + 1 \in Q PROVE i \in Q
  <2>1. i \in 0 .. l /\ i # l /\ i \in 0 .. Levels - 1
    BY <1>1
  <2>2. cursors[i] \in 0 .. Slots - 1
    BY <2>1 DEF Rings
  <2>3. D[i] \in Int /\ D[i + 1] \in Int /\ D[i + 1] >= 1
    BY <1>3, <2>1
  <2>4. Slots * D[i + 1] >= Slots /\ Slots * D[i + 1] \in Int
    <3>1. PICK d \in Int : d = D[i + 1]
      BY <2>3
    <3>2. d >= 1 => Slots * d >= Slots
      BY <1>1
    <3> QED
      BY <1>1, <2>3, <3>1, <3>2
  <2>5. Slots * D[i + 1] < cursors[i] + D[i]
    OBVIOUS
  <2>6. D[i] >= 2
    BY <1>1, <2>2, <2>3, <2>4, <2>5
  <2> QED
    BY <2>1, <2>6
<1> HIDE DEF Q
<1>4. 0 \in Q
  BY <1>1, <1>2, <1>3, Downwards
<1> QED
  BY <1>4 DEF Q

\* The wheel is not past a timer in a slot.
LEMMA InTimeAhead ==
  ASSUME NEW at \in Nat, NEW cur \in Nat, NEW cursors \in Rings, NEW h, InTime(at, cur, cursors, h)
  PROVE  cur <= at /\ h # Nowhere /\ h \in (0 .. Levels - 1) \X (0 .. Slots - 1)
<1>0. PICK l \in 0 .. Levels - 1, ahead \in 0 .. Slots - 1, s \in 0 .. Slots - 1 :
        \E D \in [0 .. l -> Int] :
          h = <<l, s>> /\ Ahead(cursors, l, ahead, s) /\ Witness(at, cur, cursors, l, ahead, D)
  BY DEF InTime
<1>1. PICK D \in [0 .. l -> Int] :
        h = <<l, s>> /\ Ahead(cursors, l, ahead, s) /\ Witness(at, cur, cursors, l, ahead, D)
  BY <1>0
<1>2. TickLen \in Nat /\ Slots \in Nat /\ l \in 0 .. l /\ 0 \in 0 .. l
  BY WheelAssumption
<1>3. D[l] \in Int /\ D[0] \in Int /\ D[l] >= 1
  BY <1>1, <1>2 DEF Witness
<1>4. D[0] >= 1 /\ cur + TickLen * (D[0] - 1) <= at
  BY <1>1, <1>3, Climb DEF Witness
<1>5. TickLen * (D[0] - 1) >= 0
  <2>1. PICK d \in Nat : d = D[0] - 1
    BY <1>3, <1>4
  <2>2. TickLen * d >= 0
    BY <1>2
  <2> QED
    BY <2>1, <2>2
<1>6. cur <= at
  <2>1. TickLen * (D[0] - 1) \in Int
    BY <1>2, <1>3
  <2> QED
    BY <1>4, <1>5, <2>1
<1> QED
  BY <1>1, <1>6, NowhereIsNoSlot

\* The levels that turn in a tick, and their cursors after it.
Turns(cursors) == { l \in 0 .. Levels - 1 : \A i \in 0 .. l - 1 : cursors[i] + 1 = Slots }
TurnedOn(cursors) ==
    [l \in 0 .. Levels - 1 |->
       IF l \in Turns(cursors) THEN ((cursors[l] + 1) % Slots) ELSE cursors[l]]

LEMMA TurnsUp ==
  ASSUME NEW cursors \in Rings
  PROVE  /\ 0 \in Turns(cursors) /\ TurnedOn(cursors) \in Rings
         /\ \A i \in 0 .. Levels - 2 :
              i + 1 \in Turns(cursors) <=> i \in Turns(cursors) /\ cursors[i] + 1 = Slots
         /\ \A l \in 0 .. Levels - 1 : l \in Turns(cursors) =>
              TurnedOn(cursors)[l] = IF cursors[l] + 1 = Slots THEN 0 ELSE cursors[l] + 1
         /\ \A l \in 0 .. Levels - 1 : l \notin Turns(cursors) => TurnedOn(cursors)[l] = cursors[l]
<1>1. Slots \in Nat /\ Slots > 1 /\ Levels \in Nat /\ Levels > 0
  BY WheelAssumption
<1>2. 0 \in Turns(cursors)
  BY <1>1 DEF Turns
<1>3. ASSUME NEW i \in 0 .. Levels - 2
      PROVE  i + 1 \in Turns(cursors) <=> i \in Turns(cursors) /\ cursors[i] + 1 = Slots
  <2>1. i \in 0 .. Levels - 1 /\ i + 1 \in 0 .. Levels - 1
    BY <1>1
  <2>2. \A k : k \in 0 .. (i + 1) - 1 <=> k \in 0 .. i - 1 \/ k = i
    BY <1>1
  <2> QED
    BY <2>1, <2>2 DEF Turns
<1>4. ASSUME NEW l \in 0 .. Levels - 1
      PROVE  /\ ((cursors[l] + 1) % Slots) = IF cursors[l] + 1 = Slots THEN 0 ELSE cursors[l] + 1
             /\ cursors[l] \in 0 .. Slots - 1
  <2>1. cursors[l] \in 0 .. Slots - 1
    BY DEF Rings
  <2>2. PICK x \in 0 .. 2 * Slots - 1 : x = cursors[l] + 1
    BY <1>1, <2>1
  <2>3. (x % Slots) = IF x < Slots THEN x ELSE x - Slots
    BY Around
  <2> QED
    BY <1>1, <2>1, <2>2, <2>3
<1>5. TurnedOn(cursors) \in Rings
  <2>1. ASSUME NEW l \in 0 .. Levels - 1
        PROVE  (IF l \in Turns(cursors) THEN ((cursors[l] + 1) % Slots) ELSE cursors[l]) \in 0 .. Slots - 1
    BY <1>1, <1>4
  <2> QED
    BY <2>1 DEF TurnedOn, Rings
<1> QED
  BY <1>2, <1>3, <1>4, <1>5 DEF TurnedOn

\* A slot that is not reached comes one closer, as the deadline does.
LEMMA TickCloser ==
  ASSUME NEW at \in Nat, NEW cur \in Nat, NEW cursors \in Rings,
         NEW l \in 0 .. Levels - 1, NEW ahead \in 0 .. Slots - 1, NEW s \in 0 .. Slots - 1,
         NEW D \in [0 .. l -> Int],
         Ahead(cursors, l, ahead, s), Witness(at, cur, cursors, l, ahead, D),
         ~(l \in Turns(cursors) /\ ahead = 0)
  PROVE  InTime(at, cur + TickLen, TurnedOn(cursors), <<l, s>>)
<1> DEFINE after == TurnedOn(cursors)
           closer == IF l \in Turns(cursors) THEN ahead - 1 ELSE ahead
           E == [i \in 0 .. l |-> IF i \in Turns(cursors) THEN D[i] - 1 ELSE D[i]]
<1>1. Slots \in Nat /\ Slots > 1 /\ TickLen \in Nat /\ l \in Nat /\ Levels \in Nat
      /\ l \in 0 .. l /\ 0 \in 0 .. l
  BY WheelAssumption
<1>2. \A i \in 0 .. l : i \in 0 .. Levels - 1 /\ D[i] \in Int /\ cursors[i] \in 0 .. Slots - 1
  BY <1>1 DEF Rings
<1>3. closer \in 0 .. Slots - 1
  BY <1>1
<1>4. Ahead(after, l, closer, s)
  <2>1. CASE l \in Turns(cursors)
    <3>1. ahead >= 1 /\ closer = ahead - 1
      BY <2>1
    <3>2. after[l] = IF cursors[l] + 1 = Slots THEN 0 ELSE cursors[l] + 1
      BY <2>1, TurnsUp
    <3>3. cursors[l] \in 0 .. Slots - 1
      BY <1>1, <1>2
    <3>4. s = cursors[l] + ahead \/ s + Slots = cursors[l] + ahead
      BY DEF Ahead
    <3> HIDE DEF after, closer
    <3>5. PICK c \in 0 .. Slots - 1 : c = cursors[l]
      BY <3>3
    <3>6. CASE c + 1 = Slots
      <4>1. after[l] = 0 /\ s = closer
        BY <1>1, <3>1, <3>2, <3>4, <3>5, <3>6
      <4> QED
        BY <3>1, <4>1 DEF Ahead
    <3>7. CASE c + 1 # Slots
      <4>1. after[l] = c + 1 /\ after[l] + closer = c + ahead
        BY <3>1, <3>2, <3>5, <3>7
      <4> QED
        BY <3>4, <3>5, <4>1 DEF Ahead
    <3> QED
      BY <3>6, <3>7
  <2>2. CASE l \notin Turns(cursors)
    BY <2>2, TurnsUp DEF Ahead
  <2> QED
    BY <2>1, <2>2
<1>5. E \in [0 .. l -> Int]
  BY <1>2
<1>6. E[0] = D[0] - 1 /\ E[l] = (IF l \in Turns(cursors) THEN D[l] - 1 ELSE D[l])
  BY <1>1, TurnsUp
<1>7. cur + TickLen + TickLen * (E[0] - 1) <= at
  <2>1. PICK d \in Int : d = D[0]
    BY <1>1, <1>2
  <2>2. cur + TickLen * (d - 1) <= at /\ E[0] - 1 = d - 1 - 1
    BY <1>1, <1>2, <1>6, <2>1 DEF Witness
  <2>3. TickLen * (d - 1 - 1) = TickLen * (d - 1) - TickLen /\ TickLen * (d - 1) \in Int
    BY <1>1
  <2>4. TickLen * (E[0] - 1) = TickLen * (d - 1) - TickLen
    BY <2>2, <2>3
  <2> HIDE DEF E
  <2>5. cur + TickLen + (TickLen * (d - 1) - TickLen) <= at
    BY <1>1, <2>2, <2>3
  <2> QED
    BY <2>4, <2>5
<1>8. ASSUME NEW i \in 0 .. l - 1 PROVE Slots * E[i + 1] < after[i] + E[i]
  <2>1. i \in 0 .. l /\ i + 1 \in 0 .. l /\ i \in 0 .. Levels - 2 /\ i \in 0 .. Levels - 1
    BY <1>1
  <2>2. PICK d \in Int, e \in Int, c \in 0 .. Slots - 1 : d = D[i] /\ e = D[i + 1] /\ c = cursors[i]
    BY <1>2, <2>1
  <2>3. Slots * e < c + d /\ Slots * e \in Int /\ Slots * (e - 1) = Slots * e - Slots
    <3>1. Slots * e < c + d
      BY <2>2 DEF Witness
    <3>2. Slots * e \in Int /\ Slots * (e - 1) = Slots * e - Slots
      BY <1>1
    <3> QED
      BY <3>1, <3>2
  <2>4. /\ E[i] = IF i \in Turns(cursors) THEN d - 1 ELSE d
        /\ E[i + 1] = IF i + 1 \in Turns(cursors) THEN e - 1 ELSE e
    BY <2>1, <2>2
  <2>5. /\ i + 1 \in Turns(cursors) <=> i \in Turns(cursors) /\ c + 1 = Slots
        /\ i \in Turns(cursors) => after[i] = IF c + 1 = Slots THEN 0 ELSE c + 1
        /\ i \notin Turns(cursors) => after[i] = c
    BY <2>1, <2>2, TurnsUp
  <2> HIDE DEF E, after
  <2>6. CASE i + 1 \in Turns(cursors)
    <3>1. E[i + 1] = e - 1 /\ E[i] = d - 1 /\ after[i] = 0 /\ c + 1 = Slots
      BY <2>4, <2>5, <2>6
    <3>2. Slots * e - Slots < 0 + (d - 1)
      BY <1>1, <2>3, <3>1
    <3> QED
      BY <2>3, <3>1, <3>2
  <2>7. CASE i + 1 \notin Turns(cursors) /\ i \in Turns(cursors)
    <3>1. E[i + 1] = e /\ E[i] = d - 1 /\ after[i] = c + 1
      BY <2>4, <2>5, <2>7
    <3>2. c + 1 + (d - 1) = c + d
      OBVIOUS
    <3> QED
      BY <2>3, <3>1, <3>2
  <2>8. CASE i + 1 \notin Turns(cursors) /\ i \notin Turns(cursors)
    BY <1>1, <2>2, <2>3, <2>4, <2>5, <2>8
  <2> QED
    BY <2>5, <2>6, <2>7, <2>8
<1>9. 1 + closer <= E[l]
  BY <1>1, <1>2, <1>6 DEF Witness
<1>10. l = 0 => at <= cur + TickLen + TickLen * (1 + closer)
  <2> SUFFICES ASSUME l = 0 PROVE at <= cur + TickLen + TickLen * (1 + closer)
    OBVIOUS
  <2>1. closer = ahead - 1 /\ ahead \in Int
    BY TurnsUp
  <2> HIDE DEF closer
  <2>2. TickLen + TickLen * (1 + closer) = TickLen * (1 + ahead)
    BY <1>1, <2>1
  <2>3. at <= cur + TickLen * (1 + ahead)
    BY DEF Witness
  <2>4. TickLen * (1 + ahead) \in Int /\ TickLen * (1 + closer) \in Int
    BY <1>1, <2>1
  <2> QED
    BY <1>1, <2>2, <2>3, <2>4
<1>11. Witness(at, cur + TickLen, after, l, closer, E)
  BY <1>7, <1>8, <1>9, <1>10 DEF Witness
<1> HIDE DEF after, closer, E
<1>12. InTime(at, cur + TickLen, after, <<l, s>>)
  BY <1>3, <1>4, <1>5, <1>11 DEF InTime
<1> QED
  BY <1>12 DEF after

\* One that is reached has its deadline ahead, or at the lowest level now.
LEMMA TickReached ==
  ASSUME NEW at \in Nat, NEW cur \in Nat, NEW cursors \in Rings,
         NEW l \in 0 .. Levels - 1, NEW D \in [0 .. l -> Int], Witness(at, cur, cursors, l, 0, D)
  PROVE  IF l = 0 THEN at <= cur + TickLen ELSE cur + TickLen <= at
<1>1. TickLen \in Nat /\ l \in 0 .. l /\ 0 \in 0 .. l
  BY WheelAssumption
<1>2. CASE l = 0
  BY <1>1, <1>2 DEF Witness
<1>3. CASE l # 0
  <2>1. D[l] \in Int /\ D[0] \in Int /\ D[l] >= 1
    BY <1>1 DEF Witness
  <2>2. D[0] >= 2 /\ cur + TickLen * (D[0] - 1) <= at
    BY <1>3, <2>1, Climb DEF Witness
  <2>3. PICK d \in Int : d = D[0] - 1
    BY <2>1
  <2>4. d >= 1 => TickLen * d >= TickLen
    BY <1>1
  <2>5. TickLen * d \in Int /\ d >= 1 /\ cur + TickLen * d <= at
    BY <1>1, <2>1, <2>2, <2>3
  <2> QED
    BY <1>1, <1>3, <2>4, <2>5
<1> QED
  BY <1>2, <1>3

-----------------------------------------------------------------------------
\* The types of the run, kept by every action.

PlaceInv ==
    /\ clock <= MaxClock /\ cursor \in Rings
    /\ \A k \in Tickers : stage[k] \in {"idle", "waiting", "turning", "callback"}
    /\ \A t \in Timers : home[t] = Nowhere \/ home[t] \in (0 .. Levels - 1) \X (0 .. Slots - 1)

\* Whatever the deadline, the timer goes to a slot of the wheel.
LEMMA HomeIsSlot ==
  ASSUME NEW at \in Nat, NEW cur \in Nat, NEW cursors \in Rings
  PROVE  Home(at, cur, cursors) \in (0 .. Levels - 1) \X (0 .. Slots - 1)
<1>1. PICK g, l : /\ l \in 0 .. Levels - 1 /\ Divides(g, Levels - 1, TicksUntil(at, cur)) /\ Fits(g, l)
                  /\ Home(at, cur, cursors) =
                       <<l, ((cursors[l] + IF g[l] = 0 THEN 0 ELSE ((g[l] - 1) % Slots)) % Slots)>>
  BY HomeIs
<1>2. Slots \in Nat /\ Slots > 1 /\ g[l] - 1 \in Int /\ cursors[l] \in 0 .. Slots - 1
  <2>1. g[l] \in Int /\ cursors[l] \in 0 .. Slots - 1
    BY <1>1 DEF Divides, Rings
  <2> QED
    BY <2>1, WheelAssumption
<1> DEFINE ahead == IF g[l] = 0 THEN 0 ELSE ((g[l] - 1) % Slots)
<1>3. ahead \in 0 .. Slots - 1
  BY <1>2, SlotDivision
<1>4. Home(at, cur, cursors) = <<l, ((cursors[l] + ahead) % Slots)>>
  BY <1>1
<1> HIDE DEF ahead
<1>5. ((cursors[l] + ahead) % Slots) \in 0 .. Slots - 1
  <2>1. cursors[l] + ahead \in Int
    BY <1>2, <1>3
  <2> QED
    BY <2>1, SlotDivision
<1> QED
  BY <1>1, <1>4, <1>5

LEMMA InitPlace == Init => PlaceInv
<1> SUFFICES ASSUME Init PROVE PlaceInv
  OBVIOUS
<1>1. 0 \in 0 .. Slots - 1 /\ MaxClock \in Nat
  BY WheelAssumption
<1>2. cursor \in Rings
  BY <1>1 DEF Init, Rings
<1> QED
  BY <1>1, <1>2 DEF Init, PlaceInv

\* The slots in which an insertion puts timers.
LEMMA InsertPlaces ==
  ASSUME NEW homes, NEW ts, NEW cur \in Nat, NEW cursors \in Rings, NEW t \in Timers,
         alarm[t].at \in Nat, homes[t] = Nowhere \/ homes[t] \in (0 .. Levels - 1) \X (0 .. Slots - 1)
  PROVE  LET h == Insert(homes, ts, cur, cursors)[t]
         IN  h = Nowhere \/ h \in (0 .. Levels - 1) \X (0 .. Slots - 1)
<1>1. CASE t \in ts
  BY <1>1, HomeIsSlot DEF Insert
<1>2. CASE t \notin ts
  BY <1>2, InsertLeaves
<1> QED
  BY <1>1, <1>2

LEMMA StepPlace ==
  ASSUME IInv, PlaceInv, [Next]_vars
  PROVE  PlaceInv'
<1>0. /\ clock \in Nat /\ current \in Nat /\ TickLen \in Nat /\ MaxClock \in Nat
      /\ \A t \in Timers : alarm[t].at \in Nat
  BY WheelAssumption DEF IInv, TypeInv
<1>1. ASSUME NEW t \in Timers, Cancel(t) PROVE PlaceInv'
  BY <1>1 DEF Cancel, PlaceInv, IInv, TypeInv
<1>2. ASSUME NEW t \in Timers, NEW d \in Delays, Schedule(t, clock + d) PROVE PlaceInv'
  <2>1. clock + d \in Nat
    BY <1>0, WheelAssumption
  <2>2. Home(clock + d, current, cursor) \in (0 .. Levels - 1) \X (0 .. Slots - 1)
    BY <1>0, <2>1, HomeIsSlot DEF PlaceInv
  <2>3. home' = [home EXCEPT ![t] = Home(clock + d, current, cursor)] /\ UNCHANGED <<clock, cursor, stage>>
    BY <1>2 DEF Schedule
  <2>4. \A u \in Timers : home'[u] = Nowhere \/ home'[u] \in (0 .. Levels - 1) \X (0 .. Slots - 1)
    BY <2>2, <2>3 DEF PlaceInv, IInv, TypeInv
  <2> QED
    BY <2>3, <2>4 DEF PlaceInv
<1>3. ASSUME NEW k \in Tickers, Turn(k) PROVE PlaceInv'
  <2> DEFINE reached == { t \in Timers : home[t] \in { <<l, cursor[l]>> : l \in Turned } }
             taken == { t \in reached : home[t][1] = 0 }
             rest == [t \in Timers |-> IF t \in taken THEN Nowhere ELSE home[t]]
  <2>1. /\ current' = current + TickLen /\ UNCHANGED <<clock, stage, alarm>>
        /\ home' = Insert(rest, reached \ taken, current', cursor')
    BY <1>3 DEF Turn
  <2>2. cursor' = TurnedOn(cursor)
    BY <1>3 DEF Turn, TurnedOn, Turns, Turned
  <2>3. cursor' \in Rings /\ current' \in Nat
    BY <1>0, <2>1, <2>2, TurnsUp DEF PlaceInv
  <2>4. \A u \in Timers : rest[u] = Nowhere \/ rest[u] \in (0 .. Levels - 1) \X (0 .. Slots - 1)
    BY DEF PlaceInv
  <2> HIDE DEF rest, reached, taken
  <2>5. ASSUME NEW u \in Timers
        PROVE  home'[u] = Nowhere \/ home'[u] \in (0 .. Levels - 1) \X (0 .. Slots - 1)
    BY <1>0, <2>1, <2>3, <2>4, InsertPlaces
  <2> QED
    BY <2>1, <2>3, <2>5 DEF PlaceInv
<1>4. ASSUME NEW k \in Tickers, NEW t \in Timers, Visit(k, t) PROVE PlaceInv'
  <2>1. UNCHANGED <<clock, current, cursor>>
    BY <1>4 DEF Visit
  <2>2. \A i \in Tickers : stage'[i] \in {"idle", "waiting", "turning", "callback"}
    BY <1>4 DEF Visit, PlaceInv, IInv, TypeInv
  <2>3. home' = home \/ home' = Insert(home, {t}, current, cursor)
    BY <1>4 DEF Visit
  <2>4. ASSUME NEW u \in Timers
        PROVE  home'[u] = Nowhere \/ home'[u] \in (0 .. Levels - 1) \X (0 .. Slots - 1)
    <3>1. home[u] = Nowhere \/ home[u] \in (0 .. Levels - 1) \X (0 .. Slots - 1)
      BY DEF PlaceInv
    <3>2. CASE home' = home
      BY <3>1, <3>2
    <3>3. CASE home' = Insert(home, {t}, current, cursor)
      BY <1>0, <3>1, <3>3, InsertPlaces DEF PlaceInv
    <3> QED
      BY <2>3, <3>2, <3>3
  <2> QED
    BY <2>1, <2>2, <2>4 DEF PlaceInv
<1>5. ASSUME NEW k \in Tickers, TickCall(k) \/ Lock(k) \/ Return(k) PROVE PlaceInv'
  <2>1. UNCHANGED <<clock, cursor, home>>
    BY <1>5 DEF TickCall, Lock, Return
  <2>2. \A i \in Tickers : stage'[i] \in {"idle", "waiting", "turning", "callback"}
    BY <1>5 DEF TickCall, Lock, Return, PlaceInv, IInv, TypeInv
  <2> QED
    BY <2>1, <2>2 DEF PlaceInv
<1>6. CASE ClockPasses
  BY <1>0, <1>6 DEF ClockPasses, PlaceInv
<1>7. CASE UNCHANGED vars
  BY <1>7 DEF vars, PlaceInv
<1> QED
  BY <1>1, <1>2, <1>3, <1>4, <1>5, <1>6, <1>7 DEF Next, TickStep

\* The fields of the wheel, its threads and its timers keep their types
\* (emq_wheel_t, emq_wheel_insert_locked): a slot index is in its level.
THEOREM TypeCorrectness == Spec => []TypeOK
<1>1. Spec => []PlaceInv
  <2>1. IInv /\ PlaceInv /\ [Next]_vars => PlaceInv'
    BY StepPlace
  <2> QED
    BY <2>1, InitPlace, WheelInvariance, PTL DEF Spec
<1>2. IInv /\ PlaceInv => TypeOK
  BY WheelAssumption DEF IInv, TypeInv, NeverAhead, States, PlaceInv, Rings, TypeOK
<1> QED
  BY <1>1, <1>2, WheelInvariance, PTL

-----------------------------------------------------------------------------
\* The wheel is turned past no timer: a timer in a slot has a witness that it
\* is reached in time, and one taken off is due.

SlotsInTime ==
    \A t \in Timers : home[t] # Nowhere => InTime(alarm[t].at, current, cursor, home[t])

ListsDue == \A k \in Tickers : \A t \in list[k] : alarm[t].at <= current

NoneLost ==
    \A t \in Timers : Armed(t) /\ home[t] = Nowhere => \E k \in Tickers : t \in list[k]

TimeInv == SlotsInTime /\ ListsDue /\ NoneLost

LEMMA InitTime == Init => TimeInv
  BY DEF Init, TimeInv, SlotsInTime, ListsDue, NoneLost, Armed, Over

\* A new timer's deadline is not behind the wheel.
LEMMA ScheduleTime ==
  ASSUME Levels > 1, IInv, PlaceInv, TimeInv, NEW t \in Timers, NEW d \in Delays, Schedule(t, clock + d)
  PROVE  TimeInv'
<1>1. /\ home' = [home EXCEPT ![t] = Home(clock + d, current, cursor)]
      /\ alarm' = [alarm EXCEPT ![t] = [state |-> "armed", at |-> clock + d]]
      /\ UNCHANGED <<current, cursor, list>> /\ ~Armed(t)
  BY DEF Schedule, Armed
<1>2. clock + d \in Nat /\ current \in Nat /\ current <= clock + d /\ cursor \in Rings
  BY WheelAssumption DEF IInv, TypeInv, NeverAhead, PlaceInv
<1>3. InTime(clock + d, current, cursor, Home(clock + d, current, cursor))
  BY <1>2, HomeInTime
<1>4. home'[t] = Home(clock + d, current, cursor) /\ alarm'[t].at = clock + d /\ home'[t] # Nowhere
  BY <1>1, <1>2, <1>3, InTimeAhead DEF IInv, TypeInv
<1>5. \A u \in Timers \ {t} : home'[u] = home[u] /\ alarm'[u] = alarm[u]
  BY <1>1 DEF IInv, TypeInv
<1>6. SlotsInTime'
  <2> SUFFICES ASSUME NEW u \in Timers, home'[u] # Nowhere
               PROVE  InTime(alarm'[u].at, current, cursor, home'[u])
    BY <1>1 DEF SlotsInTime
  <2>1. CASE u = t
    BY <1>3, <1>4, <2>1
  <2>2. CASE u # t
    BY <1>5, <2>2 DEF TimeInv, SlotsInTime
  <2> QED
    BY <2>1, <2>2
<1>7. ListsDue'
  <2> SUFFICES ASSUME NEW k \in Tickers, NEW u \in list[k] PROVE alarm'[u].at <= current
    BY <1>1 DEF ListsDue
  <2>1. u \in Timers /\ u # t
    BY <1>1 DEF IInv, TypeInv, ListsArmed
  <2> QED
    BY <1>5, <2>1 DEF TimeInv, ListsDue
<1>8. NoneLost'
  <2> SUFFICES ASSUME NEW u \in Timers, alarm'[u].state = "armed", home'[u] = Nowhere
               PROVE  \E k \in Tickers : u \in list[k]
    BY <1>1 DEF NoneLost, Armed
  <2>1. u # t
    BY <1>4
  <2> QED
    BY <1>5, <2>1 DEF TimeInv, NoneLost, Armed
<1> QED
  BY <1>6, <1>7, <1>8 DEF TimeInv

LEMMA CancelTime ==
  ASSUME IInv, TimeInv, NEW t \in Timers, Cancel(t)
  PROVE  TimeInv'
<1>1. /\ home' = [home EXCEPT ![t] = Nowhere] /\ alarm' = [alarm EXCEPT ![t] = Over("cancelled")]
      /\ UNCHANGED <<current, cursor, list>> /\ home[t] # Nowhere
  BY DEF Cancel
<1>2. home'[t] = Nowhere /\ alarm'[t].state = "cancelled"
  BY <1>1 DEF IInv, TypeInv, Over
<1>3. \A u \in Timers \ {t} : home'[u] = home[u] /\ alarm'[u] = alarm[u]
  BY <1>1 DEF IInv, TypeInv
<1>4. SlotsInTime'
  <2> SUFFICES ASSUME NEW u \in Timers, home'[u] # Nowhere
               PROVE  InTime(alarm'[u].at, current, cursor, home'[u])
    BY <1>1 DEF SlotsInTime
  <2> QED
    BY <1>2, <1>3 DEF TimeInv, SlotsInTime
<1>5. ListsDue'
  <2> SUFFICES ASSUME NEW k \in Tickers, NEW u \in list[k] PROVE alarm'[u].at <= current
    BY <1>1 DEF ListsDue
  <2>1. u \in Timers /\ u # t
    BY <1>1 DEF IInv, TypeInv, ListsArmed
  <2> QED
    BY <1>3, <2>1 DEF TimeInv, ListsDue
<1>6. NoneLost'
  <2> SUFFICES ASSUME NEW u \in Timers, alarm'[u].state = "armed", home'[u] = Nowhere
               PROVE  \E k \in Tickers : u \in list[k]
    BY <1>1 DEF NoneLost, Armed
  <2>1. u # t
    BY <1>2
  <2> QED
    BY <1>3, <2>1 DEF TimeInv, NoneLost, Armed
<1> QED
  BY <1>4, <1>5, <1>6 DEF TimeInv

\* A tick reaches the slots whose timers must be moved, and takes what is due.
LEMMA TurnTime ==
  ASSUME Levels > 1, IInv, PlaceInv, TimeInv, NEW k \in Tickers, Turn(k)
  PROVE  TimeInv'
<1> DEFINE reached == { t \in Timers : home[t] \in { <<l, cursor[l]>> : l \in Turned } }
           taken == { t \in reached : home[t][1] = 0 }
           rest == [t \in Timers |-> IF t \in taken THEN Nowhere ELSE home[t]]
<1>1. /\ list[k] = {} /\ current' = current + TickLen
      /\ list' = [list EXCEPT ![k] = taken]
      /\ home' = Insert(rest, reached \ taken, current', cursor')
      /\ alarm' = alarm
  BY DEF Turn
<1>2. cursor' = TurnedOn(cursor)
  BY DEF Turn, TurnedOn, Turns, Turned
<1>3. /\ current \in Nat /\ TickLen \in Nat /\ Slots \in Nat /\ cursor \in Rings /\ cursor' \in Rings
      /\ \A t \in Timers : alarm[t].at \in Nat
  BY <1>2, TurnsUp, WheelAssumption DEF IInv, TypeInv, PlaceInv
<1>4. \A t \in reached : t \in Timers /\ home[t] # Nowhere
  BY NowhereIsNoSlot
<1>5. ASSUME NEW t \in Timers, t \notin reached, home[t] # Nowhere
      PROVE  InTime(alarm[t].at, current', cursor', home[t])
  <2>1. InTime(alarm[t].at, current, cursor, home[t])
    BY <1>5 DEF TimeInv, SlotsInTime
  <2>2. PICK l \in 0 .. Levels - 1, ahead \in 0 .. Slots - 1, s \in 0 .. Slots - 1 :
          \E D \in [0 .. l -> Int] :
            home[t] = <<l, s>> /\ Ahead(cursor, l, ahead, s) /\ Witness(alarm[t].at, current, cursor, l, ahead, D)
    BY <2>1 DEF InTime
  <2>3. PICK D \in [0 .. l -> Int] :
          home[t] = <<l, s>> /\ Ahead(cursor, l, ahead, s) /\ Witness(alarm[t].at, current, cursor, l, ahead, D)
    BY <2>2
  <2>4. ~(l \in Turns(cursor) /\ ahead = 0)
    <3> SUFFICES ASSUME l \in Turns(cursor), ahead = 0 PROVE FALSE
      OBVIOUS
    <3>1. cursor[l] \in 0 .. Slots - 1
      BY <1>3 DEF Rings
    <3>2. s = cursor[l]
      BY <1>3, <2>3, <3>1 DEF Ahead
    <3>3. l \in Turned
      BY DEF Turns, Turned
    <3> QED
      BY <1>5, <2>3, <3>2, <3>3
  <2>5. InTime(alarm[t].at, current + TickLen, TurnedOn(cursor), <<l, s>>)
    BY <1>3, <2>3, <2>4, TickCloser
  <2> QED
    BY <1>1, <1>2, <2>3, <2>5
<1>6. ASSUME NEW t \in reached
      PROVE  IF t \in taken THEN alarm[t].at <= current' ELSE current' <= alarm[t].at
  <2>1. InTime(alarm[t].at, current, cursor, home[t]) /\ alarm[t].at \in Nat
    BY <1>3, <1>4 DEF TimeInv, SlotsInTime
  <2>2. PICK l \in 0 .. Levels - 1, ahead \in 0 .. Slots - 1, s \in 0 .. Slots - 1 :
          \E D \in [0 .. l -> Int] :
            home[t] = <<l, s>> /\ Ahead(cursor, l, ahead, s) /\ Witness(alarm[t].at, current, cursor, l, ahead, D)
    BY <2>1 DEF InTime
  <2>3. PICK D \in [0 .. l -> Int] :
          home[t] = <<l, s>> /\ Ahead(cursor, l, ahead, s) /\ Witness(alarm[t].at, current, cursor, l, ahead, D)
    BY <2>2
  <2>4. PICK m \in Turned : home[t] = <<m, cursor[m]>>
    OBVIOUS
  <2>5. l = m /\ s = cursor[l] /\ home[t][1] = l
    BY <2>3, <2>4
  <2>6. ahead = 0
    <3>1. cursor[l] \in 0 .. Slots - 1
      BY <1>3 DEF Rings
    <3> QED
      BY <1>3, <2>3, <2>5, <3>1 DEF Ahead
  <2>7. IF l = 0 THEN alarm[t].at <= current + TickLen ELSE current + TickLen <= alarm[t].at
    BY <1>3, <2>1, <2>3, <2>6, TickReached
  <2> QED
    BY <1>1, <2>5, <2>7
<1>7. taken \subseteq reached /\ reached \subseteq Timers
  OBVIOUS
<1> HIDE DEF reached, taken
<1>8. \A t \in Timers : t \notin reached \ taken => home'[t] = IF t \in taken THEN Nowhere ELSE home[t]
  BY <1>1, InsertLeaves
<1>9. \A t \in reached \ taken : home'[t] = Home(alarm[t].at, current', cursor')
  BY <1>1, <1>7 DEF Insert
<1> HIDE DEF rest
<1>10. ASSUME NEW t \in reached \ taken
       PROVE  home'[t] # Nowhere /\ InTime(alarm[t].at, current', cursor', home'[t])
  <2>1. alarm[t].at \in Nat /\ current' \in Nat /\ cursor' \in Rings /\ current' <= alarm[t].at
    BY <1>1, <1>3, <1>6, <1>7
  <2>2. InTime(alarm[t].at, current', cursor', Home(alarm[t].at, current', cursor'))
    BY <2>1, HomeInTime
  <2>3. Home(alarm[t].at, current', cursor') # Nowhere
    BY <2>1, <2>2, InTimeAhead
  <2> QED
    BY <1>9, <2>2, <2>3
<1>11. SlotsInTime'
  <2> SUFFICES ASSUME NEW t \in Timers, home'[t] # Nowhere
               PROVE  InTime(alarm[t].at, current', cursor', home'[t])
    BY <1>1 DEF SlotsInTime
  <2>1. CASE t \in reached \ taken
    BY <1>10, <2>1
  <2>2. CASE t \notin reached \ taken
    <3>1. t \notin taken /\ home'[t] = home[t]
      BY <1>8, <2>2
    <3>2. t \notin reached
      BY <2>2, <3>1
    <3> QED
      BY <1>5, <3>1, <3>2
  <2> QED
    BY <2>1, <2>2
<1>12. ListsDue'
  <2> SUFFICES ASSUME NEW j \in Tickers, NEW t \in list'[j] PROVE alarm[t].at <= current'
    BY <1>1 DEF ListsDue
  <2>1. CASE j = k
    <3>1. t \in taken
      BY <1>1, <2>1 DEF IInv, TypeInv
    <3> QED
      BY <1>6, <1>7, <3>1
  <2>2. CASE j # k
    <3>1. t \in list[j] /\ t \in Timers
      BY <1>1, <2>2 DEF IInv, TypeInv
    <3>2. alarm[t].at <= current
      BY <3>1 DEF TimeInv, ListsDue
    <3>3. alarm[t].at \in Nat
      BY <1>3, <3>1
    <3> QED
      BY <1>1, <1>3, <3>2, <3>3
  <2> QED
    BY <2>1, <2>2
<1>13. NoneLost'
  <2> SUFFICES ASSUME NEW t \in Timers, Armed(t), home'[t] = Nowhere
               PROVE  \E j \in Tickers : t \in list'[j]
    BY <1>1 DEF NoneLost, Armed
  <2>1. t \notin reached \ taken
    BY <1>10
  <2>2. CASE t \in taken
    <3>1. t \in list'[k]
      BY <1>1, <2>2 DEF IInv, TypeInv
    <3> QED
      BY <3>1
  <2>3. CASE t \notin taken
    <3>1. home[t] = Nowhere
      BY <1>8, <2>1, <2>3
    <3>2. PICK j \in Tickers : t \in list[j]
      BY <3>1 DEF TimeInv, NoneLost
    <3>3. t \in list'[j]
      BY <1>1, <3>2 DEF IInv, TypeInv
    <3> QED
      BY <3>3
  <2> QED
    BY <2>2, <2>3
<1> QED
  BY <1>11, <1>12, <1>13 DEF TimeInv

\* A visited timer is due, so that it fires or is dropped.
LEMMA VisitTime ==
  ASSUME IInv, TimeInv, NEW k \in Tickers, NEW t \in Timers, Visit(k, t)
  PROVE  TimeInv'
<1>1. t \in list[k] /\ list' = [list EXCEPT ![k] = list[k] \ {t}] /\ UNCHANGED <<current, cursor>>
  BY DEF Visit
<1>2. alarm[t].at <= current /\ alarm[t].at \in Nat /\ current \in Nat
  BY <1>1 DEF TimeInv, ListsDue, IInv, TypeInv
<1>3. ~(alarm[t].at > current)
  BY <1>2
<1>4. /\ alarm' = [alarm EXCEPT ![t] = Over(IF k \in Silent THEN "dropped" ELSE "fired")]
      /\ home' = home
  BY <1>3 DEF Visit
<1>5. alarm'[t].state \in {"fired", "dropped"} /\ \A u \in Timers \ {t} : alarm'[u] = alarm[u]
  BY <1>4 DEF IInv, TypeInv, Over
<1>6. home[t] = Nowhere /\ \A j \in Tickers : t \in list[j] => j = k
  BY <1>1 DEF IInv, ListsArmed
<1>7. \A j \in Tickers : list'[j] = list[j] \ {t} /\ list[j] \subseteq Timers
  BY <1>1, <1>6 DEF IInv, TypeInv
<1>8. SlotsInTime'
  <2> SUFFICES ASSUME NEW u \in Timers, home[u] # Nowhere
               PROVE  InTime(alarm'[u].at, current, cursor, home[u])
    BY <1>1, <1>4 DEF SlotsInTime
  <2> QED
    BY <1>5, <1>6 DEF TimeInv, SlotsInTime
<1>9. ListsDue'
  BY <1>1, <1>5, <1>7 DEF TimeInv, ListsDue
<1>10. NoneLost'
  BY <1>4, <1>5, <1>7 DEF TimeInv, NoneLost, Armed
<1> QED
  BY <1>8, <1>9, <1>10 DEF TimeInv

LEMMA OtherTime ==
  ASSUME TimeInv,
         ClockPasses \/ UNCHANGED vars
           \/ \E k \in Tickers : TickCall(k) \/ Lock(k) \/ Return(k)
  PROVE  TimeInv'
<1>1. UNCHANGED <<current, cursor, home, list, alarm>>
  BY DEF ClockPasses, vars, TickCall, Lock, Return
<1> QED
  BY <1>1 DEF TimeInv, SlotsInTime, ListsDue, NoneLost, Armed

\* With two levels or more a timer is off its slot by the first tick past its
\* deadline, and armed on no slot only to fire or be dropped (emq_wheel_tick,
\* emq_wheel_cascade, emq_wheel_insert_locked).
THEOREM WheelOnTime ==
  ASSUME Levels > 1 PROVE Spec => []OnTime
<1>1. Spec => []PlaceInv
  <2>1. IInv /\ PlaceInv /\ [Next]_vars => PlaceInv'
    BY StepPlace
  <2> QED
    BY <2>1, InitPlace, WheelInvariance, PTL DEF Spec
<1>2. IInv /\ PlaceInv /\ TimeInv /\ [Next]_vars => TimeInv'
  <2> SUFFICES ASSUME IInv, PlaceInv, TimeInv, [Next]_vars PROVE TimeInv'
    OBVIOUS
  <2>1. ASSUME NEW t \in Timers, Cancel(t) PROVE TimeInv'
    BY <2>1, CancelTime
  <2>2. ASSUME NEW t \in Timers, NEW d \in Delays, Schedule(t, clock + d) PROVE TimeInv'
    BY <2>2, ScheduleTime
  <2>3. ASSUME NEW k \in Tickers, Turn(k) PROVE TimeInv'
    BY <2>3, TurnTime
  <2>4. ASSUME NEW k \in Tickers, NEW t \in Timers, Visit(k, t) PROVE TimeInv'
    BY <2>4, VisitTime
  <2>5. ASSUME ClockPasses \/ UNCHANGED vars
                 \/ \E k \in Tickers : TickCall(k) \/ Lock(k) \/ Return(k)
        PROVE  TimeInv'
    BY <2>5, OtherTime
  <2> QED
    BY <2>1, <2>2, <2>3, <2>4, <2>5 DEF Next, TickStep
<1>3. IInv /\ PlaceInv /\ TimeInv => OnTime
  <2> SUFFICES ASSUME IInv, PlaceInv, TimeInv, NEW t \in Timers
               PROVE  /\ home[t] # Nowhere => Armed(t) /\ current <= alarm[t].at
                      /\ Armed(t) /\ home[t] = Nowhere =>
                           alarm[t].at <= current /\ \E k \in Tickers : t \in list[k]
    BY DEF OnTime, Armed
  <2>1. /\ current \in Nat /\ alarm[t].at \in Nat /\ cursor \in Rings
        /\ TickLen \in Nat /\ TickLen > 0
    BY WheelAssumption DEF IInv, TypeInv, PlaceInv
  <2>2. ASSUME home[t] # Nowhere PROVE Armed(t) /\ current <= alarm[t].at
    <3>1. Armed(t) /\ InTime(alarm[t].at, current, cursor, home[t])
      BY <2>2 DEF IInv, SlotsArmed, TimeInv, SlotsInTime
    <3>2. current <= alarm[t].at
      BY <2>1, <3>1, InTimeAhead
    <3> QED
      BY <2>1, <3>1, <3>2
  <2>3. ASSUME Armed(t), home[t] = Nowhere
        PROVE  alarm[t].at <= current /\ \E k \in Tickers : t \in list[k]
    BY <2>3 DEF TimeInv, NoneLost, ListsDue
  <2> QED
    BY <2>2, <2>3
<1> QED
  BY <1>1, <1>2, <1>3, InitTime, WheelInvariance, PTL DEF Spec
=============================================================================
