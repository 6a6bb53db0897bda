------------------------------- MODULE Wheel --------------------------------
(***************************************************************************)
(* The hierarchical timer wheel (src/core/src/sched/emq_wheel.c).  Every   *)
(* level is a ring of slots; a slot of level l + 1 spans a turn of level   *)
(* l, and is spread over the levels below when those have gone round.      *)
(* The engine's scheduler thread ticks the wheel and fires what is due     *)
(* with the mutex released; a pop from a log queue ticks it as well, with  *)
(* no callback.  The order of timers within a slot's list is left out.     *)
(***************************************************************************)
EXTENDS Naturals

CONSTANTS Timers,           \* calls of emq_wheel_schedule, each with its cookie
          Tickers, Silent,  \* threads that tick; those that pass no callback
          Slots, Levels,    \* EMQ_WHEEL_SLOTS, levels
          TickLen,          \* tick_ms, in units of the clock
          Delays,           \* bounds: how far ahead a deadline is,
          MaxClock, MaxLag  \* the clock, and how far the wheel is behind it

ASSUME WheelAssumption ==
    /\ Silent \subseteq Tickers /\ Delays \subseteq Nat /\ {MaxClock, MaxLag} \subseteq Nat
    /\ Slots \in Nat \ {0, 1} /\ Levels \in Nat \ {0} /\ TickLen \in Nat \ {0}

VARIABLES clock,      \* emq_now_ns
          current,    \* current_ns: how far the wheel has been turned
          cursor,     \* per level, its next slot
          home,       \* per timer, its <<level, slot>>
          stage,      \* per thread: idle, waiting for mu, turning (holds mu), callback
          now, list,  \* per thread: now_ns; the slot's list it has taken off
          alarm       \* per timer, whether it is armed, and its deadline

vars == <<clock, current, cursor, home, stage, now, list, alarm>>

Nowhere == <<>>
Over(how) == [state |-> how, at |-> 0]
Locked == \E k \in Tickers : stage[k] = "turning"

Init ==
    /\ clock = 0 /\ current = 0
    /\ cursor = [l \in 0 .. Levels - 1 |-> 0]
    /\ home = [t \in Timers |-> Nowhere]
    /\ stage = [k \in Tickers |-> "idle"]
    /\ now = [k \in Tickers |-> 0] /\ list = [k \in Tickers |-> {}]
    /\ alarm = [t \in Timers |-> Over("free")]

(* emq_ticks_until *)
TicksUntil(at, cur) == IF at <= cur THEN 0 ELSE 1 + (at - cur - 1) \div TickLen

\* Mutant: the slot is counted from one, not from the next.
Home_off_by_one(at, cur, cursors) ==
    LET ticks == TicksUntil(at, cur)
        level == IF ticks > Slots /\ Levels > 1 THEN 1 ELSE 0
    IN <<level, (cursors[level] + (IF level = 0 THEN ticks ELSE (ticks - 1) \div Slots)) % Slots>>

(* emq_wheel_insert_locked: the lowest level that reaches so far. *)
Home(at, cur, cursors) ==
    LET ticks[l \in 0 .. Levels - 1] ==
          IF l = 0 THEN TicksUntil(at, cur) ELSE (ticks[l - 1] - 1) \div Slots
        level == CHOOSE l \in 0 .. Levels - 1 :
                   /\ l + 1 = Levels \/ ticks[l] <= Slots
                   /\ \A k \in 0 .. l - 1 : ticks[k] > Slots
        ahead == IF ticks[level] = 0 THEN 0 ELSE (ticks[level] - 1) % Slots
    IN <<level, (cursors[level] + ahead) % Slots>>

Insert(homes, ts, cur, cursors) ==
    [t \in Timers |-> IF t \in ts THEN Home(alarm[t].at, cur, cursors) ELSE homes[t]]

(* --------------------------- schedule and cancel ----------------------- *)

Schedule(t, at) ==
    /\ ~Locked /\ alarm[t].state = "free" /\ at + 2 * TickLen <= MaxClock
    /\ alarm' = [alarm EXCEPT ![t] = [state |-> "armed", at |-> at]]
    /\ home' = [home EXCEPT ![t] = Home(at, current, cursor)]
    /\ UNCHANGED <<clock, current, cursor, stage, now, list>>

\* Mutant: the timer stays linked in its slot.
Cancel_keeps_home(t) ==
    /\ ~Locked /\ home[t] # Nowhere /\ alarm[t].state = "armed"
    /\ alarm' = [alarm EXCEPT ![t] = Over("cancelled")]
    /\ UNCHANGED <<clock, current, cursor, home, stage, now, list>>

(* Not found: it has fired, or is on a list that was taken off the wheel.  *)
Cancel(t) ==
    /\ ~Locked /\ home[t] # Nowhere
    /\ home' = [home EXCEPT ![t] = Nowhere]
    /\ alarm' = [alarm EXCEPT ![t] = Over("cancelled")]
    /\ UNCHANGED <<clock, current, cursor, stage, now, list>>

(* --------------------------------- tick -------------------------------- *)

TickCall(k) ==
    /\ stage[k] = "idle"
    /\ stage' = [stage EXCEPT ![k] = "waiting"]
    /\ now' = [now EXCEPT ![k] = clock]
    /\ UNCHANGED <<clock, current, cursor, home, list, alarm>>

\* Mutant: the callback is entered with the mutex held.
Lock_keeps(k) ==
    /\ stage[k] = "waiting" /\ ~Locked /\ \A i \in Tickers : stage[i] # "callback"
    /\ stage' = [stage EXCEPT ![k] = "turning"]
    /\ UNCHANGED <<clock, current, cursor, home, now, list, alarm>>

(* The mutex, on entry and after the callback. *)
Lock(k) ==
    /\ stage[k] \in {"waiting", "callback"} /\ ~Locked
    /\ stage' = [stage EXCEPT ![k] = "turning"]
    /\ UNCHANGED <<clock, current, cursor, home, now, list, alarm>>

(* emq_wheel_cascade: the levels whose lower levels have all gone round. *)
Turned == { l \in 0 .. Levels - 1 : \A i \in 0 .. l - 1 : cursor[i] + 1 = Slots }

\* Mutant: the wheel is turned for a tick that has only begun.
Behind_eager(k) == current < now[k]

(* The wheel has a whole tick to go. *)
Behind(k) == current + TickLen <= now[k]

(* One tick: take the next slot's list off; spread the slots reached above. *)
Turn(k) ==
    /\ stage[k] = "turning" /\ list[k] = {} /\ Behind(k)
    /\ LET reached == { t \in Timers : home[t] \in { <<l, cursor[l]>> : l \in Turned } }
           taken == { t \in reached : home[t][1] = 0 }
       IN /\ current' = current + TickLen
          /\ cursor' = [l \in 0 .. Levels - 1 |->
                          IF l \in Turned THEN (cursor[l] + 1) % Slots ELSE cursor[l]]
          /\ list' = [list EXCEPT ![k] = taken]
          /\ home' = Insert([t \in Timers |-> IF t \in taken THEN Nowhere ELSE home[t]],
                            reached \ taken, current', cursor')
    /\ UNCHANGED <<clock, stage, now, alarm>>

(* A timer of the list whose time is yet to come goes back; the others     *)
(* fire, with the mutex released during the callback.  A tick without a    *)
(* callback drops them.                                                    *)
Visit(k, t) ==
    /\ stage[k] = "turning" /\ t \in list[k]
    /\ list' = [list EXCEPT ![k] = @ \ {t}]
    /\ IF alarm[t].at > current
         THEN home' = Insert(home, {t}, current, cursor) /\ UNCHANGED <<stage, alarm>>
         ELSE /\ alarm' = [alarm EXCEPT ![t] = Over(IF k \in Silent THEN "dropped" ELSE "fired")]
              /\ stage' = [stage EXCEPT ![k] = IF k \in Silent THEN @ ELSE "callback"]
              /\ UNCHANGED home
    /\ UNCHANGED <<clock, current, cursor, now>>

Return(k) ==
    /\ stage[k] = "turning" /\ list[k] = {} /\ ~Behind(k)
    /\ stage' = [stage EXCEPT ![k] = "idle"]
    /\ now' = [now EXCEPT ![k] = 0]
    /\ UNCHANGED <<clock, current, cursor, home, list, alarm>>

ClockPasses ==
    /\ clock < MaxClock /\ clock < current + MaxLag
    /\ clock' = clock + 1
    /\ UNCHANGED <<current, cursor, home, stage, now, list, alarm>>

TickStep(k) ==
    \/ TickCall(k) \/ Turn(k) \/ Return(k)
    \/ \E t \in Timers : Visit(k, t)

Next ==
    \/ \E t \in Timers : Cancel(t) \/ \E d \in Delays : Schedule(t, clock + d)
    \/ \E k \in Tickers : TickStep(k) \/ Lock(k)
    \/ ClockPasses

Spec == Init /\ [][Next]_vars

(* The scheduler thread ticks again and again and gets the mutex in the    *)
(* end; nothing is asked of the pops.                                      *)
FairSpec ==
    /\ Spec
    /\ \A k \in Tickers : WF_vars(\E t \in Timers : Visit(k, t)) /\ WF_vars(Turn(k) \/ Return(k))
    /\ \A k \in Tickers \ Silent : WF_vars(TickCall(k)) /\ SF_vars(Lock(k))
-----------------------------------------------------------------------------
TypeOK ==
    /\ clock \in 0 .. MaxClock /\ current \in 0 .. clock
    /\ cursor \in [0 .. Levels - 1 -> 0 .. Slots - 1]
    /\ \A t \in Timers : /\ home[t] = Nowhere \/ home[t] \in (0 .. Levels - 1) \X (0 .. Slots - 1)
                         /\ alarm[t].state \in {"free", "armed", "fired", "dropped", "cancelled"}
    /\ \A k \in Tickers : /\ stage[k] \in {"idle", "waiting", "turning", "callback"}
                          /\ now[k] <= clock /\ list[k] \subseteq Timers

(* emq_wheel_insert_locked, emq_wheel_cascade: the wheel is never turned   *)
(* past a timer: whatever level it went to and however often it was spread *)
(* to a lower one, it is off its slot by the first tick past its deadline. *)
(* A timer that is armed and on no slot is about to fire or be dropped, so *)
(* that a cancel answers "not found" only if the deadline has passed.      *)
OnTime ==
    \A t \in Timers :
        /\ home[t] # Nowhere => alarm[t].state = "armed" /\ current <= alarm[t].at
        /\ alarm[t].state = "armed" /\ home[t] = Nowhere =>
             alarm[t].at <= current /\ \E k \in Tickers : t \in list[k]

(* emq_wheel_tick, emq_wheel_cancel: a timer fires at most once, never     *)
(* early and never after it was cancelled or dropped.                      *)
AlarmService == INSTANCE AlarmSet WITH Alarms <- Timers
ImplementsAlarms == AlarmService!Spec

(* A timer whose deadline has passed does not stay on the wheel, whatever  *)
(* level it went to and whoever else ticks: it fires or was cancelled, or  *)
(* the tick of a pop took it, which has no callback and drops it.  Where   *)
(* no pop ticks the wheel, it fires or was cancelled.                      *)
Late(t) == alarm[t].state = "armed" /\ alarm[t].at + TickLen <= clock
AllFire ==
    \A t \in Timers :
        /\ Late(t) ~> alarm[t].state \in {"fired", "cancelled", "dropped"}
        /\ [](\A k \in Silent : stage[k] = "idle") =>
             (Late(t) ~> alarm[t].state \in {"fired", "cancelled"})
=============================================================================
