----------------------------- MODULE EngineProofs -----------------------------
(***************************************************************************)
(* emq_engine_stop is complete: for every number of workers, threads,      *)
(* clients and jobs, if no call overlaps a start or a stop, then between a *)
(* stop and the next start no thread of the engine is alive and no job     *)
(* waits, and the wheel never holds an alarm whose timer is unlisted.      *)
(*                                                                         *)
(* The argument: a start that found the engine stopped and a stop are      *)
(* alone among the calls, and each of their phases knows where the threads *)
(* that are alive are recorded: in scheduler, in the workers made so far,  *)
(* in the workers not joined yet.  If a stop waits for the callbacks too,  *)
(* a queue is never freed while a handle, a job or a call holds it.        *)
(***************************************************************************)
EXTENDS Engine, FiniteSetTheorems, TLAPS

Phases ==
    {"none", "test", "set", "make_scheduler", "make_worker", "submit", "wake", "refuse", "arm", "hold",
     "stop", "stop_wake", "join_scheduler", "join_worker", "discard", "clear"}

\* What a start or a stop does alone.
Solo ==
    {"set", "make_scheduler", "make_worker",
     "stop", "stop_wake", "join_scheduler", "join_worker", "discard", "clear"}

\* A stop that has not emptied everything yet.
Unfinished == {"stop", "stop_wake", "join_scheduler", "join_worker", "discard"}

CallType == [at : Phases, job : Nat, next : {"none", "refuse", "clear"}, i : Nat, ptr : Nat]

Labels ==
    {"dead", "loop", "tick", "fire", "fire_wake", "pop", "check", "snapshot",
     "waiting", "asleep", "run", "release"}

ThreadType == [at : Labels, job : Nat]

Fates ==
    {"none", "calling", "armed", "queued", "running", "answered", "done",
     "refused", "discarded", "freed", "dropped"}

TypeInv ==
    /\ running \in BOOLEAN /\ work \in Seq(Nat) /\ scheduler \in Nat
    /\ workers \in [1 .. WorkerCount -> Nat]
    /\ call \in [Callers -> CallType]
    /\ th \in [Threads -> ThreadType]
    /\ fate \in [Jobs -> Fates]
    /\ cur \in Nat /\ made \in Nat

Alone(c) == \A d \in Callers \ {c} : At(d, "none")
Alive == { t \in Threads : th[t].at # "dead" }

PhaseInv(c) ==
    /\ call[c].at \in Solo => Alone(c)
    /\ At(c, "test") /\ ~running => Alone(c)
    /\ call[c].at \in {"submit", "wake", "make_scheduler", "make_worker"} => running
    /\ call[c].at \in {"set", "stop_wake", "join_scheduler", "join_worker", "discard", "clear"} => ~running
    /\ call[c].at \in {"set", "make_scheduler", "discard", "clear"} => Alive = {}
    /\ call[c].at \in {"set", "make_scheduler", "clear"} => work = <<>>
    /\ At(c, "make_worker") =>
         /\ call[c].i \in 1 .. WorkerCount
         /\ \A t \in Alive : t = scheduler \/ \E k \in 1 .. call[c].i - 1 : workers[k] = t
    /\ At(c, "join_scheduler") => call[c].ptr = scheduler
    /\ At(c, "join_worker") =>
         /\ call[c].i \in 1 .. WorkerCount /\ call[c].ptr = workers[call[c].i]
         /\ \A t \in Alive : \E k \in call[c].i .. WorkerCount : workers[k] = t

\* The engine is stopped and nobody is about to finish a stop.
AtRest == ~running /\ \A c \in Callers : call[c].at \notin Unfinished

\* Every thread that is alive is recorded where a stop looks for it.
Listed == \A t \in Alive : t = scheduler \/ \E k \in 1 .. WorkerCount : workers[k] = t

StopInv ==
    /\ \A c \in Callers : PhaseInv(c)
    /\ AtRest => Alive = {} /\ work = <<>>
    /\ Listed

\* A timer is listed before it is armed, and unlisted with its alarm.
AlarmInv ==
    /\ alarms \subseteq timers /\ timers \subseteq Jobs
    /\ \A j \in timers : fate[j] # "none"
    /\ \A c \in Callers : At(c, "arm") =>
         /\ call[c].job \in timers \ alarms
         /\ \A d \in Callers \ {c} : At(d, "arm") => call[d].job # call[c].job

IInv == TypeInv /\ StopInv /\ AlarmInv

core == <<running, work, th, scheduler, workers>>

\* A step of caller c: the other callers stay where they are.
OnlyMoves(c) == \A d \in Callers \ {c} : call'[d] = call[d]

-----------------------------------------------------------------------------
\* What the other callers may be in the middle of while a caller is in a call.
LEMMA OthersOfBusy ==
  ASSUME StopInv, NEW c \in Callers, ~At(c, "none"), NEW d \in Callers \ {c}
  PROVE  call[d].at \notin Solo /\ (At(d, "test") => running)
<1>1. PhaseInv(d)
  BY DEF StopInv
<1>2. ~Alone(d)
  BY DEF Alone
<1> QED
  BY <1>1, <1>2 DEF PhaseInv

\* And while a caller may begin one.
LEMMA OthersOfStart ==
  ASSUME MayCall, Discipline # "none", NEW d \in Callers
  PROVE  /\ call[d].at \notin Solo \cup {"test"}
         /\ ~running => At(d, "none")
  BY DEF MayCall, Starting, Stopping, Busy, Solo, At

\* The phase of another caller survives a step that keeps the core, or that
\* changes running in a phase that is alone.
LEMMA OtherPhases ==
  ASSUME StopInv, NEW c \in Callers, OnlyMoves(c), running' = running \/ Alone(c),
         NEW d \in Callers \ {c}, call[d].at \notin Solo, At(d, "test") => running
  PROVE  PhaseInv(d)'
<1>1. PhaseInv(d) /\ call'[d] = call[d]
  BY DEF StopInv, OnlyMoves
<1>2. CASE running' = running
  BY <1>1, <1>2 DEF PhaseInv, Solo, At
<1>3. CASE Alone(c)
  <2>1. call'[d].at = "none"
    BY <1>1, <1>3 DEF Alone, At
  <2> QED
    BY <2>1 DEF PhaseInv, Solo, At
<1> QED
  BY <1>2, <1>3

-----------------------------------------------------------------------------
\* The steps of the engine's threads.

ThreadTypes == th \in [Threads -> ThreadType]

\* A wake brings no thread to life.
LEMMA WakeInv ==
  ASSUME ThreadTypes, NEW to \in [Threads -> ThreadType], Wake(to)
  PROVE  /\ ThreadTypes'
         /\ \A t \in Threads : th'[t].at # "dead" => th[t].at # "dead" \/ to[t].at # "dead"
<1>1. PICK woken : th' = [t \in Threads |-> IF th[t].at = "waiting" \/ t \in woken
                                              THEN [th[t] EXCEPT !.at = "pop"] ELSE to[t]]
                   /\ \A t \in woken : t \in Threads /\ th[t].at = "asleep"
  BY DEF Wake
<1> QED
  BY <1>1 DEF ThreadTypes, ThreadType, Labels

\* A thread that takes a step is alive; it starts no thread, and leaves the
\* calls and the record of the threads alone.
LEMMA ThreadFrame ==
  ASSUME TypeInv, NEW t \in Threads, ThreadStep(t)
  PROVE  /\ UNCHANGED <<running, scheduler, workers, call>>
         /\ t \in Alive /\ Alive' \subseteq Alive
<1>1. UNCHANGED <<running, scheduler, workers, call>>
  BY DEF ThreadStep, SchedulerLoop, SchedulerRests, Alarm, Fire, FireWake, FireStopped,
         TakeJob, NoJob, CheckRunning, Snapshot, Sleep, TimedOut, Callback, Release
<1>2. t \in Alive
  BY DEF Alive, Is, ThreadStep, SchedulerLoop, SchedulerRests, Alarm, Fire, FireWake, FireStopped,
         TakeJob, NoJob, CheckRunning, Snapshot, Sleep, TimedOut, Callback, Release
<1>3. \A u \in Threads \ {t} : th'[u].at # "dead" => th[u].at # "dead"
  <2>1. CASE FireWake(t)
    <3>1. [th EXCEPT ![t].at = "tick"] \in [Threads -> ThreadType]
      BY DEF TypeInv, ThreadType, Labels
    <3>2. \A u \in Threads \ {t} : [th EXCEPT ![t].at = "tick"][u] = th[u]
      BY DEF TypeInv
    <3> QED
      BY <2>1, <3>1, <3>2, WakeInv DEF FireWake, TypeInv, ThreadTypes
  <2>2. CASE ~FireWake(t)
    <3>1. \A u \in Threads \ {t} : th'[u] = th[u]
      BY <2>2 DEF TypeInv, Moves, ThreadStep, SchedulerLoop, SchedulerRests, Alarm, Fire, FireStopped,
           TakeJob, NoJob, CheckRunning, Snapshot, Sleep, TimedOut, Callback, Release
    <3> QED
      BY <3>1
  <2> QED
    BY <2>1, <2>2
<1> QED
  BY <1>1, <1>2, <1>3 DEF Alive

\* A thread takes at most one job further.
LEMMA ThreadFates ==
  ASSUME NEW t \in Threads, ThreadStep(t)
  PROVE  \/ fate' = fate
         \/ \E f \in Fates \ {"none"} : \/ fate' = [fate EXCEPT ![th[t].job] = f]
                                       \/ fate' = [fate EXCEPT ![Head(work)] = f]
<1>1. CASE Fire(t) \/ FireStopped(t) \/ TakeJob(t) \/ Callback(t) \/ Release(t)
  BY <1>1 DEF Fates, Fire, FireStopped, TakeJob, Callback, Release
<1>2. CASE \/ SchedulerLoop(t) \/ SchedulerRests(t) \/ Alarm(t) \/ FireWake(t) \/ NoJob(t)
           \/ CheckRunning(t) \/ Snapshot(t) \/ Sleep(t) \/ TimedOut(t)
  BY <1>2 DEF jobs, SchedulerLoop, SchedulerRests, Alarm, FireWake, NoJob, CheckRunning, Snapshot, Sleep, TimedOut
<1> QED
  BY <1>1, <1>2 DEF ThreadStep

\* The types survive.
LEMMA ThreadTypeInv ==
  ASSUME TypeInv, AlarmInv, NEW t \in Threads, ThreadStep(t)
  PROVE  TypeInv'
<1>1. ThreadTypes'
  <2>1. CASE FireWake(t)
    <3>1. [th EXCEPT ![t].at = "tick"] \in [Threads -> ThreadType]
      BY DEF TypeInv, ThreadType, Labels
    <3> QED
      BY <2>1, <3>1, WakeInv DEF FireWake, TypeInv, ThreadTypes
  <2>2. CASE TakeJob(t)
    <3>1. Head(work) \in Nat
      BY <2>2 DEF TypeInv, TakeJob
    <3> QED
      BY <2>2, <3>1 DEF TakeJob, TypeInv, ThreadTypes, ThreadType, Labels
  <2>3. CASE Alarm(t)
    <3>1. PICK j \in alarms : th' = IF j \in timers THEN [th EXCEPT ![t] = [at |-> "fire", job |-> j]] ELSE th
      BY <2>3 DEF Alarm
    <3>2. j \in timers => j \in Nat
      BY DEF AlarmInv, Jobs
    <3> QED
      BY <3>1, <3>2 DEF TypeInv, ThreadTypes, ThreadType, Labels
  <2>4. CASE SchedulerLoop(t) \/ CheckRunning(t)
    <3>1. \E where \in Labels : th' = [th EXCEPT ![t].at = where]
      BY <2>4 DEF Labels, SchedulerLoop, CheckRunning, Moves
    <3> QED
      BY <3>1 DEF TypeInv, ThreadTypes, ThreadType
  <2>5. CASE \/ SchedulerRests(t) \/ NoJob(t) \/ Snapshot(t) \/ Sleep(t) \/ TimedOut(t) \/ Callback(t)
    <3>1. \E where \in Labels : th' = [th EXCEPT ![t].at = where]
      BY <2>5 DEF Labels, SchedulerRests, NoJob, Snapshot, Sleep, TimedOut, Callback, Moves
    <3> QED
      BY <3>1 DEF TypeInv, ThreadTypes, ThreadType
  <2>6. CASE Fire(t) \/ FireStopped(t) \/ Release(t)
    <3>1. \E rec \in ThreadType : th' = [th EXCEPT ![t] = rec]
      BY <2>6 DEF ThreadType, Labels, Fire, FireStopped, Release
    <3> QED
      BY <3>1 DEF TypeInv, ThreadTypes
  <2> QED
    BY <2>1, <2>2, <2>3, <2>4, <2>5, <2>6 DEF ThreadStep
<1>2. work' \in Seq(Nat)
  <2>1. CASE Fire(t)
    <3>1. th[t].job \in Nat
      BY DEF TypeInv, ThreadType, Labels
    <3> QED
      BY <2>1, <3>1 DEF Fire, TypeInv
  <2>2. CASE TakeJob(t)
    BY <2>2 DEF TakeJob, TypeInv
  <2>3. CASE ~Fire(t) /\ ~TakeJob(t)
    BY <2>3 DEF TypeInv, ThreadStep, SchedulerLoop, SchedulerRests, Alarm,
         FireWake, FireStopped, NoJob, CheckRunning, Snapshot, Sleep, TimedOut, Callback, Release
  <2> QED
    BY <2>1, <2>2, <2>3
<1>3. fate' \in [Jobs -> Fates]
  BY ThreadFates DEF TypeInv, Fates
<1>4. UNCHANGED <<cur, made>>
  BY DEF queue, ThreadStep, SchedulerLoop, SchedulerRests, Alarm, Fire, FireWake, FireStopped,
       TakeJob, NoJob, CheckRunning, Snapshot, Sleep, TimedOut, Callback, Release
<1> QED
  BY <1>1, <1>2, <1>3, <1>4, ThreadFrame DEF TypeInv, ThreadTypes

\* What a start and a stop know of the threads stays true when one takes a step.
LEMMA ThreadStopInv ==
  ASSUME TypeInv, StopInv, NEW t \in Threads, ThreadStep(t)
  PROVE  StopInv'
<1>1. /\ UNCHANGED <<running, scheduler, workers, call>>
      /\ t \in Alive /\ Alive' \subseteq Alive
  BY ThreadFrame
<1>2. ASSUME NEW c \in Callers PROVE PhaseInv(c)'
  <2>1. PhaseInv(c) /\ call'[c] = call[c]
    BY <1>1 DEF StopInv
  <2>2. Alone(c) => Alone(c)'
    BY <1>1 DEF Alone, At
  <2> QED
    BY <1>1, <2>1, <2>2 DEF PhaseInv, At
<1>3. AtRest' => Alive' = {} /\ work' = <<>>
  BY <1>1 DEF StopInv, AtRest
<1>4. Listed'
  BY <1>1 DEF StopInv, Listed
<1> QED
  BY <1>2, <1>3, <1>4 DEF StopInv

\* An alarm and its timer go together.
LEMMA ThreadAlarmInv ==
  ASSUME TypeInv, AlarmInv, NEW t \in Threads, ThreadStep(t)
  PROVE  AlarmInv'
<1>1. call' = call
  BY ThreadFrame
<1>2. alarms' \subseteq timers' /\ timers' \subseteq Jobs /\ timers' \subseteq timers
  BY DEF AlarmInv, ThreadStep, SchedulerLoop, SchedulerRests, Alarm, Fire,
       FireWake, FireStopped, TakeJob, NoJob, CheckRunning, Snapshot, Sleep, TimedOut, Callback, Release
<1>3. \A j \in timers' : fate'[j] # "none"
  BY <1>2, ThreadFates DEF AlarmInv, TypeInv
<1>4. timers \ alarms \subseteq timers' \ alarms'
  BY DEF AlarmInv, ThreadStep, SchedulerLoop, SchedulerRests, Alarm, Fire,
       FireWake, FireStopped, TakeJob, NoJob, CheckRunning, Snapshot, Sleep, TimedOut, Callback, Release
<1> QED
  BY <1>1, <1>2, <1>3, <1>4 DEF AlarmInv, At

-----------------------------------------------------------------------------
\* The steps of the callers.

\* Only caller c moved: for an EXCEPT at c.
LEMMA MovesOne ==
  ASSUME TypeInv, NEW c \in Callers, NEW rec \in CallType, call' = [call EXCEPT ![c] = rec]
  PROVE  OnlyMoves(c) /\ call'[c] = rec /\ call' \in [Callers -> CallType]
  BY DEF TypeInv, OnlyMoves

\* A call that begins changes nothing a stop relies on.
LEMMA StartStopInv ==
  ASSUME StopInv, MayCall, Discipline # "none", NEW c \in Callers, At(c, "none"), OnlyMoves(c),
         UNCHANGED core, call'[c].at \in {"test", "arm", "hold"}
  PROVE  StopInv'
<1>1. \A d \in Callers : call[d].at \notin Solo \cup {"test"} /\ (~running => At(d, "none"))
  BY OthersOfStart
<1>2. ASSUME NEW d \in Callers \ {c} PROVE PhaseInv(d)'
  BY <1>1, OtherPhases DEF core, At
<1>3. ~running => Alone(c)'
  BY <1>1 DEF Alone, OnlyMoves, At
<1>4. PhaseInv(c)'
  BY <1>3 DEF PhaseInv, Solo, At, core
<1>5. Alive' = Alive
  BY DEF Alive, core
<1>6. AtRest' => AtRest
  BY DEF AtRest, core, OnlyMoves, Unfinished, At
<1>7. Listed'
  BY <1>5 DEF StopInv, Listed, core
<1> QED
  BY <1>2, <1>4, <1>5, <1>6, <1>7 DEF StopInv, core

\* What is left to show of a step of a call under way.
LEMMA StepStopInv ==
  ASSUME StopInv, NEW c \in Callers, ~At(c, "none"), OnlyMoves(c), running' = running \/ Alone(c),
         PhaseInv(c)', AtRest' => Alive' = {} /\ work' = <<>>, Listed'
  PROVE  StopInv'
<1>1. ASSUME NEW d \in Callers \ {c} PROVE PhaseInv(d)'
  BY OthersOfBusy, OtherPhases
<1> QED
  BY <1>1 DEF StopInv

\* The same for one that keeps the core.
LEMMA KeepStopInv ==
  ASSUME StopInv, NEW c \in Callers, ~At(c, "none"), OnlyMoves(c), UNCHANGED core,
         call[c].at \notin Unfinished, PhaseInv(c)'
  PROVE  StopInv'
<1>1. Alive' = Alive
  BY DEF Alive, core
<1>2. AtRest' => AtRest
  BY DEF AtRest, core, OnlyMoves
<1>3. Listed'
  BY <1>1 DEF StopInv, Listed, core
<1> QED
  BY <1>1, <1>2, <1>3, StepStopInv DEF StopInv, core

\* A caller in a solo phase that moves to another stays alone.
LEMMA StaysAlone ==
  ASSUME NEW c \in Callers, Alone(c), OnlyMoves(c)
  PROVE  Alone(c)'
  BY DEF Alone, OnlyMoves, At

\* Steps that arm and disarm nothing.
LEMMA KeepAlarmInv ==
  ASSUME AlarmInv, NEW c \in Callers, OnlyMoves(c), UNCHANGED <<timers, alarms>>,
         call'[c].at # "arm", \A j \in Jobs : fate[j] # "none" => fate'[j] # "none"
  PROVE  AlarmInv'
  BY DEF AlarmInv, OnlyMoves, At

-----------------------------------------------------------------------------
\* Calls that begin.

\* emq_runtime_start begins.
LEMMA StartInv ==
  ASSUME IInv, Discipline # "none", NEW c \in Callers, Start(c)
  PROVE  IInv'
<1> DEFINE rec == [call[c] EXCEPT !.at = "test"]
<1>1. rec \in CallType
  BY DEF IInv, TypeInv, CallType, Phases
<1>2. call' = [call EXCEPT ![c] = rec]
  BY DEF Start, Goto, IInv, TypeInv
<1>3. OnlyMoves(c) /\ call'[c].at = "test" /\ call' \in [Callers -> CallType]
  BY <1>1, <1>2, MovesOne DEF IInv, TypeInv, CallType
<1>4. UNCHANGED <<core, timers, alarms, fate, cur, made>> /\ At(c, "none") /\ MayCall
  BY DEF Start, core, engine, jobs, queue
<1> QED
  BY <1>3, <1>4, StartStopInv, KeepAlarmInv DEF IInv, TypeInv, core

\* An asynchronous call begins with a job of its own.
LEMMA AsyncCallInv ==
  ASSUME IInv, Discipline # "none", NEW c \in Callers, AsyncCall(c)
  PROVE  IInv'
<1>1. PICK j \in Jobs : /\ fate' = [fate EXCEPT ![j] = "calling"]
                        /\ call' = [call EXCEPT ![c].at = "test", ![c].job = j]
  BY DEF AsyncCall
<1> DEFINE rec == [call[c] EXCEPT !.at = "test", !.job = j]
<1>2. rec \in CallType
  <2>1. j \in Nat
    BY <1>1, EngineAssumption DEF Jobs
  <2> QED
    BY <2>1 DEF IInv, TypeInv, CallType, Phases
<1>3. call' = [call EXCEPT ![c] = rec]
  BY <1>1 DEF IInv, TypeInv, CallType
<1>4. OnlyMoves(c) /\ call'[c].at = "test" /\ call' \in [Callers -> CallType]
  BY <1>2, <1>3, MovesOne DEF IInv, TypeInv, CallType
<1>5. UNCHANGED <<core, timers, alarms, cur, made>> /\ At(c, "none") /\ MayCall
  BY DEF AsyncCall, core, engine
<1>6. fate' \in [Jobs -> Fates] /\ \A k \in Jobs : fate[k] # "none" => fate'[k] # "none"
  BY <1>1 DEF IInv, TypeInv, Fates
<1> QED
  BY <1>4, <1>5, <1>6, StartStopInv, KeepAlarmInv DEF IInv, TypeInv, core

\* The timer is new, so nobody else is about to arm it.
LEMMA ScheduleInv ==
  ASSUME IInv, Discipline # "none", NEW c \in Callers, Schedule(c)
  PROVE  IInv'
<1>1. PICK j \in Jobs : /\ Free(j) /\ fate' = [fate EXCEPT ![j] = "armed"]
                        /\ timers' = timers \cup {j}
                        /\ call' = [call EXCEPT ![c].at = "arm", ![c].job = j]
  BY DEF Schedule
<1> DEFINE rec == [call[c] EXCEPT !.at = "arm", !.job = j]
<1>2. rec \in CallType
  <2>1. j \in Nat
    BY <1>1, EngineAssumption DEF Jobs
  <2> QED
    BY <2>1 DEF IInv, TypeInv, CallType, Phases
<1>3. call' = [call EXCEPT ![c] = rec]
  BY <1>1 DEF IInv, TypeInv, CallType
<1>4. /\ OnlyMoves(c) /\ call'[c].at = "arm" /\ call'[c].job = j /\ call' \in [Callers -> CallType]
  BY <1>2, <1>3, MovesOne DEF IInv, TypeInv, CallType
<1>5. UNCHANGED <<core, alarms, cur, made>> /\ At(c, "none") /\ MayCall
  BY DEF Schedule, core, queue
<1>6. fate' \in [Jobs -> Fates] /\ \A k \in Jobs : fate[k] # "none" => fate'[k] # "none"
  BY <1>1 DEF IInv, TypeInv, Fates
<1>7. j \notin timers /\ fate'[j] # "none"
  BY <1>1 DEF Free, IInv, AlarmInv, TypeInv
<1>8. AlarmInv'
  BY <1>1, <1>4, <1>5, <1>6, <1>7 DEF IInv, AlarmInv, OnlyMoves, At
<1> QED
  BY <1>4, <1>5, <1>6, <1>8, StartStopInv DEF IInv, TypeInv, core

\* A handle that is being made concerns no thread and no timer.
LEMMA HandleInv ==
  ASSUME IInv, Discipline # "none", NEW c \in Callers, CreateQueue(c) \/ OpenQueue(c)
  PROVE  IInv'
<1>1. PICK d \in Nat : call' = [call EXCEPT ![c].at = "hold", ![c].i = d]
  <2>1. cur \in Nat /\ made + 1 \in Nat
    BY DEF IInv, TypeInv
  <2>2. \/ call' = [call EXCEPT ![c].at = "hold", ![c].i = cur]
        \/ call' = [call EXCEPT ![c].at = "hold", ![c].i = made + 1]
    BY DEF CreateQueue, OpenQueue
  <2> QED
    BY <2>1, <2>2
<1> DEFINE rec == [call[c] EXCEPT !.at = "hold", !.i = d]
<1>2. rec \in CallType
  BY DEF IInv, TypeInv, CallType, Phases
<1>3. call' = [call EXCEPT ![c] = rec]
  BY <1>1 DEF IInv, TypeInv, CallType
<1>4. OnlyMoves(c) /\ call'[c].at = "hold" /\ call' \in [Callers -> CallType]
  BY <1>2, <1>3, MovesOne DEF IInv, TypeInv, CallType
<1>5. UNCHANGED <<core, timers, alarms, fate>> /\ At(c, "none") /\ MayCall
  BY DEF CreateQueue, OpenQueue, core, engine, jobs
<1>6. cur' \in Nat /\ made' \in Nat
  BY DEF CreateQueue, OpenQueue, queue, IInv, TypeInv
<1> QED
  BY <1>4, <1>5, <1>6, StartStopInv, KeepAlarmInv DEF IInv, TypeInv, core

\* A stop begins alone.
LEMMA StopCallInv ==
  ASSUME IInv, Discipline # "none", NEW c \in Callers, NEW next \in {"none", "clear"}, Stop(c, next)
  PROVE  IInv'
<1> DEFINE rec == [call[c] EXCEPT !.at = "stop", !.next = next]
<1>1. rec \in CallType
  BY DEF IInv, TypeInv, CallType, Phases
<1>2. call' = [call EXCEPT ![c] = rec]
  BY DEF Stop, IInv, TypeInv, CallType
<1>3. OnlyMoves(c) /\ call'[c].at = "stop" /\ call' \in [Callers -> CallType]
  BY <1>1, <1>2, MovesOne DEF IInv, TypeInv, CallType
<1>4. UNCHANGED <<core, timers, alarms, fate, cur, made>> /\ At(c, "none") /\ Busy = {}
  BY DEF Stop, MayStop, core, engine, jobs, queue
<1>5. \A d \in Callers : At(d, "none")
  BY <1>4 DEF Busy, At
<1>6. ASSUME NEW d \in Callers \ {c} PROVE PhaseInv(d)'
  BY <1>3, <1>4, <1>5, OtherPhases DEF IInv, core, At, Solo
<1>7. Alone(c)' /\ Alive' = Alive
  BY <1>3, <1>4, <1>5 DEF Alone, OnlyMoves, At, Alive, core
<1>8. PhaseInv(c)'
  BY <1>3, <1>7 DEF PhaseInv, At
<1>9. ~AtRest'
  BY <1>3 DEF AtRest, Unfinished
<1>10. Listed'
  BY <1>4, <1>7 DEF IInv, StopInv, Listed, core
<1>11. StopInv'
  BY <1>6, <1>8, <1>9, <1>10 DEF StopInv
<1> QED
  BY <1>3, <1>4, <1>11, KeepAlarmInv DEF IInv, TypeInv, core

-----------------------------------------------------------------------------
\* Calls that go on.  In each, what the step does to the record of caller c
\* comes first, then what it means for the phase it reaches.

\* A start looks whether the engine runs.
LEMMA StartTestInv ==
  ASSUME IInv, NEW c \in Callers, StartTest(c)
  PROVE  IInv'
<1> DEFINE rec == [call[c] EXCEPT !.at = IF running THEN "submit" ELSE "set"]
<1>1. rec \in CallType
  BY DEF IInv, TypeInv, CallType, Phases
<1>2. call' = [call EXCEPT ![c] = rec]
  BY DEF StartTest, Goto, IInv, TypeInv
<1>3. OnlyMoves(c) /\ call'[c].at = (IF running THEN "submit" ELSE "set") /\ call' \in [Callers -> CallType]
  BY <1>1, <1>2, MovesOne DEF IInv, TypeInv, CallType
<1>4. UNCHANGED <<core, timers, alarms, fate, cur, made>> /\ At(c, "test")
  BY DEF StartTest, core, engine, jobs, queue
<1>5. ~running => Alone(c) /\ Alive = {} /\ work = <<>>
  <2>1. ~running => Alone(c)
    BY <1>4 DEF IInv, StopInv, PhaseInv
  <2>2. ~running => AtRest
    BY <1>4, <2>1 DEF Alone, AtRest, Unfinished, At
  <2> QED
    BY <2>1, <2>2 DEF IInv, StopInv
<1>6. PhaseInv(c)'
  BY <1>3, <1>4, <1>5, StaysAlone DEF PhaseInv, Solo, At, core, Alive
<1>7. StopInv'
  BY <1>3, <1>4, <1>6, KeepStopInv DEF IInv, At, Unfinished
<1> QED
  BY <1>3, <1>4, <1>7, KeepAlarmInv DEF IInv, TypeInv, core

\* It says that it runs before any thread is made.
LEMMA StartSetInv ==
  ASSUME IInv, NEW c \in Callers, StartSet(c)
  PROVE  IInv'
<1> DEFINE rec == [call[c] EXCEPT !.at = "make_scheduler"]
<1>1. rec \in CallType
  BY DEF IInv, TypeInv, CallType, Phases
<1>2. call' = [call EXCEPT ![c] = rec]
  BY DEF StartSet, Goto, IInv, TypeInv
<1>3. OnlyMoves(c) /\ call'[c].at = "make_scheduler" /\ call' \in [Callers -> CallType]
  BY <1>1, <1>2, MovesOne DEF IInv, TypeInv, CallType
<1>4. /\ UNCHANGED <<work, th, scheduler, workers, timers, alarms, fate, cur, made>>
      /\ running' = TRUE /\ At(c, "set")
  BY DEF StartSet, jobs, queue
<1>5. Alone(c) /\ Alive = {} /\ work = <<>>
  BY <1>4 DEF IInv, StopInv, PhaseInv, Solo, At
<1>6. PhaseInv(c)' /\ Listed' /\ ~AtRest'
  BY <1>3, <1>4, <1>5, StaysAlone DEF PhaseInv, Solo, At, Alive, Listed, AtRest
<1>7. StopInv'
  BY <1>3, <1>4, <1>5, <1>6, StepStopInv DEF IInv, At
<1> QED
  BY <1>3, <1>4, <1>7, KeepAlarmInv DEF IInv, TypeInv

\* The only thread alive is the scheduler.
LEMMA MakeSchedulerInv ==
  ASSUME IInv, NEW c \in Callers, MakeScheduler(c)
  PROVE  IInv'
<1>1. PICK t \in Threads : th' = [th EXCEPT ![t].at = "loop"] /\ scheduler' = t
  BY DEF MakeScheduler
<1> DEFINE rec == [call[c] EXCEPT !.at = "make_worker", !.i = 1]
<1>2. rec \in CallType
  BY DEF IInv, TypeInv, CallType, Phases
<1>3. call' = [call EXCEPT ![c] = rec]
  BY DEF MakeScheduler, IInv, TypeInv
<1>4. /\ OnlyMoves(c) /\ call'[c].at = "make_worker" /\ call'[c].i = 1
      /\ call' \in [Callers -> CallType]
  BY <1>2, <1>3, MovesOne DEF IInv, TypeInv, CallType
<1>5. /\ UNCHANGED <<running, work, workers, timers, alarms, fate, cur, made>>
      /\ At(c, "make_scheduler")
  BY DEF MakeScheduler, jobs, queue
<1>6. Alone(c) /\ Alive = {} /\ running
  BY <1>5 DEF IInv, StopInv, PhaseInv, Solo, At
<1>7. Alive' \subseteq {t} /\ th' \in [Threads -> ThreadType] /\ scheduler' \in Nat
  <2>1. t \in Nat
    BY EngineAssumption DEF Threads
  <2>2. th' \in [Threads -> ThreadType]
    BY <1>1 DEF IInv, TypeInv, ThreadType, Labels
  <2>3. Alive' \subseteq {t}
    BY <1>1, <1>6 DEF Alive, IInv, TypeInv
  <2> QED
    BY <1>1, <2>1, <2>2, <2>3
<1>8. 1 \in 1 .. WorkerCount
  BY EngineAssumption
<1>9. PhaseInv(c)' /\ Listed' /\ ~AtRest'
  BY <1>1, <1>4, <1>5, <1>6, <1>7, <1>8, StaysAlone DEF PhaseInv, Solo, At, Listed, AtRest
<1>10. StopInv'
  BY <1>4, <1>5, <1>9, StepStopInv DEF IInv, At
<1> QED
  BY <1>4, <1>5, <1>7, <1>10, KeepAlarmInv DEF IInv, TypeInv

\* The start gives up with nothing made.
LEMMA MakeSchedulerFailsInv ==
  ASSUME IInv, NEW c \in Callers, MakeSchedulerFails(c)
  PROVE  IInv'
<1> DEFINE rec == [call[c] EXCEPT !.at = "refuse"]
<1>1. rec \in CallType
  BY DEF IInv, TypeInv, CallType, Phases
<1>2. call' = [call EXCEPT ![c] = rec]
  BY DEF MakeSchedulerFails, Goto, IInv, TypeInv
<1>3. OnlyMoves(c) /\ call'[c].at = "refuse" /\ call' \in [Callers -> CallType]
  BY <1>1, <1>2, MovesOne DEF IInv, TypeInv, CallType
<1>4. /\ UNCHANGED <<work, th, scheduler, workers, timers, alarms, fate, cur, made>>
      /\ running' = FALSE /\ At(c, "make_scheduler")
  BY DEF MakeSchedulerFails, jobs, queue
<1>5. Alone(c) /\ Alive' = {} /\ work' = <<>>
  BY <1>4 DEF IInv, StopInv, PhaseInv, Solo, At, Alive
<1>6. PhaseInv(c)' /\ Listed'
  BY <1>3, <1>5 DEF PhaseInv, Solo, At, Listed
<1>7. StopInv'
  BY <1>3, <1>4, <1>5, <1>6, StepStopInv DEF IInv, At
<1> QED
  BY <1>3, <1>4, <1>7, KeepAlarmInv DEF IInv, TypeInv

\* The threads alive are the scheduler and the workers made so far.
LEMMA MakeWorkerInv ==
  ASSUME IInv, NEW c \in Callers, MakeWorker(c)
  PROVE  IInv'
<1> DEFINE n == call[c].i
           rec == IF n < WorkerCount THEN [call[c] EXCEPT !.i = n + 1]
                  ELSE [call[c] EXCEPT !.at = "submit", !.i = 0]
<1>1. PICK t \in Threads : /\ Unused(t) /\ th' = [th EXCEPT ![t].at = "pop"]
                           /\ workers' = [workers EXCEPT ![n] = t]
  BY DEF MakeWorker, NewThread
<1>2. rec \in CallType
  <2>1. n \in Nat /\ call[c] \in CallType
    BY DEF IInv, TypeInv, CallType
  <2>2. [call[c] EXCEPT !.i = n + 1] \in CallType
    BY <2>1 DEF CallType
  <2>3. [call[c] EXCEPT !.at = "submit", !.i = 0] \in CallType
    BY <2>1 DEF CallType, Phases
  <2> QED
    BY <2>2, <2>3
<1>3. call' = [call EXCEPT ![c] = rec]
  BY DEF MakeWorker, IInv, TypeInv, CallType
<1>4. OnlyMoves(c) /\ call'[c] = rec /\ call' \in [Callers -> CallType]
  BY <1>2, <1>3, MovesOne DEF IInv, TypeInv
<1>5. /\ UNCHANGED <<running, work, scheduler, timers, alarms, fate, cur, made>>
      /\ At(c, "make_worker")
  BY DEF MakeWorker, jobs, queue
<1>6. /\ Alone(c) /\ running /\ n \in 1 .. WorkerCount
      /\ \A u \in Alive : u = scheduler \/ \E k \in 1 .. n - 1 : workers[k] = u
  BY <1>5 DEF IInv, StopInv, PhaseInv, Solo, At
<1>7. workers' \in [1 .. WorkerCount -> Nat] /\ th' \in [Threads -> ThreadType]
  <2>1. t \in Nat
    BY EngineAssumption DEF Threads
  <2> QED
    BY <1>1, <2>1 DEF IInv, TypeInv, ThreadType, Labels
<1>8. Alive' \subseteq Alive \cup {t}
  BY <1>1 DEF Alive, IInv, TypeInv
<1>9. \A u \in Alive' : u = scheduler \/ \E k \in 1 .. n : workers'[k] = u
  <2> SUFFICES ASSUME NEW u \in Alive', u # scheduler
               PROVE  \E k \in 1 .. n : workers'[k] = u
    OBVIOUS
  <2>0. n \in Nat /\ n >= 1 /\ n <= WorkerCount /\ WorkerCount \in Nat
    BY <1>6, EngineAssumption
  <2>1. CASE u = t
    <3>1. workers'[n] = u /\ n \in 1 .. n
      BY <1>1, <1>6, <2>0, <2>1 DEF IInv, TypeInv
    <3> QED
      BY <3>1
  <2>2. CASE u # t
    <3>1. PICK k \in 1 .. n - 1 : workers[k] = u
      BY <1>6, <1>8, <2>2
    <3>2. k \in 1 .. n /\ workers'[k] = workers[k]
      BY <1>1, <2>0, <3>1 DEF IInv, TypeInv
    <3> QED
      BY <3>1, <3>2
  <2> QED
    BY <2>1, <2>2
<1>10. Listed'
  <2>1. \A k \in 1 .. n : k \in 1 .. WorkerCount
    BY <1>6, EngineAssumption
  <2> QED
    BY <1>5, <1>9, <2>1 DEF Listed
<1>11. PhaseInv(c)'
  <2>1. Alone(c)'
    BY <1>4, <1>6, StaysAlone
  <2>2. CASE n < WorkerCount
    <3>1. call'[c].at = "make_worker" /\ call'[c].i = n + 1
      BY <1>4, <1>5, <2>2 DEF At, IInv, TypeInv, CallType
    <3>2. n + 1 \in 1 .. WorkerCount /\ (n + 1) - 1 = n
      BY <1>6, <2>2, EngineAssumption
    <3> QED
      BY <1>5, <1>6, <1>9, <2>1, <3>1, <3>2 DEF PhaseInv, Solo, At
  <2>3. CASE ~(n < WorkerCount)
    <3>1. call'[c].at = "submit"
      BY <1>4, <2>3 DEF IInv, TypeInv, CallType
    <3> QED
      BY <1>5, <1>6, <3>1 DEF PhaseInv, Solo, At
  <2> QED
    BY <2>2, <2>3
<1>12. StopInv'
  BY <1>5, <1>4, <1>6, <1>10, <1>11, StepStopInv DEF IInv, At, AtRest
<1>13. call'[c].at # "arm"
  BY <1>4, <1>5 DEF IInv, TypeInv, CallType, At
<1> QED
  BY <1>4, <1>5, <1>7, <1>12, <1>13, KeepAlarmInv DEF IInv, TypeInv

\* Not all workers are made: the start turns into a stop, still alone.
LEMMA MakeWorkerFailsInv ==
  ASSUME IInv, NEW c \in Callers, MakeWorkerFails(c)
  PROVE  IInv'
<1> DEFINE rec == [call[c] EXCEPT !.at = "stop", !.i = 0, !.next = "refuse"]
<1>1. rec \in CallType
  BY DEF IInv, TypeInv, CallType, Phases
<1>2. call' = [call EXCEPT ![c] = rec]
  BY DEF MakeWorkerFails, IInv, TypeInv, CallType
<1>3. OnlyMoves(c) /\ call'[c].at = "stop" /\ call' \in [Callers -> CallType]
  BY <1>1, <1>2, MovesOne DEF IInv, TypeInv, CallType
<1>4. UNCHANGED <<core, timers, alarms, fate, cur, made>> /\ At(c, "make_worker")
  BY DEF MakeWorkerFails, core, engine, jobs, queue
<1>5. Alone(c)
  BY <1>4 DEF IInv, StopInv, PhaseInv, Solo, At
<1>6. PhaseInv(c)'
  BY <1>3, <1>5, StaysAlone DEF PhaseInv, Solo, At
<1>7. StopInv'
  BY <1>3, <1>4, <1>6, KeepStopInv DEF IInv, At, Unfinished
<1> QED
  BY <1>3, <1>4, <1>7, KeepAlarmInv DEF IInv, TypeInv, core

\* A stop says so first.
LEMMA StopClearInv ==
  ASSUME IInv, NEW c \in Callers, StopClear(c)
  PROVE  IInv'
<1> DEFINE rec == [call[c] EXCEPT !.at = "stop_wake"]
<1>1. rec \in CallType
  BY DEF IInv, TypeInv, CallType, Phases
<1>2. call' = [call EXCEPT ![c] = rec]
  BY DEF StopClear, Goto, IInv, TypeInv
<1>3. OnlyMoves(c) /\ call'[c].at = "stop_wake" /\ call' \in [Callers -> CallType]
  BY <1>1, <1>2, MovesOne DEF IInv, TypeInv, CallType
<1>4. /\ UNCHANGED <<work, th, scheduler, workers, timers, alarms, fate, cur, made>>
      /\ running' = FALSE /\ At(c, "stop")
  BY DEF StopClear, jobs, queue
<1>5. Alone(c)
  BY <1>4 DEF IInv, StopInv, PhaseInv, Solo, At
<1>6. PhaseInv(c)' /\ Listed' /\ ~AtRest'
  BY <1>3, <1>4, <1>5, StaysAlone DEF IInv, StopInv, PhaseInv, Solo, At, Alive, Listed, AtRest, Unfinished
<1>7. StopInv'
  BY <1>3, <1>4, <1>5, <1>6, StepStopInv DEF IInv, At
<1> QED
  BY <1>3, <1>4, <1>7, KeepAlarmInv DEF IInv, TypeInv

\* It wakes the sleepers and looks up the scheduler it will wait for.
LEMMA StopWakeInv ==
  ASSUME IInv, NEW c \in Callers, StopWake(c)
  PROVE  IInv'
<1> DEFINE rec == [call[c] EXCEPT !.at = "join_scheduler", !.ptr = scheduler]
<1>1. rec \in CallType
  BY DEF IInv, TypeInv, CallType, Phases
<1>2. call' = [call EXCEPT ![c] = rec]
  BY DEF StopWake, IInv, TypeInv, CallType
<1>3. /\ OnlyMoves(c) /\ call'[c].at = "join_scheduler" /\ call'[c].ptr = scheduler
      /\ call' \in [Callers -> CallType]
  BY <1>1, <1>2, MovesOne DEF IInv, TypeInv, CallType
<1>4. /\ UNCHANGED <<running, work, scheduler, workers, timers, alarms, fate, cur, made>>
      /\ At(c, "stop_wake")
  BY DEF StopWake, jobs, queue
<1>5. Alone(c) /\ ~running
  BY <1>4 DEF IInv, StopInv, PhaseInv, Solo, At
<1>6. th' \in [Threads -> ThreadType] /\ Alive' \subseteq Alive
  BY WakeInv DEF StopWake, IInv, TypeInv, ThreadTypes, Alive
<1>7. PhaseInv(c)' /\ Listed' /\ ~AtRest'
  BY <1>3, <1>4, <1>5, <1>6, StaysAlone DEF IInv, StopInv, PhaseInv, Solo, At, Listed, AtRest, Unfinished
<1>8. StopInv'
  BY <1>3, <1>4, <1>7, StepStopInv DEF IInv, At
<1> QED
  BY <1>3, <1>4, <1>6, <1>8, KeepAlarmInv DEF IInv, TypeInv

\* The scheduler joined, the threads alive are workers.
LEMMA JoinSchedulerInv ==
  ASSUME IInv, NEW c \in Callers, JoinScheduler(c)
  PROVE  IInv'
<1> DEFINE rec == [call[c] EXCEPT !.at = "join_worker", !.i = 1, !.ptr = workers[1]]
<1>0. WorkerCount \in Nat /\ 1 \in 1 .. WorkerCount
  BY EngineAssumption
<1>1. rec \in CallType
  BY <1>0 DEF IInv, TypeInv, CallType, Phases
<1>2. call' = [call EXCEPT ![c] = rec]
  BY DEF JoinScheduler, IInv, TypeInv, CallType
<1>3. /\ OnlyMoves(c) /\ call'[c].at = "join_worker" /\ call'[c].i = 1 /\ call'[c].ptr = workers[1]
      /\ call' \in [Callers -> CallType]
  BY <1>1, <1>2, MovesOne DEF IInv, TypeInv, CallType
<1>4. /\ UNCHANGED <<running, work, th, workers, timers, alarms, fate, cur, made>>
      /\ scheduler' = 0 /\ At(c, "join_scheduler") /\ Joined(c)
  BY DEF JoinScheduler, jobs, queue
<1>5. Alone(c) /\ ~running /\ call[c].ptr = scheduler
  BY <1>4 DEF IInv, StopInv, PhaseInv, Solo, At
<1>6. scheduler \notin Alive
  <2>1. 0 \notin Threads
    BY DEF Threads
  <2> QED
    BY <1>4, <1>5, <2>1 DEF Joined, Alive
<1>7. \A t \in Alive' : \E k \in 1 .. WorkerCount : workers'[k] = t
  BY <1>4, <1>6 DEF IInv, StopInv, Listed, Alive
<1>8. PhaseInv(c)' /\ Listed' /\ ~AtRest'
  BY <1>0, <1>3, <1>4, <1>5, <1>7, StaysAlone DEF PhaseInv, Solo, At, Listed, AtRest, Unfinished
<1>9. StopInv'
  BY <1>3, <1>4, <1>8, StepStopInv DEF IInv, At
<1> QED
  BY <1>3, <1>4, <1>9, KeepAlarmInv DEF IInv, TypeInv

\* The last worker joined, no thread is alive.
LEMMA JoinWorkerInv ==
  ASSUME IInv, NEW c \in Callers, JoinWorker(c)
  PROVE  IInv'
<1> DEFINE n == call[c].i
           rec == IF n < WorkerCount THEN [call[c] EXCEPT !.i = n + 1, !.ptr = workers[n + 1]]
                  ELSE [call[c] EXCEPT !.at = "discard", !.i = 0, !.ptr = 0]
<1>1. /\ UNCHANGED <<running, work, th, scheduler, timers, alarms, fate, cur, made>>
      /\ workers' = [workers EXCEPT ![n] = 0] /\ At(c, "join_worker") /\ Joined(c)
  BY DEF JoinWorker, jobs, queue
<1>2. /\ Alone(c) /\ ~running /\ n \in 1 .. WorkerCount /\ call[c].ptr = workers[n]
      /\ \A t \in Alive : \E k \in n .. WorkerCount : workers[k] = t
  BY <1>1 DEF IInv, StopInv, PhaseInv, Solo, At
<1>3. n \in Nat /\ n >= 1 /\ n <= WorkerCount /\ WorkerCount \in Nat
  BY <1>2, EngineAssumption
<1>4. rec \in CallType
  <2>1. call[c] \in CallType
    BY DEF IInv, TypeInv
  <2>2. CASE n < WorkerCount
    <3>1. workers[n + 1] \in Nat
      BY <1>3, <2>2 DEF IInv, TypeInv
    <3>2. n + 1 \in Nat
      BY <1>3
    <3>3. \A i, p \in Nat : [call[c] EXCEPT !.i = i, !.ptr = p] \in CallType
      BY <2>1 DEF CallType
    <3>4. [call[c] EXCEPT !.i = n + 1, !.ptr = workers[n + 1]] \in CallType
      BY <3>1, <3>2, <3>3
    <3> QED
      BY <2>2, <3>4
  <2>3. CASE ~(n < WorkerCount)
    <3>1. [call[c] EXCEPT !.at = "discard", !.i = 0, !.ptr = 0] \in CallType
      BY <2>1 DEF CallType, Phases
    <3> QED
      BY <2>3, <3>1
  <2> QED
    BY <2>2, <2>3
<1>5. call' = [call EXCEPT ![c] = rec]
  BY DEF JoinWorker, IInv, TypeInv, CallType
<1>6. OnlyMoves(c) /\ call'[c] = rec /\ call' \in [Callers -> CallType]
  BY <1>4, <1>5, MovesOne DEF IInv, TypeInv
<1>7. workers[n] \notin Alive
  <2>1. 0 \notin Threads
    BY DEF Threads
  <2> QED
    BY <1>1, <1>2, <2>1 DEF Joined, Alive
<1>8. \A t \in Alive' : \E k \in n + 1 .. WorkerCount : workers'[k] = t
  <2> SUFFICES ASSUME NEW t \in Alive PROVE \E k \in n + 1 .. WorkerCount : workers'[k] = t
    BY <1>1 DEF Alive
  <2>1. PICK k \in n .. WorkerCount : workers[k] = t
    BY <1>2
  <2>2. k \in n + 1 .. WorkerCount /\ workers'[k] = workers[k]
    BY <1>1, <1>3, <1>7, <2>1 DEF IInv, TypeInv
  <2> QED
    BY <2>1, <2>2
<1>9. Listed' /\ workers' \in [1 .. WorkerCount -> Nat]
  <2>1. \A k \in n + 1 .. WorkerCount : k \in 1 .. WorkerCount
    BY <1>3
  <2> QED
    BY <1>1, <1>8, <2>1 DEF Listed, IInv, TypeInv
<1>10. Alone(c)'
  BY <1>2, <1>6, StaysAlone
<1>11. PhaseInv(c)' /\ ~AtRest' /\ call'[c].at # "arm"
  <2>1. CASE n < WorkerCount
    <3>1. call'[c].at = "join_worker" /\ call'[c].i = n + 1 /\ call'[c].ptr = workers[n + 1]
      BY <1>1, <1>6, <2>1 DEF At, IInv, TypeInv, CallType
    <3>2. n + 1 \in 1 .. WorkerCount /\ workers'[n + 1] = workers[n + 1]
      BY <1>1, <1>3, <2>1 DEF IInv, TypeInv
    <3> QED
      BY <1>1, <1>2, <1>8, <1>10, <3>1, <3>2 DEF PhaseInv, Solo, At, AtRest, Unfinished
  <2>2. CASE ~(n < WorkerCount)
    <3>1. call'[c].at = "discard"
      BY <1>6, <2>2 DEF IInv, TypeInv, CallType
    <3>2. Alive' = {}
      <4>1. ~\E k \in n + 1 .. WorkerCount : TRUE
        BY <1>3, <2>2
      <4> QED
        BY <1>8, <4>1
    <3> QED
      BY <1>1, <1>2, <1>10, <3>1, <3>2 DEF PhaseInv, Solo, At, AtRest, Unfinished
  <2> QED
    BY <2>1, <2>2
<1>12. StopInv'
  BY <1>1, <1>6, <1>9, <1>11, StepStopInv DEF IInv, At
<1> QED
  BY <1>1, <1>6, <1>9, <1>11, <1>12, KeepAlarmInv DEF IInv, TypeInv

\* The jobs left over are thrown away one by one.
LEMMA DiscardInv ==
  ASSUME IInv, NEW c \in Callers, Discard(c)
  PROVE  IInv'
<1>1. /\ UNCHANGED <<running, th, scheduler, workers, timers, alarms, call, cur, made>>
      /\ work' = Tail(work) /\ work # <<>> /\ At(c, "discard")
      /\ fate' = [fate EXCEPT ![Head(work)] = "discarded"]
  BY DEF Discard, queue
<1>2. work' \in Seq(Nat) /\ fate' \in [Jobs -> Fates]
  <2>1. work' \in Seq(Nat)
    BY <1>1 DEF IInv, TypeInv
  <2>2. fate' \in [Jobs -> Fates]
    BY <1>1 DEF IInv, TypeInv, Fates
  <2> QED
    BY <2>1, <2>2
<1>3. \A j \in Jobs : fate[j] # "none" => fate'[j] # "none"
  BY <1>1 DEF IInv, TypeInv
<1>4. OnlyMoves(c) /\ call'[c].at = "discard"
  BY <1>1 DEF OnlyMoves, At
<1>5. PhaseInv(c)' /\ Listed' /\ ~AtRest'
  BY <1>1 DEF IInv, StopInv, PhaseInv, Solo, At, Alone, Alive, Listed, AtRest, Unfinished
<1>6. StopInv'
  BY <1>1, <1>4, <1>5, StepStopInv DEF IInv, At
<1> QED
  BY <1>1, <1>2, <1>3, <1>4, <1>6, KeepAlarmInv DEF IInv, TypeInv

\* None is left: the engine is stopped, and the stop is through.
LEMMA DiscardedInv ==
  ASSUME IInv, NEW c \in Callers, Discarded(c)
  PROVE  IInv'
<1> DEFINE rec == IF call[c].next = "none" THEN NoCall
                  ELSE [call[c] EXCEPT !.at = call[c].next, !.next = "none"]
<1>1. call[c] \in CallType /\ call[c].next \in {"none", "refuse", "clear"}
  BY DEF IInv, TypeInv, CallType
<1>2. rec \in CallType /\ rec.at \in {"none", "refuse", "clear"}
  <2>1. NoCall \in CallType /\ NoCall.at = "none"
    BY DEF NoCall, CallType, Phases
  <2>2. CASE call[c].next = "none"
    BY <2>1, <2>2
  <2>3. CASE call[c].next # "none"
    BY <1>1, <2>3 DEF CallType, Phases
  <2> QED
    BY <2>2, <2>3
<1>3. call' = [call EXCEPT ![c] = rec]
  BY <1>1 DEF Discarded, IInv, TypeInv, CallType
<1>4. OnlyMoves(c) /\ call'[c] = rec /\ call' \in [Callers -> CallType]
  BY <1>2, <1>3, MovesOne DEF IInv, TypeInv
<1>5. UNCHANGED <<core, timers, alarms, fate, cur, made>> /\ At(c, "discard") /\ work = <<>>
  BY DEF Discarded, core, engine, jobs, queue
<1>6. Alone(c) /\ ~running /\ Alive = {}
  BY <1>5 DEF IInv, StopInv, PhaseInv, Solo, At
<1> HIDE DEF rec
<1>7. Alive' = {} /\ work' = <<>> /\ Listed'
  BY <1>5, <1>6 DEF Alive, core, Listed
<1>8. PhaseInv(c)'
  BY <1>2, <1>4, <1>5, <1>6, <1>7, StaysAlone DEF PhaseInv, Solo, At, core
<1>9. StopInv'
  BY <1>4, <1>5, <1>7, <1>8, StepStopInv DEF IInv, At, core
<1> QED
  BY <1>2, <1>4, <1>5, <1>9, KeepAlarmInv DEF IInv, TypeInv, core

\* With the runtime its timers go: nobody is arming one.
LEMMA ClearTimersInv ==
  ASSUME IInv, NEW c \in Callers, ClearTimers(c)
  PROVE  IInv'
<1>1. NoCall \in CallType /\ NoCall.at = "none"
  BY DEF NoCall, CallType, Phases
<1>2. OnlyMoves(c) /\ call'[c] = NoCall /\ call' \in [Callers -> CallType]
  BY <1>1, MovesOne DEF ClearTimers, Return, IInv, TypeInv
<1>3. /\ UNCHANGED <<core, cur, made>> /\ At(c, "clear")
      /\ timers' = {} /\ alarms' = alarms \ timers
      /\ fate' = [j \in Jobs |-> IF j \in timers THEN "freed" ELSE fate[j]]
  BY DEF ClearTimers, core, queue
<1>4. Alone(c)
  BY <1>3 DEF IInv, StopInv, PhaseInv, Solo, At
<1>5. PhaseInv(c)'
  BY <1>1, <1>2 DEF PhaseInv, Solo, At
<1>6. StopInv'
  BY <1>2, <1>3, <1>5, KeepStopInv DEF IInv, At, Unfinished
<1>7. fate' \in [Jobs -> Fates]
  BY <1>3 DEF IInv, TypeInv, Fates
<1>8. \A d \in Callers : call'[d].at = "none"
  BY <1>1, <1>2, <1>4 DEF Alone, OnlyMoves, At
<1>9. AlarmInv'
  BY <1>3, <1>8 DEF IInv, AlarmInv, At
<1> QED
  BY <1>2, <1>3, <1>6, <1>7, <1>9 DEF IInv, TypeInv, core

\* A job is given to a running engine, or refused.
LEMMA SubmitInv ==
  ASSUME IInv, NEW c \in Callers, Submit(c)
  PROVE  IInv'
<1>1. NoCall \in CallType /\ NoCall.at = "none" /\ call[c] \in CallType /\ call[c].job \in Nat
  BY DEF NoCall, IInv, TypeInv, CallType, Phases
<1>2. /\ UNCHANGED <<running, th, scheduler, workers, timers, alarms, cur, made>>
      /\ At(c, "submit")
  BY DEF Submit, queue
<1>3. \E rec \in CallType : /\ rec.at \in {"none", "wake", "refuse"}
                            /\ call' = [call EXCEPT ![c] = rec]
  <2>1. CASE call' = [call EXCEPT ![c] = NoCall]
    BY <1>1, <2>1
  <2>2. CASE call' = [call EXCEPT ![c].at = "wake"]
    BY <1>1, <2>2 DEF CallType, Phases, IInv, TypeInv
  <2>3. CASE call' = [call EXCEPT ![c].at = "refuse"]
    BY <1>1, <2>3 DEF CallType, Phases, IInv, TypeInv
  <2> QED
    BY <2>1, <2>2, <2>3 DEF Submit, Goto, Return
<1>4. PICK rec \in CallType : /\ rec.at \in {"none", "wake", "refuse"}
                              /\ call' = [call EXCEPT ![c] = rec]
  BY <1>3
<1>5. OnlyMoves(c) /\ call'[c] = rec /\ call' \in [Callers -> CallType]
  BY <1>4, MovesOne DEF IInv, TypeInv
<1>6. work' \in Seq(Nat)
  BY <1>1 DEF Submit, IInv, TypeInv
<1>7. fate' = fate \/ fate' = [fate EXCEPT ![call[c].job] = "queued"]
  BY DEF Submit
<1>8. fate' \in [Jobs -> Fates] /\ \A j \in Jobs : fate[j] # "none" => fate'[j] # "none"
  BY <1>7 DEF IInv, TypeInv, Fates
<1>9. running
  BY <1>2 DEF IInv, StopInv, PhaseInv, At
<1>10. PhaseInv(c)' /\ Listed' /\ ~AtRest'
  BY <1>2, <1>4, <1>5, <1>9 DEF IInv, StopInv, PhaseInv, Solo, At, Alive, Listed, AtRest
<1>11. StopInv'
  BY <1>2, <1>5, <1>10, StepStopInv DEF IInv, At
<1> QED
  BY <1>2, <1>4, <1>5, <1>6, <1>8, <1>11, KeepAlarmInv DEF IInv, TypeInv

\* The wake after a submit finds the engine running.
LEMMA SubmitWakeInv ==
  ASSUME IInv, NEW c \in Callers, SubmitWake(c)
  PROVE  IInv'
<1>1. NoCall \in CallType /\ NoCall.at = "none"
  BY DEF NoCall, CallType, Phases
<1>2. OnlyMoves(c) /\ call'[c] = NoCall /\ call' \in [Callers -> CallType]
  BY <1>1, MovesOne DEF SubmitWake, Return, IInv, TypeInv
<1>3. /\ UNCHANGED <<running, work, scheduler, workers, timers, alarms, fate, cur, made>>
      /\ At(c, "wake")
  BY DEF SubmitWake, jobs, queue
<1>4. th' \in [Threads -> ThreadType] /\ Alive' \subseteq Alive
  BY WakeInv DEF SubmitWake, IInv, TypeInv, ThreadTypes, Alive
<1>5. running
  BY <1>3 DEF IInv, StopInv, PhaseInv, At
<1>6. PhaseInv(c)' /\ Listed' /\ ~AtRest'
  BY <1>1, <1>2, <1>3, <1>4, <1>5 DEF IInv, StopInv, PhaseInv, Solo, At, Listed, AtRest
<1>7. StopInv'
  BY <1>2, <1>3, <1>6, StepStopInv DEF IInv, At
<1> QED
  BY <1>1, <1>2, <1>3, <1>4, <1>7, KeepAlarmInv DEF IInv, TypeInv

\* A call that ends without having given a job away.
LEMMA ReturnInv ==
  ASSUME IInv, NEW c \in Callers, Refuse(c) \/ Hold(c)
  PROVE  IInv'
<1>1. NoCall \in CallType /\ NoCall.at = "none"
  BY DEF NoCall, CallType, Phases
<1>2. OnlyMoves(c) /\ call'[c] = NoCall /\ call' \in [Callers -> CallType]
  BY <1>1, MovesOne DEF Refuse, Hold, Return, IInv, TypeInv
<1>3. UNCHANGED <<core, timers, alarms, cur, made>> /\ (At(c, "refuse") \/ At(c, "hold"))
  BY DEF Refuse, Hold, core, engine
<1>4. fate' = fate \/ fate' = [fate EXCEPT ![call[c].job] = "refused"]
  BY DEF Refuse, Hold, jobs
<1>5. fate' \in [Jobs -> Fates] /\ \A j \in Jobs : fate[j] # "none" => fate'[j] # "none"
  BY <1>4 DEF IInv, TypeInv, Fates
<1>6. PhaseInv(c)'
  BY <1>1, <1>2 DEF PhaseInv, Solo, At
<1>7. StopInv'
  BY <1>2, <1>3, <1>6, KeepStopInv DEF IInv, At, Unfinished
<1> QED
  BY <1>1, <1>2, <1>3, <1>5, <1>7, KeepAlarmInv DEF IInv, TypeInv, core

\* A listed timer is given to the wheel, or unlisted again.
LEMMA ArmInv ==
  ASSUME IInv, NEW c \in Callers, Arm(c) \/ ArmFails(c)
  PROVE  IInv'
<1>1. NoCall \in CallType /\ NoCall.at = "none"
  BY DEF NoCall, CallType, Phases
<1>2. OnlyMoves(c) /\ call'[c] = NoCall /\ call' \in [Callers -> CallType]
  BY <1>1, MovesOne DEF Arm, ArmFails, Return, IInv, TypeInv
<1> DEFINE j == call[c].job
<1>3. /\ UNCHANGED <<core, cur, made>> /\ At(c, "arm")
      /\ \/ alarms' = alarms \cup {j} /\ UNCHANGED <<timers, fate>>
         \/ timers' = timers \ {j} /\ alarms' = alarms /\ fate' = [fate EXCEPT ![j] = "refused"]
  BY DEF Arm, ArmFails, core, jobs, queue
<1>4. /\ j \in timers \ alarms
      /\ \A d \in Callers \ {c} : At(d, "arm") => call[d].job # j
  BY <1>3 DEF IInv, AlarmInv
<1> HIDE DEF j
<1>5. fate' \in [Jobs -> Fates] /\ \A k \in Jobs : fate[k] # "none" => fate'[k] # "none"
  BY <1>3 DEF IInv, TypeInv, Fates
<1>6. PhaseInv(c)'
  BY <1>1, <1>2 DEF PhaseInv, Solo, At
<1>7. StopInv'
  BY <1>2, <1>3, <1>6, KeepStopInv DEF IInv, At, Unfinished
<1>8. AlarmInv'
  <2>1. alarms' \subseteq timers' /\ timers' \subseteq Jobs /\ timers' \subseteq timers
    BY <1>3, <1>4 DEF IInv, AlarmInv
  <2>2. \A k \in timers' : fate'[k] # "none"
    BY <1>5, <2>1 DEF IInv, AlarmInv
  <2>3. ASSUME NEW d \in Callers, call'[d].at = "arm"
        PROVE  /\ call'[d].job \in timers' \ alarms'
               /\ \A e \in Callers \ {d} : call'[e].at = "arm" => call'[e].job # call'[d].job
    <3>1. d # c /\ call'[d] = call[d]
      BY <1>1, <1>2, <2>3 DEF OnlyMoves
    <3>2. At(d, "arm") /\ call[d].job # j
      BY <1>4, <2>3, <3>1 DEF At
    <3>3. /\ call[d].job \in timers \ alarms
          /\ \A e \in Callers \ {d} : At(e, "arm") => call[e].job # call[d].job
      BY <3>2 DEF IInv, AlarmInv
    <3> QED
      BY <1>1, <1>2, <1>3, <3>1, <3>2, <3>3 DEF OnlyMoves, At
  <2> QED
    BY <2>1, <2>2, <2>3 DEF AlarmInv, At
<1> QED
  BY <1>2, <1>3, <1>5, <1>7, <1>8 DEF IInv, TypeInv, core

\* Calls that are one step, and stutters.
LEMMA OneStepInv ==
  ASSUME IInv,
         UNCHANGED vars \/ \E c \in Clients : PopTicks(c) \/ CloseQueue(c) \/ DestroyQueue(c)
  PROVE  IInv'
<1>1. UNCHANGED <<core, timers, call, made>> /\ cur' \in Nat
  BY DEF vars, PopTicks, CloseQueue, DestroyQueue, core, engine, queue, IInv, TypeInv
<1>2. \/ alarms' = alarms /\ fate' = fate
      \/ \E j \in alarms : alarms' = alarms \ {j} /\ fate' = [fate EXCEPT ![j] = "dropped"]
  BY DEF vars, PopTicks, CloseQueue, DestroyQueue, engine, jobs
<1>3. alarms' \subseteq alarms /\ fate' \in [Jobs -> Fates]
      /\ \A k \in Jobs : fate[k] # "none" => fate'[k] # "none"
  BY <1>2 DEF IInv, TypeInv, Fates
<1>4. StopInv'
  BY <1>1 DEF core, IInv, StopInv, PhaseInv, Solo, At, Alone, Alive, Listed, AtRest
<1>5. AlarmInv'
  BY <1>1, <1>3 DEF IInv, AlarmInv, At
<1> QED
  BY <1>1, <1>3, <1>4, <1>5 DEF IInv, TypeInv, core

-----------------------------------------------------------------------------
\* Initially the engine is stopped.
LEMMA InitInv == Init => IInv
<1> SUFFICES ASSUME Init PROVE IInv
  OBVIOUS
<1>1. NoCall \in CallType /\ NoCall.at = "none" /\ NoThread \in ThreadType /\ NoThread.at = "dead"
  BY DEF NoCall, CallType, Phases, NoThread, ThreadType, Labels
<1>2. TypeInv
  <2>1. running \in BOOLEAN /\ scheduler \in Nat /\ cur \in Nat /\ made \in Nat
    BY DEF Init
  <2>0. work \in Seq(Nat)
    BY DEF Init
  <2>2. workers \in [1 .. WorkerCount -> Nat]
    BY DEF Init
  <2>3. call \in [Callers -> CallType] /\ th \in [Threads -> ThreadType]
    BY <1>1 DEF Init
  <2>4. fate \in [Jobs -> Fates]
    BY DEF Init, Fates
  <2> QED
    BY <2>0, <2>1, <2>2, <2>3, <2>4 DEF TypeInv
<1>3. StopInv
  BY <1>1 DEF Init, StopInv, PhaseInv, Solo, At, Alive, Listed, AtRest
<1>4. AlarmInv
  BY <1>1 DEF Init, AlarmInv, At
<1> QED
  BY <1>2, <1>3, <1>4 DEF IInv

\* Where the threads and the alarms are while calls, starts and stops go on
\* (emq_engine_start, emq_engine_stop, emq_engine_schedule), if no call
\* overlaps a start or a stop.
THEOREM EngineInvariance == Discipline # "none" => (Spec => []IInv)
<1> SUFFICES ASSUME Discipline # "none" PROVE Spec => []IInv
  OBVIOUS
<1>1. IInv /\ [Next]_vars => IInv'
  <2> SUFFICES ASSUME IInv, [Next]_vars PROVE IInv'
    OBVIOUS
  <2>1. ASSUME NEW c \in Clients, ClientCall(c) PROVE IInv'
    <3>1. c \in Callers
      BY DEF Callers
    <3>2. CASE PopTicks(c) \/ CloseQueue(c) \/ DestroyQueue(c)
      BY <3>2, OneStepInv
    <3> QED
      BY <2>1, <3>1, <3>2, StartInv, StopCallInv, ScheduleInv, HandleInv DEF ClientCall
  <2>2. ASSUME NEW c \in Callers, AsyncCall(c) PROVE IInv'
    BY <2>2, AsyncCallInv
  <2>3. ASSUME NEW c \in Callers, CallStep(c) PROVE IInv'
    BY <2>3, StartTestInv, StartSetInv, MakeSchedulerInv, MakeSchedulerFailsInv,
       MakeWorkerInv, MakeWorkerFailsInv, StopClearInv, StopWakeInv, JoinSchedulerInv,
       JoinWorkerInv, DiscardInv, DiscardedInv, ClearTimersInv, SubmitInv, SubmitWakeInv,
       ReturnInv, ArmInv DEF CallStep
  <2>4. ASSUME NEW t \in Threads, ThreadStep(t) PROVE IInv'
    BY <2>4, ThreadTypeInv, ThreadStopInv, ThreadAlarmInv DEF IInv
  <2>5. CASE UNCHANGED vars
    BY <2>5, OneStepInv
  <2> QED
    BY <2>1, <2>2, <2>3, <2>4, <2>5 DEF Next
<1> QED
  BY <1>1, InitInv, PTL DEF Spec

\* emq_engine_stop: between a stop and the next start no thread of the engine
\* is alive and no job waits; and no alarm outlives its timer's place in the
\* list (emq_wheel_submit, emq_engine_clear_timers).
THEOREM StopLeavesNothing == Discipline # "none" => (Spec => []StopIsComplete)
<1> SUFFICES ASSUME Discipline # "none" PROVE Spec => []StopIsComplete
  OBVIOUS
<1>1. IInv => StopIsComplete
  <2> SUFFICES ASSUME IInv PROVE StopIsComplete
    OBVIOUS
  <2>1. ASSUME ~running, Starting = {}, Stopping = {} PROVE work = <<>> /\ Alive = {}
    <3>1. \A c \in Callers : call[c].at \notin Unfinished
      BY <2>1 DEF Stopping, Unfinished
    <3> QED
      BY <2>1, <3>1 DEF IInv, StopInv, AtRest
  <2> QED
    BY <2>1 DEF StopIsComplete, IInv, AlarmInv, Alive
<1> QED
  BY <1>1, EngineInvariance, PTL

-----------------------------------------------------------------------------
(***************************************************************************)
(* The count of a queue is the number of handles and calls it is held by,  *)
(* if the application also stops only when every accepted call has called  *)
(* back.  The argument: a job is in one place at a time, which its fate    *)
(* names, so it gives its count back once; and a stop, which discards jobs *)
(* and gives no count back, finds none that has one.                       *)
(***************************************************************************)

\* Where a call has a job that it has not given away.
HoldPhases == {"test", "set", "make_scheduler", "make_worker", "submit", "refuse"} \cup Unfinished

Holding(c) == call[c].at \in HoldPhases /\ call[c].job # 0

CallInv(c) ==
    /\ At(c, "none") => call[c] = NoCall
    /\ Holding(c) => /\ call[c].job \in Jobs
                     /\ fate[call[c].job] = "calling" /\ desc[call[c].job] # 0
                     /\ \A d \in Callers \ {c} : Holding(d) => call[d].job # call[c].job
    /\ At(c, "arm") => fate[call[c].job] = "armed"
    /\ At(c, "hold") => c \in Clients /\ call[c].i = cur /\ cur # 0 /\ handle[c] = 0

CallsInv == \A c \in Callers : CallInv(c)

\* A job in the queue is there once.
WorkInv ==
    /\ Len(work) <= JobCap
    /\ \A i \in 1 .. Len(work) : work[i] \in Jobs /\ fate[work[i]] = "queued"
    /\ \A i, k \in 1 .. Len(work) : i # k => work[i] # work[k]

\* A thread has its job to itself.
JobFate(where) ==
    CASE where = "run" -> "running" [] where = "release" -> "answered" [] OTHER -> "armed"
Engaged(t) == th[t].at \in {"run", "release", "fire"}

ThreadInv(t) ==
    /\ Engaged(t) => /\ th[t].job \in Jobs /\ fate[th[t].job] = JobFate(th[t].at)
                     /\ \A u \in Threads \ {t} : Engaged(u) => th[u].job # th[t].job
    /\ Is(t, "fire") => th[t].job \notin timers /\ desc[th[t].job] = 0

ThreadsInv == \A t \in Threads : ThreadInv(t)

\* A timer has no descriptor, and one in the wheel has not been submitted.
TimersInv ==
    /\ \A j \in timers : desc[j] = 0 /\ fate[j] \in {"armed", "dropped"}
    /\ \A j \in alarms : fate[j] = "armed"

DescInv ==
    /\ desc \in [Jobs -> Nat] /\ stops \in 0 .. MaxStops
    /\ \A j \in Jobs : fate[j] = "none" => desc[j] = 0

JobsInv == CallsInv /\ WorkInv /\ ThreadsInv /\ TimersInv /\ DescInv

\* While the engine is stopped, or a start or a stop is under way, no call
\* waits for a worker.
Unsteady == Unfinished \cup {"set", "make_scheduler", "make_worker"}
Unsettled == \E c \in Callers : call[c].at \in Unsteady
QuietInv ==
    ~running \/ Unsettled => \A j \in Jobs : desc[j] # 0 => fate[j] \notin {"queued", "running"}

\* The handles and calls that hold a descriptor.
Handles(d) == { c \in Clients : handle[c] = d }
Calls(d) == { j \in Outstanding : desc[j] = d }

CountInv ==
    /\ made \in 0 .. MaxDescs /\ cur \in 0 .. made
    /\ handle \in [Clients -> Nat] /\ \A c \in Clients : handle[c] \in {0, cur}
    /\ \A j \in Outstanding : desc[j] = cur
    /\ count \in [1 .. MaxDescs -> Nat]
    /\ \A d \in 1 .. MaxDescs : count[d] = Cardinality(Handles(d)) + Cardinality(Calls(d))

HeldInv == JobsInv /\ QuietInv /\ CountInv

-----------------------------------------------------------------------------
\* A step concerns one job, or none (0): what follows keeps the rest.
Spares(j) == \A k \in Jobs \ {j} : fate'[k] = fate[k] /\ desc'[k] = desc[k]

\* And it is of one caller or one thread, or of none (0).
LEMMA NoneIsZero == 0 \notin Callers /\ 0 \notin Threads /\ 0 \notin Jobs
  BY EngineAssumption DEF Callers, Threads, Jobs

\* The callers but c do not move and have nothing to do with the job.
LEMMA CallsKept ==
  ASSUME CallsInv, AlarmInv, NEW c, NEW j, Spares(j),
         \A d \in Callers \ {c} : /\ call'[d] = call[d]
                                  /\ Holding(d) \/ At(d, "arm") => call[d].job # j
                                  /\ At(d, "hold") => cur' = cur /\ handle'[d] = handle[d],
         c \in Callers => CallInv(c)'
  PROVE  CallsInv'
<1> SUFFICES ASSUME NEW d \in Callers \ {c} PROVE CallInv(d)'
  BY DEF CallsInv
<1>1. CallInv(d) /\ call'[d] = call[d]
  BY DEF CallsInv
<1>2. (At(d, "none") => call[d] = NoCall)' /\ (At(d, "hold") => d \in Clients /\ call[d].i = cur /\ cur # 0 /\ handle[d] = 0)'
  BY <1>1 DEF CallInv, At
<1>3. (At(d, "arm") => fate[call[d].job] = "armed")'
  BY <1>1 DEF CallInv, At, AlarmInv, Spares
<1>4. ASSUME Holding(d)' 
      PROVE  /\ call'[d].job \in Jobs /\ fate'[call'[d].job] = "calling" /\ desc'[call'[d].job] # 0
             /\ \A e \in Callers \ {d} : Holding(e)' => call'[e].job # call'[d].job
  <2>1. Holding(d)
    BY <1>1, <1>4 DEF Holding
  <2>2. /\ call[d].job \in Jobs \ {j} /\ fate[call[d].job] = "calling" /\ desc[call[d].job] # 0
        /\ \A e \in Callers \ {d} : Holding(e) => call[e].job # call[d].job
    BY <1>1, <2>1 DEF CallInv
  <2>3. fate'[call'[d].job] = "calling" /\ desc'[call'[d].job] # 0
    BY <1>1, <2>2 DEF Spares
  <2>4. ASSUME NEW e \in Callers \ {d}, Holding(e)' PROVE call'[e].job # call'[d].job
    <3>1. CASE e = c
      BY <1>4, <2>4, <3>1 DEF CallInv
    <3>2. CASE e # c
      BY <1>1, <2>2, <2>4, <3>2 DEF Holding
    <3> QED
      BY <3>1, <3>2
  <2> QED
    BY <1>1, <2>2, <2>3, <2>4
<1> QED
  BY <1>2, <1>3, <1>4 DEF CallInv

\* So do the threads but t.
LEMMA ThreadsKept ==
  ASSUME ThreadsInv, NEW t, NEW j, Spares(j), timers' \subseteq timers \cup {j},
         \A u \in Threads \ {t} : Engaged(u)' => th'[u] = th[u] /\ th[u].job # j,
         t \in Threads => ThreadInv(t)'
  PROVE  ThreadsInv'
<1> SUFFICES ASSUME NEW u \in Threads \ {t}, Engaged(u)' PROVE ThreadInv(u)'
  BY DEF ThreadsInv, ThreadInv, Engaged, Is
<1>1. th'[u] = th[u] /\ th[u].job # j /\ Engaged(u) /\ ThreadInv(u)
  BY DEF Engaged, ThreadsInv
<1>2. /\ th[u].job \in Jobs \ {j} /\ fate[th[u].job] = JobFate(th[u].at)
      /\ \A v \in Threads \ {u} : Engaged(v) => th[v].job # th[u].job
  BY <1>1 DEF ThreadInv
<1>3. fate'[th[u].job] = fate[th[u].job] /\ desc'[th[u].job] = desc[th[u].job]
  BY <1>2 DEF Spares
<1>4. ASSUME NEW v \in Threads \ {u}, Engaged(v)' PROVE th'[v].job # th'[u].job
  <2>1. CASE v = t
    BY <1>4, <2>1 DEF ThreadInv
  <2>2. CASE v # t
    BY <1>1, <1>2, <1>4, <2>2 DEF Engaged
  <2> QED
    BY <2>1, <2>2
<1> QED
  BY <1>1, <1>2, <1>3, <1>4 DEF ThreadInv, Is

\* The queue stays, gets the job at its end, or loses it from its head.
LEMMA WorkKept ==
  ASSUME TypeInv, WorkInv, NEW j, Spares(j),
         \/ work' = work /\ (j \in Jobs => fate[j] # "queued")
         \/ /\ work' = Append(work, j) /\ j \in Jobs /\ Len(work) < JobCap
            /\ fate[j] # "queued" /\ fate'[j] = "queued"
         \/ work # <<>> /\ j = Head(work) /\ work' = Tail(work)
  PROVE  WorkInv'
<1>1. work \in Seq(Nat) /\ Len(work) \in Nat /\ JobCap \in Nat
  BY EngineAssumption DEF TypeInv
<1>2. CASE work' = work /\ (j \in Jobs => fate[j] # "queued")
  BY <1>2 DEF WorkInv, Spares
<1>3. CASE /\ work' = Append(work, j) /\ j \in Jobs /\ Len(work) < JobCap
           /\ fate[j] # "queued" /\ fate'[j] = "queued"
  <2>1. j \in Nat
    BY <1>3 DEF Jobs
  <2>2. /\ Len(work') = Len(work) + 1 /\ work'[Len(work) + 1] = j
        /\ \A i \in 1 .. Len(work) : work'[i] = work[i]
    BY <1>1, <1>3, <2>1
  <2>3. \A i \in 1 .. Len(work) : work'[i] \in Jobs \ {j} /\ fate'[work'[i]] = "queued"
    BY <1>3, <2>2 DEF WorkInv, Spares
  <2>4. \A i \in 1 .. Len(work') : i = Len(work) + 1 \/ i \in 1 .. Len(work)
    BY <1>1, <2>2
  <2>5. Len(work') <= JobCap
    BY <1>1, <1>3, <2>2
  <2>6. \A i \in 1 .. Len(work') : work'[i] \in Jobs /\ fate'[work'[i]] = "queued"
    BY <1>3, <2>2, <2>3, <2>4
  <2>7. \A i, k \in 1 .. Len(work') : i # k => work'[i] # work'[k]
    BY <2>2, <2>3, <2>4 DEF WorkInv
  <2> QED
    BY <2>5, <2>6, <2>7 DEF WorkInv
<1>4. CASE work # <<>> /\ j = Head(work) /\ work' = Tail(work)
  <2>1. /\ Len(work') = Len(work) - 1 /\ j = work[1] /\ Len(work) >= 1
        /\ \A i \in 1 .. Len(work') : work'[i] = work[i + 1]
    BY <1>1, <1>4
  <2>2. \A i \in 1 .. Len(work') : i + 1 \in 1 .. Len(work) /\ i + 1 # 1
    BY <1>1, <2>1
  <2>3. 1 \in 1 .. Len(work) /\ Len(work') <= JobCap
    BY <1>1, <2>1 DEF WorkInv
  <2>4. ASSUME NEW i \in 1 .. Len(work') PROVE work'[i] \in Jobs \ {j} /\ fate[work'[i]] = "queued"
    <3>1. i + 1 \in 1 .. Len(work) /\ i + 1 # 1
      BY <2>2
    <3>2. work[i + 1] \in Jobs /\ fate[work[i + 1]] = "queued" /\ work[i + 1] # work[1]
      BY <2>3, <3>1 DEF WorkInv
    <3> QED
      BY <2>1, <3>2
  <2>5. \A i, k \in 1 .. Len(work') : i # k => i + 1 # k + 1
    BY <1>1, <2>1
  <2>6. \A i, k \in 1 .. Len(work') : i # k => work'[i] # work'[k]
    BY <2>1, <2>2, <2>5 DEF WorkInv
  <2> QED
    BY <2>3, <2>4, <2>6 DEF WorkInv, Spares
<1> QED
  BY <1>2, <1>3, <1>4

\* The timers and alarms, but for the job's.
LEMMA TimersKept ==
  ASSUME TimersInv, AlarmInv, NEW j, Spares(j),
         timers' \subseteq timers \cup {j}, alarms' \subseteq alarms \cup {j},
         j \in timers' => desc'[j] = 0 /\ fate'[j] \in {"armed", "dropped"},
         j \in alarms' => fate'[j] = "armed"
  PROVE  TimersInv'
  BY DEF TimersInv, AlarmInv, Spares

\* No queued or running call comes up in a stopped engine.
LEMMA QuietKept ==
  ASSUME QuietInv, ~running' => ~running \/ Unsettled, Unsettled' => ~running \/ Unsettled,
         \A j \in Jobs : desc'[j] # 0 /\ fate'[j] \in {"queued", "running"} =>
                           desc[j] # 0 /\ fate[j] \in {"queued", "running"}
  PROVE  QuietInv'
  BY DEF QuietInv

\* The job does not change sides.
LEMMA CountKept ==
  ASSUME CountInv, NEW j, Spares(j), UNCHANGED queue, desc' = desc,
         j \in Jobs => ((j \in Outstanding)' <=> j \in Outstanding)
  PROVE  CountInv'
<1>1. Outstanding' = Outstanding
  BY DEF Outstanding, Spares
<1>2. UNCHANGED <<cur, made, count, handle>>
  BY DEF queue
<1>3. \A d \in 1 .. MaxDescs : Handles(d)' = Handles(d) /\ Calls(d)' = Calls(d)
  BY <1>1, <1>2 DEF Handles, Calls
<1> QED
  BY <1>1, <1>2, <1>3 DEF CountInv

-----------------------------------------------------------------------------
\* The count of a descriptor.

\* The handles and the calls are finitely many, so taking one or giving one
\* back moves their number by one.
LEMMA HeldFinite ==
  ASSUME IsFiniteSet(Clients), NEW d
  PROVE  /\ IsFiniteSet(Handles(d)) /\ Cardinality(Handles(d)) \in Nat
         /\ IsFiniteSet(Calls(d)) /\ Cardinality(Calls(d)) \in Nat
<1>1. IsFiniteSet(Jobs)
  BY FS_Interval, EngineAssumption DEF Jobs
<1>2. Handles(d) \subseteq Clients /\ Calls(d) \subseteq Jobs
  BY DEF Handles, Calls, Outstanding
<1> QED
  BY <1>1, <1>2, FS_Subset, FS_CardinalityType

\* An asynchronous call takes the count of the queue it is for.
LEMMA CallCounted ==
  ASSUME IsFiniteSet(Clients), CountInv, NEW j \in Jobs, Spares(j), UNCHANGED <<cur, made, handle>>,
         cur # 0, j \notin Outstanding, (j \in Outstanding)', desc'[j] = cur,
         count' = [count EXCEPT ![cur] = @ + 1]
  PROVE  CountInv'
<1>1. cur \in 1 .. MaxDescs
  BY EngineAssumption DEF CountInv
<1>2. Outstanding' = Outstanding \cup {j} /\ \A k \in Outstanding : desc'[k] = desc[k]
  BY DEF Outstanding, Spares
<1>3. \A d \in 1 .. MaxDescs : Handles(d)' = Handles(d) /\ (d # cur => Calls(d)' = Calls(d))
  BY <1>2 DEF Handles, Calls
<1>4. Calls(cur)' = Calls(cur) \cup {j} /\ j \notin Calls(cur)
  BY <1>2 DEF Calls
<1>5. Cardinality(Calls(cur)') = Cardinality(Calls(cur)) + 1
  BY <1>4, HeldFinite, FS_AddElement
<1>6. count[cur] \in Nat /\ count' \in [1 .. MaxDescs -> Nat] /\ count'[cur] = count[cur] + 1
  BY <1>1 DEF CountInv
<1>7. ASSUME NEW d \in 1 .. MaxDescs
      PROVE  count'[d] = Cardinality(Handles(d)') + Cardinality(Calls(d)')
  <2>1. count[d] = Cardinality(Handles(d)) + Cardinality(Calls(d))
    BY DEF CountInv
  <2>2. CASE d # cur
    BY <1>1, <1>3, <2>1, <2>2 DEF CountInv
  <2>3. CASE d = cur
    BY <1>3, <1>5, <1>6, <2>1, <2>3, HeldFinite
  <2> QED
    BY <2>2, <2>3
<1>8. \A k \in Outstanding' : desc'[k] = cur'
  BY <1>2 DEF CountInv
<1> QED
  BY <1>6, <1>7, <1>8 DEF CountInv

\* A call that is through gives it back.
LEMMA CallReturned ==
  ASSUME IsFiniteSet(Clients), CountInv, NEW j \in Jobs, Spares(j), UNCHANGED <<cur, made, handle>>,
         j \in Outstanding, (j \notin Outstanding)', desc'[j] = desc[j],
         count' = [count EXCEPT ![desc[j]] = @ - 1]
  PROVE  CountInv'
<1>1. desc[j] = cur /\ cur \in 1 .. MaxDescs
  BY EngineAssumption DEF CountInv, Outstanding
<1>2. Outstanding' = Outstanding \ {j} /\ \A k \in Outstanding : desc'[k] = desc[k]
  BY DEF Outstanding, Spares
<1>3. \A d \in 1 .. MaxDescs : Handles(d)' = Handles(d) /\ (d # cur => Calls(d)' = Calls(d))
  BY <1>1, <1>2 DEF Handles, Calls
<1>4. Calls(cur)' = Calls(cur) \ {j} /\ j \in Calls(cur)
  BY <1>1, <1>2 DEF Calls
<1>5. Cardinality(Calls(cur)') = Cardinality(Calls(cur)) - 1 /\ Cardinality(Calls(cur)') \in Nat
  <2>1. IsFiniteSet(Calls(cur)) /\ IsFiniteSet(Calls(cur)')
    BY <1>4, HeldFinite, FS_Subset
  <2> QED
    BY <1>4, <2>1, FS_RemoveElement, FS_CardinalityType
<1>6. count[cur] = Cardinality(Handles(cur)) + Cardinality(Calls(cur)) /\ count[cur] \in Nat
  BY <1>1 DEF CountInv
<1>7. count[cur] - 1 \in Nat /\ count[cur] - 1 = Cardinality(Handles(cur)) + Cardinality(Calls(cur)')
  BY <1>5, <1>6, HeldFinite
<1>8. count' \in [1 .. MaxDescs -> Nat] /\ count'[cur] = count[cur] - 1
  BY <1>1, <1>7 DEF CountInv
<1>9. ASSUME NEW d \in 1 .. MaxDescs
      PROVE  count'[d] = Cardinality(Handles(d)') + Cardinality(Calls(d)')
  <2>1. count[d] = Cardinality(Handles(d)) + Cardinality(Calls(d))
    BY DEF CountInv
  <2>2. CASE d # cur
    BY <1>1, <1>3, <2>1, <2>2 DEF CountInv
  <2>3. CASE d = cur
    BY <1>3, <1>7, <1>8, <2>3
  <2> QED
    BY <2>2, <2>3
<1>10. \A k \in Outstanding' : desc'[k] = cur'
  BY <1>2 DEF CountInv
<1> QED
  BY <1>8, <1>9, <1>10 DEF CountInv

\* A handle is counted when it is given out,
LEMMA HandleCounted ==
  ASSUME IsFiniteSet(Clients), CountInv, NEW c \in Clients, UNCHANGED <<cur, made, jobs>>,
         cur # 0, handle[c] = 0, handle' = [handle EXCEPT ![c] = cur],
         count' = [count EXCEPT ![cur] = @ + 1]
  PROVE  CountInv'
<1>1. cur \in 1 .. MaxDescs /\ handle \in [Clients -> Nat]
  BY EngineAssumption DEF CountInv
<1>2. Outstanding' = Outstanding /\ \A d \in 1 .. MaxDescs : Calls(d)' = Calls(d)
  BY DEF Outstanding, Calls, jobs
<1>3. \A d \in 1 .. MaxDescs : d # cur => Handles(d)' = Handles(d)
  BY <1>1 DEF Handles
<1>4. Handles(cur)' = Handles(cur) \cup {c} /\ c \notin Handles(cur)
  BY <1>1 DEF Handles
<1>5. Cardinality(Handles(cur)') = Cardinality(Handles(cur)) + 1
  BY <1>4, HeldFinite, FS_AddElement
<1>6. count[cur] \in Nat /\ count' \in [1 .. MaxDescs -> Nat] /\ count'[cur] = count[cur] + 1
  BY <1>1 DEF CountInv
<1>7. ASSUME NEW d \in 1 .. MaxDescs
      PROVE  count'[d] = Cardinality(Handles(d)') + Cardinality(Calls(d)')
  <2>1. count[d] = Cardinality(Handles(d)) + Cardinality(Calls(d))
    BY DEF CountInv
  <2>2. CASE d # cur
    BY <1>1, <1>2, <1>3, <2>1, <2>2 DEF CountInv
  <2>3. CASE d = cur
    BY <1>2, <1>5, <1>6, <2>1, <2>3, HeldFinite
  <2> QED
    BY <2>2, <2>3
<1>8. handle' \in [Clients -> Nat] /\ \A e \in Clients : handle'[e] \in {0, cur}
  BY <1>1 DEF CountInv
<1>9. \A k \in Outstanding' : desc'[k] = cur'
  BY <1>2 DEF CountInv, jobs
<1> QED
  BY <1>6, <1>7, <1>8, <1>9 DEF CountInv

\* and no longer when it is closed.
LEMMA HandleReturned ==
  ASSUME IsFiniteSet(Clients), CountInv, NEW c \in Clients, UNCHANGED <<cur, made, jobs>>,
         handle[c] # 0, handle' = [handle EXCEPT ![c] = 0],
         count' = [count EXCEPT ![handle[c]] = @ - 1]
  PROVE  CountInv'
<1>1. handle[c] = cur /\ cur \in 1 .. MaxDescs /\ handle \in [Clients -> Nat]
  BY EngineAssumption DEF CountInv
<1>2. Outstanding' = Outstanding /\ \A d \in 1 .. MaxDescs : Calls(d)' = Calls(d)
  BY DEF Outstanding, Calls, jobs
<1>3. \A d \in 1 .. MaxDescs : d # cur => Handles(d)' = Handles(d)
  BY <1>1 DEF Handles
<1>4. Handles(cur)' = Handles(cur) \ {c} /\ c \in Handles(cur)
  BY <1>1 DEF Handles
<1>5. Cardinality(Handles(cur)') = Cardinality(Handles(cur)) - 1 /\ Cardinality(Handles(cur)') \in Nat
  <2>1. IsFiniteSet(Handles(cur)) /\ IsFiniteSet(Handles(cur)')
    BY <1>4, HeldFinite, FS_Subset
  <2> QED
    BY <1>4, <2>1, FS_RemoveElement, FS_CardinalityType
<1>6. count[cur] = Cardinality(Handles(cur)) + Cardinality(Calls(cur)) /\ count[cur] \in Nat
  BY <1>1 DEF CountInv
<1>7. count[cur] - 1 \in Nat /\ count[cur] - 1 = Cardinality(Handles(cur)') + Cardinality(Calls(cur))
  BY <1>5, <1>6, HeldFinite
<1>8. count' \in [1 .. MaxDescs -> Nat] /\ count'[cur] = count[cur] - 1
  BY <1>1, <1>7 DEF CountInv
<1>9. ASSUME NEW d \in 1 .. MaxDescs
      PROVE  count'[d] = Cardinality(Handles(d)') + Cardinality(Calls(d)')
  <2>1. count[d] = Cardinality(Handles(d)) + Cardinality(Calls(d))
    BY DEF CountInv
  <2>2. CASE d # cur
    BY <1>1, <1>2, <1>3, <2>1, <2>2 DEF CountInv
  <2>3. CASE d = cur
    BY <1>2, <1>7, <1>8, <2>3
  <2> QED
    BY <2>2, <2>3
<1>10. handle' \in [Clients -> Nat] /\ \A e \in Clients : handle'[e] \in {0, cur}
  BY <1>1 DEF CountInv
<1>11. \A k \in Outstanding' : desc'[k] = cur'
  BY <1>2 DEF CountInv, jobs
<1> QED
  BY <1>8, <1>9, <1>10, <1>11 DEF CountInv

\* A queue nobody holds may go, and when there is none another may be made.
LEMMA NobodyHolds ==
  ASSUME IsFiniteSet(Clients), CountInv, cur = 0 \/ count[cur] = 0
  PROVE  (\A c \in Clients : handle[c] = 0) /\ Outstanding = {}
<1>1. CASE cur = 0
  BY <1>1 DEF CountInv, Outstanding
<1>2. CASE cur # 0
  <2>1. cur \in 1 .. MaxDescs
    BY <1>2, EngineAssumption DEF CountInv
  <2>2. 0 = Cardinality(Handles(cur)) + Cardinality(Calls(cur))
    BY <1>2, <2>1 DEF CountInv
  <2>3. Cardinality(Handles(cur)) = 0 /\ Cardinality(Calls(cur)) = 0
    BY <2>2, HeldFinite
  <2>4. Handles(cur) = {} /\ Calls(cur) = {}
    BY <2>3, HeldFinite, FS_EmptySet
  <2> QED
    BY <1>2, <2>4 DEF Handles, Calls, CountInv
<1> QED
  BY <1>1, <1>2

-----------------------------------------------------------------------------
\* Steps that take no job further.

\* What a call at its start knows, and where a job cannot be.
LEMMA Idle ==
  ASSUME CallsInv, NEW c \in Callers, At(c, "none")
  PROVE  call[c] = NoCall /\ call[c].job = 0 /\ ~Holding(c)
  BY DEF CallsInv, CallInv, NoCall, Holding

LEMMA Whereabouts ==
  ASSUME JobsInv, AlarmInv, NEW j \in Jobs
  PROVE  /\ fate[j] # "calling" => \A d \in Callers : Holding(d) => call[d].job # j
         /\ fate[j] # "armed" => \A d \in Callers : At(d, "arm") => call[d].job # j
         /\ \A u \in Threads : Engaged(u) /\ th[u].job = j => fate[j] = JobFate(th[u].at)
         /\ fate[j] \notin {"armed", "dropped"} => j \notin timers
         /\ fate[j] # "armed" => j \notin alarms
  BY DEF JobsInv, CallsInv, CallInv, ThreadsInv, ThreadInv, TimersInv

\* A step of a call that leaves the jobs, the queue and the busy threads alone.
LEMMA CallMoves ==
  ASSUME Discipline = "callbacks", IInv, HeldInv, NEW c \in Callers, OnlyMoves(c),
         UNCHANGED <<queue, jobs, work, timers, alarms>>, stops' \in 0 .. MaxStops,
         \A u \in Threads : Engaged(u)' => th'[u] = th[u],
         \/ call'[c] = NoCall
         \/ /\ call'[c].at \notin {"none", "arm", "hold"} /\ call'[c].job = call[c].job
            /\ call[c].at \in HoldPhases \/ call[c].job = 0 \/ call'[c].at \notin HoldPhases,
         ~running' \/ call'[c].at \in Unsteady => ~running \/ call[c].at \in Unsteady \/ MayStop
  PROVE  HeldInv'
<1>1. Spares(0) /\ UNCHANGED <<fate, desc, cur, handle>>
  BY DEF Spares, jobs, queue
<1>2. CallsInv'
  <2>1. ASSUME NEW d \in Callers \ {c}
        PROVE  /\ call'[d] = call[d]
               /\ Holding(d) \/ At(d, "arm") => call[d].job # 0
               /\ At(d, "hold") => cur' = cur /\ handle'[d] = handle[d]
    BY <1>1 DEF OnlyMoves, Holding, At, IInv, AlarmInv, Jobs
  <2>2. CallInv(c)'
    <3>1. CASE call'[c] = NoCall
      BY <3>1 DEF CallInv, NoCall, Holding, At
    <3>2. CASE call'[c] # NoCall
      <4>1. Holding(c)' => Holding(c)
        BY <3>2 DEF Holding
      <4>2. \A d \in Callers \ {c} : Holding(d)' => Holding(d) /\ call'[d] = call[d]
        BY DEF Holding, OnlyMoves
      <4>3. CallInv(c)
        BY DEF HeldInv, JobsInv, CallsInv
      <4> QED
        BY <1>1, <3>2, <4>1, <4>2, <4>3 DEF CallInv, At
    <3> QED
      BY <3>1, <3>2
  <2> QED
    BY <1>1, <2>1, <2>2, CallsKept DEF HeldInv, JobsInv, IInv
<1>3. WorkInv' /\ TimersInv' /\ DescInv'
  BY <1>1 DEF HeldInv, JobsInv, WorkInv, TimersInv, DescInv
<1>4. ThreadsInv'
  <2>1. \A u \in Threads : Engaged(u) => th[u].job # 0
    BY DEF HeldInv, JobsInv, ThreadsInv, ThreadInv, Jobs
  <2>2. \A u \in Threads : Engaged(u)' => Engaged(u)
    BY DEF Engaged
  <2>3. \A u \in Threads \ {0} : Engaged(u)' => th'[u] = th[u] /\ th[u].job # 0
    BY <2>1, <2>2
  <2>4. timers' \subseteq timers \cup {0} /\ ThreadsInv
    BY DEF HeldInv, JobsInv
  <2> QED
    BY <1>1, <2>3, <2>4, NoneIsZero, ThreadsKept
<1>5. QuietInv'
  <2>1. CASE MayStop
    BY <1>1, <2>1 DEF MayStop, QuietInv
  <2>2. CASE ~MayStop
    <3>1. ~running' => ~running \/ Unsettled
      BY <2>2 DEF Unsettled
    <3>2. Unsettled' => ~running \/ Unsettled
      BY <2>2 DEF Unsettled, OnlyMoves
    <3> QED
      BY <1>1, <3>1, <3>2, QuietKept DEF HeldInv
  <2> QED
    BY <2>1, <2>2
<1>6. CountInv'
  <2>1. (0 \in Outstanding)' <=> 0 \in Outstanding
    BY <1>1 DEF Outstanding
  <2> QED
    BY <1>1, <2>1, CountKept DEF HeldInv
<1> QED
  BY <1>2, <1>3, <1>4, <1>5, <1>6 DEF HeldInv, JobsInv

\* A step of a thread that does.
LEMMA ThreadMoves ==
  ASSUME IInv, HeldInv,
         UNCHANGED <<running, call, queue, jobs, work, timers, alarms, stops>>,
         \A u \in Threads : Engaged(u)' => th'[u] = th[u]
  PROVE  HeldInv'
<1>1. Spares(0) /\ UNCHANGED <<fate, desc, cur, made, count, handle>>
  BY DEF Spares, jobs, queue
<1>2. CallsInv' /\ WorkInv' /\ TimersInv' /\ DescInv' /\ QuietInv'
  <2>1. CallsInv'
    BY <1>1 DEF HeldInv, JobsInv, CallsInv, CallInv, Holding, At
  <2>2. WorkInv' /\ TimersInv' /\ DescInv' /\ QuietInv'
    BY <1>1 DEF HeldInv, JobsInv, WorkInv, TimersInv, DescInv, QuietInv, Unsettled
  <2> QED
    BY <2>1, <2>2
<1>3. ThreadsInv'
  <2>1. \A u \in Threads : Engaged(u) => th[u].job # 0
    BY DEF HeldInv, JobsInv, ThreadsInv, ThreadInv, Jobs
  <2>2. \A u \in Threads : Engaged(u)' => Engaged(u)
    BY DEF Engaged
  <2>3. \A u \in Threads \ {0} : Engaged(u)' => th'[u] = th[u] /\ th[u].job # 0
    BY <2>1, <2>2
  <2>4. timers' \subseteq timers \cup {0} /\ ThreadsInv
    BY DEF HeldInv, JobsInv
  <2> QED
    BY <1>1, <2>3, <2>4, NoneIsZero, ThreadsKept
<1>4. CountInv'
  BY <1>1 DEF HeldInv, CountInv, Handles, Calls, Outstanding
<1> QED
  BY <1>2, <1>3, <1>4 DEF HeldInv, JobsInv

\* A wake disturbs no thread that has a job.
LEMMA WakeSpares ==
  ASSUME IInv, NEW to, Wake(to), \A u \in Threads : to[u] = th[u] \/ to[u].at = "tick"
  PROVE  \A u \in Threads : Engaged(u)' => th'[u] = th[u]
<1>1. PICK woken : th' = [t \in Threads |-> IF th[t].at = "waiting" \/ t \in woken
                                              THEN [th[t] EXCEPT !.at = "pop"] ELSE to[t]]
  BY DEF Wake
<1>2. th \in [Threads -> ThreadType]
  BY DEF IInv, TypeInv
<1> QED
  BY <1>1, <1>2 DEF Engaged, ThreadType

LEMMA ControlSteps ==
  ASSUME Discipline = "callbacks", IInv, HeldInv, NEW t \in Threads,
         \/ SchedulerLoop(t) \/ SchedulerRests(t) \/ FireWake(t) \/ NoJob(t)
         \/ CheckRunning(t) \/ Snapshot(t) \/ Sleep(t) \/ TimedOut(t)
  PROVE  HeldInv'
<1>1. UNCHANGED <<running, call, queue, jobs, work, timers, alarms, stops>>
  BY DEF SchedulerLoop, SchedulerRests, FireWake, NoJob, CheckRunning, Snapshot, Sleep, TimedOut
<1>2. \A u \in Threads : Engaged(u)' => th'[u] = th[u]
  <2>1. CASE FireWake(t)
    <3>1. \A u \in Threads : \/ [th EXCEPT ![t].at = "tick"][u] = th[u]
                             \/ [th EXCEPT ![t].at = "tick"][u].at = "tick"
      BY DEF IInv, TypeInv, ThreadType
    <3> QED
      BY <2>1, <3>1, WakeSpares DEF FireWake
  <2>2. CASE ~FireWake(t)
    <3>1. \E where \in Labels \ {"run", "release", "fire"} : th' = [th EXCEPT ![t].at = where]
      <4>1. CASE SchedulerLoop(t) \/ CheckRunning(t)
        BY <4>1 DEF Labels, SchedulerLoop, CheckRunning, Moves
      <4>2. CASE SchedulerRests(t) \/ NoJob(t) \/ Snapshot(t) \/ Sleep(t) \/ TimedOut(t)
        BY <4>2 DEF Labels, SchedulerRests, NoJob, Snapshot, Sleep, TimedOut, Moves
      <4> QED
        BY <2>2, <4>1, <4>2
    <3>2. th \in [Threads -> ThreadType]
      BY DEF IInv, TypeInv
    <3> QED
      BY <3>1, <3>2 DEF Engaged, ThreadType
  <2> QED
    BY <2>1, <2>2
<1> QED
  BY <1>1, <1>2, ThreadMoves

\* The steps of starts, stops and wakes.
LEMMA CallControlSteps ==
  ASSUME Discipline = "callbacks", IInv, IInv', HeldInv, NEW c \in Callers,
         \/ Start(c) \/ StartTest(c) \/ StartSet(c) \/ MakeScheduler(c) \/ MakeSchedulerFails(c)
         \/ MakeWorker(c) \/ MakeWorkerFails(c) \/ Stop(c, "none") \/ Stop(c, "clear")
         \/ StopClear(c) \/ StopWake(c) \/ JoinScheduler(c) \/ JoinWorker(c) \/ Discarded(c)
         \/ SubmitWake(c)
  PROVE  HeldInv'
<1>1. call \in [Callers -> CallType] /\ th \in [Threads -> ThreadType] /\ call[c] \in CallType
  BY DEF IInv, TypeInv
<1>2. stops \in 0 .. MaxStops /\ MaxStops \in Nat
  BY EngineAssumption DEF HeldInv, JobsInv, DescInv
<1>3. At(c, "none") => call[c].job = 0
  BY Idle DEF HeldInv, JobsInv
<1>4. /\ UNCHANGED <<queue, jobs, work, timers, alarms>> /\ stops' \in 0 .. MaxStops
      /\ OnlyMoves(c)
  <2>1. UNCHANGED <<queue, jobs, work, timers, alarms>>
    <3>1. CASE Start(c) \/ StartTest(c) \/ MakeWorkerFails(c) \/ Stop(c, "none") \/ Stop(c, "clear") \/ Discarded(c)
      BY <3>1 DEF engine, Start, StartTest, MakeWorkerFails, Stop, Discarded
    <3>2. CASE \/ StartSet(c) \/ MakeScheduler(c) \/ MakeSchedulerFails(c) \/ MakeWorker(c)
               \/ StopClear(c) \/ StopWake(c) \/ JoinScheduler(c) \/ JoinWorker(c) \/ SubmitWake(c)
      BY <3>2 DEF StartSet, MakeScheduler, MakeSchedulerFails, MakeWorker,
           StopClear, StopWake, JoinScheduler, JoinWorker, SubmitWake
    <3> QED
      BY <3>1, <3>2
  <2>2. stops' = stops \/ (stops < MaxStops /\ stops' = stops + 1)
    <3>1. CASE Stop(c, "none") \/ Stop(c, "clear")
      BY <3>1 DEF Stop
    <3>2. \/ Start(c) \/ StartTest(c) \/ StartSet(c) \/ MakeSchedulerFails(c) \/ MakeWorkerFails(c)
          \/ StopClear(c) \/ StopWake(c) \/ JoinScheduler(c) \/ Discarded(c) \/ SubmitWake(c)
          => stops' = stops
      BY DEF Start, StartTest, StartSet, MakeSchedulerFails, MakeWorkerFails,
         StopClear, StopWake, JoinScheduler, Discarded, SubmitWake
    <3>3. MakeScheduler(c) \/ MakeWorker(c) \/ JoinWorker(c) => stops' = stops
      BY DEF MakeScheduler, MakeWorker, JoinWorker
    <3> QED
      BY <3>1, <3>2, <3>3
  <2>3. OnlyMoves(c)
    BY <1>1 DEF OnlyMoves, Goto, Return, Start, StartTest, StartSet, MakeScheduler, MakeSchedulerFails,
         MakeWorker, MakeWorkerFails, Stop, StopClear, StopWake, JoinScheduler, JoinWorker, Discarded, SubmitWake
  <2> QED
    BY <1>2, <2>1, <2>2, <2>3
<1>5. \A u \in Threads : Engaged(u)' => th'[u] = th[u]
  <2>1. CASE StopWake(c) \/ SubmitWake(c)
    BY <2>1, WakeSpares DEF StopWake, SubmitWake
  <2>2. CASE MakeScheduler(c) \/ MakeWorker(c)
    <3>1. PICK t \in Threads, where \in {"loop", "pop"} : th' = [th EXCEPT ![t].at = where]
      BY <2>2 DEF MakeScheduler, MakeWorker
    <3> QED
      BY <1>1, <3>1 DEF Engaged, ThreadType
  <2>3. CASE ~(StopWake(c) \/ SubmitWake(c) \/ MakeScheduler(c) \/ MakeWorker(c))
    BY <2>3 DEF engine, Start, StartTest, StartSet, MakeSchedulerFails, MakeWorkerFails,
         Stop, StopClear, JoinScheduler, JoinWorker, Discarded
  <2> QED
    BY <2>1, <2>2, <2>3
<1>6. \/ call'[c] = NoCall
      \/ /\ call'[c].at \notin {"none", "arm", "hold"} /\ call'[c].job = call[c].job
         /\ call[c].at \in HoldPhases \/ call[c].job = 0 \/ call'[c].at \notin HoldPhases
  <2>1. CASE Start(c) \/ StartTest(c) \/ StartSet(c) \/ MakeSchedulerFails(c) \/ StopClear(c)
    BY <1>1, <1>3, <2>1 DEF Goto, At, HoldPhases, Unfinished, CallType,
       Start, StartTest, StartSet, MakeSchedulerFails, StopClear
  <2>2. CASE MakeScheduler(c) \/ MakeWorker(c) \/ MakeWorkerFails(c)
    <3>1. call[c].at \in HoldPhases
      BY <2>2 DEF At, HoldPhases, MakeScheduler, MakeWorker, MakeWorkerFails
    <3>2. call'[c].at \in {"make_worker", "submit", "stop"} /\ call'[c].job = call[c].job
      <4>1. CASE MakeScheduler(c) \/ MakeWorkerFails(c)
        BY <1>1, <4>1 DEF CallType, MakeScheduler, MakeWorkerFails
      <4>2. CASE MakeWorker(c)
        BY <1>1, <4>2 DEF CallType, MakeWorker, At
      <4> QED
        BY <2>2, <4>1, <4>2
    <3> QED
      BY <3>1, <3>2
  <2>3. CASE Stop(c, "none") \/ Stop(c, "clear") \/ StopWake(c) \/ JoinScheduler(c)
    BY <1>1, <1>3, <2>3 DEF At, HoldPhases, Unfinished, CallType, Stop, StopWake, JoinScheduler
  <2>4. CASE JoinWorker(c)
    BY <1>1, <2>4 DEF At, HoldPhases, Unfinished, CallType, JoinWorker
  <2>5. CASE SubmitWake(c)
    BY <1>1, <2>5 DEF SubmitWake, Return
  <2>6. CASE Discarded(c)
    BY <1>1, <2>6 DEF At, HoldPhases, Unfinished, CallType, Discarded
  <2> QED
    BY <2>1, <2>2, <2>3, <2>4, <2>5, <2>6
<1>7. ~running' \/ call'[c].at \in Unsteady => ~running \/ call[c].at \in Unsteady \/ MayStop
  <2>1. CASE Stop(c, "none") \/ Stop(c, "clear")
    BY <2>1 DEF Stop
  <2>2. CASE Start(c) \/ StartTest(c) \/ SubmitWake(c)
    BY <1>1, <2>2 DEF Start, StartTest, SubmitWake, Goto, Return, engine, CallType, Unsteady, Unfinished, NoCall
  <2>3. CASE ~(Stop(c, "none") \/ Stop(c, "clear") \/ Start(c) \/ StartTest(c) \/ SubmitWake(c))
    BY <2>3 DEF At, Unsteady, Unfinished, StartSet, MakeScheduler, MakeSchedulerFails, MakeWorker, MakeWorkerFails,
         StopClear, StopWake, JoinScheduler, JoinWorker, Discarded
  <2> QED
    BY <2>1, <2>2, <2>3
<1> QED
  BY <1>4, <1>5, <1>6, <1>7, CallMoves

-----------------------------------------------------------------------------
\* Steps that take a job further.

\* A job that begins takes a number nobody has.
LEMMA FreeJob ==
  ASSUME AlarmInv, JobsInv, NEW j \in Jobs, Free(j)
  PROVE  /\ fate[j] = "none" /\ desc[j] = 0 /\ j \notin timers /\ j \notin alarms /\ j \notin Outstanding
         /\ \A d \in Callers : Holding(d) \/ At(d, "arm") => call[d].job # j
         /\ \A u \in Threads : Engaged(u) => th[u].job # j
<1>1. fate[j] = "none" /\ desc[j] = 0 /\ j \notin Outstanding
  BY DEF Free, JobsInv, DescInv, Outstanding
<1> QED
  BY <1>1, Whereabouts DEF JobFate

\* emq_push_async, emq_pop_async: the call is for a queue that is there,
\* whoever makes it.
LEMMA AsyncCallStep ==
  ASSUME IsFiniteSet(Clients), IInv, HeldInv, NEW c \in Callers, AsyncCall(c)
  PROVE  HeldInv'
<1>1. PICK j \in Jobs :
        /\ Free(j)
        /\ fate' = [fate EXCEPT ![j] = "calling"] /\ desc' = [desc EXCEPT ![j] = Uses(c)]
        /\ call' = [call EXCEPT ![c].at = "test", ![c].job = j]
  BY DEF AsyncCall
<1>2. /\ UNCHANGED <<running, work, timers, alarms, th, cur, made, handle, stops>>
      /\ count' = [count EXCEPT ![Uses(c)] = @ + 1] /\ Uses(c) # 0 /\ At(c, "none")
  BY DEF AsyncCall, engine
<1>3. Uses(c) = cur
  <2>1. CASE c \in Clients
    BY <1>2, <2>1 DEF Uses, HeldInv, CountInv
  <2>2. CASE c \notin Clients
    <3>1. c \in Threads /\ th[c].at = "run" /\ Uses(c) = desc[th[c].job]
      BY <1>2, <2>2 DEF Uses, Callers
    <3>2. th[c].job \in Jobs /\ fate[th[c].job] = "running"
      BY <3>1 DEF HeldInv, JobsInv, ThreadsInv, ThreadInv, Engaged, JobFate
    <3> QED
      BY <1>2, <3>1, <3>2 DEF HeldInv, CountInv, Outstanding
  <2> QED
    BY <2>1, <2>2
<1>4. /\ fate[j] = "none" /\ desc[j] = 0 /\ j \notin timers /\ j \notin alarms /\ j \notin Outstanding
      /\ \A d \in Callers : Holding(d) \/ At(d, "arm") => call[d].job # j
      /\ \A u \in Threads : Engaged(u) => th[u].job # j
  BY <1>1, FreeJob DEF IInv, HeldInv
<1>5. /\ Spares(j) /\ fate'[j] = "calling" /\ desc'[j] = cur
      /\ fate \in [Jobs -> Fates] /\ desc' \in [Jobs -> Nat]
  BY <1>1, <1>3 DEF Spares, IInv, TypeInv, HeldInv, JobsInv, DescInv
<1>6. call'[c].at = "test" /\ call'[c].job = j /\ OnlyMoves(c)
  BY <1>1 DEF IInv, TypeInv, CallType, OnlyMoves
<1>7. CallsInv'
  <2>1. CallInv(c)'
    BY <1>2, <1>3, <1>4, <1>5, <1>6 DEF CallInv, Holding, At, OnlyMoves
  <2> QED
    BY <1>2, <1>4, <1>5, <1>6, <2>1, CallsKept DEF OnlyMoves, HeldInv, JobsInv, IInv
<1>8. ThreadsInv'
  BY <1>2, <1>4, <1>5, NoneIsZero, ThreadsKept DEF Engaged, HeldInv, JobsInv
<1>9. WorkInv' /\ TimersInv' /\ DescInv'
  <2>1. WorkInv'
    BY <1>2, <1>4, <1>5, WorkKept DEF IInv, HeldInv, JobsInv
  <2>2. TimersInv'
    BY <1>2, <1>4, <1>5, TimersKept DEF IInv, HeldInv, JobsInv
  <2>3. DescInv'
    BY <1>2, <1>5 DEF DescInv, Spares, HeldInv, JobsInv
  <2> QED
    BY <2>1, <2>2, <2>3
<1>10. QuietInv'
  <2>1. Unsettled' => Unsettled
    BY <1>6 DEF Unsettled, Unsteady, Unfinished, OnlyMoves
  <2> QED
    BY <1>2, <1>5, <2>1, QuietKept DEF HeldInv, Spares
<1>11. CountInv'
  <2>1. (j \in Outstanding)'
    BY <1>2, <1>3, <1>5 DEF Outstanding
  <2> QED
    BY <1>2, <1>3, <1>4, <1>5, <2>1, CallCounted DEF HeldInv
<1> QED
  BY <1>7, <1>8, <1>9, <1>10, <1>11 DEF HeldInv, JobsInv

\* emq_engine_schedule
LEMMA ScheduleStep ==
  ASSUME IInv, HeldInv, NEW c \in Callers, Schedule(c)
  PROVE  HeldInv'
<1>1. PICK j \in Jobs :
        /\ Free(j) /\ fate' = [fate EXCEPT ![j] = "armed"] /\ timers' = timers \cup {j}
        /\ call' = [call EXCEPT ![c].at = "arm", ![c].job = j]
  BY DEF Schedule
<1>2. UNCHANGED <<running, work, alarms, th, queue, desc, stops>>
  BY DEF Schedule
<1>3. /\ fate[j] = "none" /\ desc[j] = 0 /\ j \notin timers /\ j \notin alarms /\ j \notin Outstanding
      /\ \A d \in Callers : Holding(d) \/ At(d, "arm") => call[d].job # j
      /\ \A u \in Threads : Engaged(u) => th[u].job # j
  BY <1>1, FreeJob DEF IInv, HeldInv
<1>4. Spares(j) /\ fate'[j] = "armed" /\ fate \in [Jobs -> Fates]
  BY <1>1, <1>2 DEF Spares, IInv, TypeInv
<1>5. call'[c].at = "arm" /\ call'[c].job = j /\ OnlyMoves(c)
  BY <1>1 DEF IInv, TypeInv, CallType, OnlyMoves
<1>6. CallsInv'
  <2>1. CallInv(c)'
    BY <1>4, <1>5 DEF CallInv, Holding, HoldPhases, Unfinished, At
  <2> QED
    BY <1>2, <1>3, <1>4, <1>5, <2>1, CallsKept DEF queue, OnlyMoves, HeldInv, JobsInv, IInv
<1>7. ThreadsInv'
  BY <1>1, <1>2, <1>3, <1>4, NoneIsZero, ThreadsKept DEF Engaged, HeldInv, JobsInv
<1>8. WorkInv' /\ TimersInv' /\ DescInv'
  <2>1. WorkInv'
    BY <1>2, <1>3, <1>4, WorkKept DEF IInv, HeldInv, JobsInv
  <2>2. TimersInv'
    BY <1>1, <1>2, <1>3, <1>4, TimersKept DEF IInv, HeldInv, JobsInv
  <2>3. DescInv'
    BY <1>2, <1>4 DEF DescInv, Spares, HeldInv, JobsInv
  <2> QED
    BY <2>1, <2>2, <2>3
<1>9. QuietInv'
  <2>1. Unsettled' => Unsettled
    BY <1>5 DEF Unsettled, Unsteady, Unfinished, OnlyMoves
  <2> QED
    BY <1>2, <1>4, <2>1, QuietKept DEF HeldInv, Spares
<1>10. CountInv'
  BY <1>2, <1>3, <1>4, CountKept DEF HeldInv, Outstanding
<1> QED
  BY <1>6, <1>7, <1>8, <1>9, <1>10 DEF HeldInv, JobsInv

\* emq_engine_submit takes the job: the engine runs, so it may be a call's.
LEMMA SubmitStep ==
  ASSUME Discipline = "callbacks", IInv, HeldInv, NEW c \in Callers, Submit(c)
  PROVE  HeldInv'
<1>1. call \in [Callers -> CallType] /\ call[c] \in CallType
  BY DEF IInv, TypeInv
<1>2. UNCHANGED <<running, timers, alarms, th, queue, desc, stops>> /\ At(c, "submit")
  BY DEF Submit
<1>3. CASE UNCHANGED <<work, fate>>
  <2>1. OnlyMoves(c) /\ (call'[c] = NoCall \/ (call'[c].at = "refuse" /\ call'[c].job = call[c].job))
    BY <1>1, <1>2, <1>3 DEF Submit, Goto, Return, OnlyMoves, CallType
  <2>2. call[c].at \in HoldPhases /\ (call'[c].at \in {"none", "refuse"})
    BY <1>2, <2>1 DEF At, HoldPhases, NoCall
  <2>3. stops' \in 0 .. MaxStops
    BY <1>2 DEF HeldInv, JobsInv, DescInv
  <2> QED
    BY <1>2, <1>3, <2>1, <2>2, <2>3, CallMoves DEF jobs, Unsteady, Unfinished
<1>4. CASE ~UNCHANGED <<work, fate>>
  <2> DEFINE j == call[c].job
  <2>1. /\ j # 0 /\ Len(work) < JobCap /\ work' = Append(work, j)
        /\ fate' = [fate EXCEPT ![j] = "queued"] /\ call' = [call EXCEPT ![c].at = "wake"]
    BY <1>4 DEF Submit, Goto
  <2>2. /\ j \in Jobs /\ fate[j] = "calling" /\ desc[j] # 0
        /\ \A d \in Callers \ {c} : Holding(d) => call[d].job # j
    BY <1>2, <2>1 DEF HeldInv, JobsInv, CallsInv, CallInv, Holding, At, HoldPhases
  <2>3. call'[c].at = "wake" /\ OnlyMoves(c)
    BY <1>1, <2>1 DEF CallType, OnlyMoves
  <2> HIDE DEF j
  <2>4. Spares(j) /\ fate'[j] = "queued"
    BY <1>2, <2>1, <2>2 DEF Spares, IInv, TypeInv
  <2>5. /\ \A d \in Callers : At(d, "arm") => call[d].job # j
        /\ \A u \in Threads : Engaged(u) => th[u].job # j
        /\ j \notin timers /\ j \notin alarms
    BY <2>2, Whereabouts DEF IInv, HeldInv, JobFate
  <2>6. CallsInv'
    <3>1. CallInv(c)'
      BY <2>3 DEF CallInv, Holding, HoldPhases, Unfinished, At
    <3> QED
      BY <1>2, <2>2, <2>3, <2>4, <2>5, <3>1, CallsKept DEF queue, OnlyMoves, HeldInv, JobsInv, IInv
  <2>7. ThreadsInv'
    BY <1>2, <2>4, <2>5, NoneIsZero, ThreadsKept DEF Engaged, HeldInv, JobsInv
  <2>8. WorkInv' /\ TimersInv' /\ DescInv'
    <3>1. WorkInv'
      BY <2>1, <2>2, <2>4, WorkKept DEF IInv, HeldInv, JobsInv
    <3>2. TimersInv'
      BY <1>2, <2>4, <2>5, TimersKept DEF IInv, HeldInv, JobsInv
    <3>3. DescInv'
      BY <1>2, <2>4 DEF DescInv, Spares, HeldInv, JobsInv
    <3> QED
      BY <3>1, <3>2, <3>3
  <2>9. QuietInv'
    <3>1. running'
      BY <1>2 DEF IInv, StopInv, PhaseInv, At
    <3>2. ASSUME NEW d \in Callers, call'[d].at \in Unsteady PROVE FALSE
      <4>1. d # c /\ call'[d] = call[d]
        BY <2>3, <3>2 DEF Unsteady, Unfinished, OnlyMoves
      <4>2. call[d].at \in Solo
        BY <3>2, <4>1 DEF Unsteady, Unfinished, Solo
      <4> QED
        BY <1>2, <4>1, <4>2, OthersOfBusy DEF IInv, At
    <3> QED
      BY <3>1, <3>2 DEF QuietInv, Unsettled
  <2>10. CountInv'
    BY <1>2, <2>2, <2>4, CountKept DEF HeldInv, Outstanding
  <2> QED
    BY <2>6, <2>7, <2>8, <2>9, <2>10 DEF HeldInv, JobsInv
<1> QED
  BY <1>3, <1>4

\* A call that is refused, or was none, gives back the count it took.
LEMMA RefuseStep ==
  ASSUME Discipline = "callbacks", IsFiniteSet(Clients), IInv, HeldInv, NEW c \in Callers, Refuse(c)
  PROVE  HeldInv'
<1>1. OnlyMoves(c) /\ call'[c] = NoCall
  BY DEF Refuse, Return, OnlyMoves, IInv, TypeInv
<1>2. UNCHANGED <<running, work, timers, alarms, th, cur, made, handle, desc, stops>> /\ At(c, "refuse")
  BY DEF Refuse, engine
<1>3. CASE call[c].job = 0
  <2>1. UNCHANGED <<fate, count>>
    BY <1>3 DEF Refuse
  <2>2. stops' \in 0 .. MaxStops
    BY <1>2 DEF HeldInv, JobsInv, DescInv
  <2> QED
    BY <1>1, <1>2, <2>1, <2>2, CallMoves DEF queue, jobs, NoCall, Unsteady, Unfinished
<1>4. CASE call[c].job # 0
  <2>0. PICK j : j = call[c].job
    OBVIOUS
  <2>1. fate' = [fate EXCEPT ![j] = "refused"] /\ count' = [count EXCEPT ![desc[j]] = @ - 1]
    BY <1>4, <2>0 DEF Refuse
  <2>2. /\ j \in Jobs /\ fate[j] = "calling" /\ desc[j] # 0
        /\ \A d \in Callers \ {c} : Holding(d) => call[d].job # j
    BY <1>2, <1>4, <2>0 DEF HeldInv, JobsInv, CallsInv, CallInv, Holding, At, HoldPhases
  <2>3. Spares(j) /\ fate'[j] = "refused"
    BY <1>2, <2>1, <2>2 DEF Spares, IInv, TypeInv
  <2>4. /\ \A d \in Callers : At(d, "arm") => call[d].job # j
        /\ \A u \in Threads : Engaged(u) => th[u].job # j
        /\ j \notin timers /\ j \notin alarms
    BY <2>2, Whereabouts DEF IInv, HeldInv, JobFate
  <2>5. CallsInv'
    <3>1. CallInv(c)'
      BY <1>1 DEF CallInv, Holding, At, NoCall
    <3> QED
      BY <1>1, <1>2, <2>2, <2>3, <2>4, <3>1, CallsKept DEF OnlyMoves, HeldInv, JobsInv, IInv
  <2>6. ThreadsInv'
    BY <1>2, <2>3, <2>4, NoneIsZero, ThreadsKept DEF Engaged, HeldInv, JobsInv
  <2>7. WorkInv' /\ TimersInv' /\ DescInv'
    <3>1. WorkInv'
      BY <1>2, <2>2, <2>3, WorkKept DEF IInv, HeldInv, JobsInv
    <3>2. TimersInv'
      BY <1>2, <2>3, <2>4, TimersKept DEF IInv, HeldInv, JobsInv
    <3>3. DescInv'
      BY <1>2, <2>3 DEF DescInv, Spares, HeldInv, JobsInv
    <3> QED
      BY <3>1, <3>2, <3>3
  <2>8. QuietInv'
    <3>1. Unsettled' => Unsettled
      BY <1>1 DEF Unsettled, Unsteady, Unfinished, OnlyMoves, NoCall
    <3> QED
      BY <1>2, <2>3, <3>1, QuietKept DEF HeldInv, Spares
  <2>9. CountInv'
    <3>1. j \in Outstanding /\ (j \notin Outstanding)'
      BY <2>2, <2>3 DEF Outstanding
    <3> QED
      BY <1>2, <2>1, <2>2, <2>3, <3>1, CallReturned DEF HeldInv
  <2> QED
    BY <2>5, <2>6, <2>7, <2>8, <2>9 DEF HeldInv, JobsInv
<1> QED
  BY <1>3, <1>4

\* A timer is given to the wheel, or taken back; the tick of a pop drops one.
LEMMA TimerSteps ==
  ASSUME IInv, IInv', HeldInv, NEW c \in Callers, Arm(c) \/ ArmFails(c) \/ PopTicks(c)
  PROVE  HeldInv'
<1>1. UNCHANGED <<running, work, th, queue, desc, stops>>
  BY DEF Arm, ArmFails, PopTicks, jobs
<1>2. /\ OnlyMoves(c) /\ (call'[c] = NoCall \/ call'[c] = call[c])
      /\ At(c, "arm") => call'[c] = NoCall
      /\ ~At(c, "arm") => call' = call /\ At(c, "none")
  BY DEF Arm, ArmFails, PopTicks, Return, OnlyMoves, At, IInv, TypeInv
<1>3. \E j \in timers :
        /\ fate[j] = "armed" /\ timers' \subseteq timers /\ alarms' \subseteq alarms \cup {j}
        /\ \A d \in Callers \ {c} : At(d, "arm") => call[d].job # j
        /\ \/ fate' = fate
           \/ fate' = [fate EXCEPT ![j] = "refused"] /\ j \notin timers'
           \/ fate' = [fate EXCEPT ![j] = "dropped"]
        /\ j \in alarms' => fate'[j] = "armed"
  <2>1. CASE Arm(c)
    <3>1. /\ call[c].job \in timers \ alarms /\ fate[call[c].job] = "armed"
          /\ \A d \in Callers \ {c} : At(d, "arm") => call[d].job # call[c].job
      BY <2>1 DEF Arm, IInv, AlarmInv, HeldInv, JobsInv, CallsInv, CallInv
    <3> QED
      BY <2>1, <3>1 DEF Arm, jobs
  <2>2. CASE ArmFails(c)
    <3>1. /\ call[c].job \in timers \ alarms /\ fate[call[c].job] = "armed"
          /\ \A d \in Callers \ {c} : At(d, "arm") => call[d].job # call[c].job
      BY <2>2 DEF ArmFails, IInv, AlarmInv, HeldInv, JobsInv, CallsInv, CallInv
    <3> QED
      BY <2>2, <3>1 DEF ArmFails
  <2>3. CASE PopTicks(c)
    <3>1. PICK j \in alarms : alarms' = alarms \ {j} /\ fate' = [fate EXCEPT ![j] = "dropped"]
      BY <2>3 DEF PopTicks
    <3>2. j \in timers /\ fate[j] = "armed" /\ timers' = timers
      BY <2>3 DEF PopTicks, IInv, AlarmInv, HeldInv, JobsInv, TimersInv
    <3>3. \A d \in Callers \ {c} : At(d, "arm") => call[d].job # j
      BY DEF IInv, AlarmInv
    <3> QED
      BY <3>1, <3>2, <3>3
  <2> QED
    BY <2>1, <2>2, <2>3
<1>4. PICK j \in timers :
        /\ fate[j] = "armed" /\ timers' \subseteq timers /\ alarms' \subseteq alarms \cup {j}
        /\ \A d \in Callers \ {c} : At(d, "arm") => call[d].job # j
        /\ \/ fate' = fate
           \/ fate' = [fate EXCEPT ![j] = "refused"] /\ j \notin timers'
           \/ fate' = [fate EXCEPT ![j] = "dropped"]
        /\ j \in alarms' => fate'[j] = "armed"
  BY <1>3
<1>5. /\ j \in Jobs /\ desc[j] = 0 /\ Spares(j)
      /\ fate'[j] \in {"armed", "refused", "dropped"} /\ (j \in timers' => fate'[j] # "refused")
  BY <1>1, <1>4 DEF Spares, IInv, TypeInv, AlarmInv, HeldInv, JobsInv, TimersInv
<1>6. /\ \A d \in Callers : Holding(d) => call[d].job # j
      /\ \A u \in Threads : Engaged(u) => th[u].job # j
  <2>1. \A u \in Threads : Engaged(u) => th[u].job # j
    BY <1>4, <1>5, Whereabouts DEF HeldInv, JobsInv, ThreadsInv, ThreadInv, JobFate, Engaged, Is, IInv
  <2> QED
    BY <1>4, <1>5, <2>1, Whereabouts DEF IInv, HeldInv
<1>7. CallsInv'
  <2>1. CallInv(c)'
    <3>1. CASE call'[c] = NoCall
      BY <3>1 DEF CallInv, Holding, At, NoCall
    <3>2. CASE call'[c] # NoCall
      <4>1. At(c, "none")
        BY <1>2, <3>2
      <4> QED
        BY <1>2, <3>2, <4>1, Idle DEF HeldInv, JobsInv
    <3> QED
      BY <3>1, <3>2
  <2> QED
    BY <1>1, <1>2, <1>4, <1>5, <1>6, <2>1, CallsKept DEF queue, OnlyMoves, HeldInv, JobsInv, IInv
<1>8. ThreadsInv'
  BY <1>1, <1>4, <1>5, <1>6, NoneIsZero, ThreadsKept DEF Engaged, HeldInv, JobsInv
<1>9. WorkInv' /\ TimersInv' /\ DescInv'
  <2>1. WorkInv'
    BY <1>1, <1>4, <1>5, WorkKept DEF IInv, HeldInv, JobsInv
  <2>2. TimersInv'
    BY <1>1, <1>4, <1>5, TimersKept DEF IInv, HeldInv, JobsInv
  <2>3. DescInv'
    BY <1>1, <1>5 DEF DescInv, Spares, HeldInv, JobsInv
  <2> QED
    BY <2>1, <2>2, <2>3
<1>10. QuietInv'
  <2>1. Unsettled' => Unsettled
    BY <1>2 DEF Unsettled, Unsteady, Unfinished, OnlyMoves, NoCall
  <2> QED
    BY <1>1, <1>5, <2>1, QuietKept DEF HeldInv, Spares
<1>11. CountInv'
  BY <1>1, <1>5, CountKept DEF HeldInv, Outstanding
<1> QED
  BY <1>7, <1>8, <1>9, <1>10, <1>11 DEF HeldInv, JobsInv

\* emq_engine_clear_timers: none has a descriptor.
LEMMA ClearTimersStep ==
  ASSUME IInv, IInv', HeldInv, NEW c \in Callers, ClearTimers(c)
  PROVE  HeldInv'
<1>1. /\ UNCHANGED <<running, work, th, queue, desc, stops>> /\ At(c, "clear")
      /\ timers' = {} /\ alarms' = alarms \ timers
      /\ fate' = [j \in Jobs |-> IF j \in timers THEN "freed" ELSE fate[j]]
      /\ OnlyMoves(c) /\ call'[c] = NoCall
  BY DEF ClearTimers, Return, OnlyMoves, IInv, TypeInv
<1>2. Alone(c) /\ Alive = {} /\ work = <<>>
  BY <1>1 DEF IInv, StopInv, PhaseInv, Solo, At
<1>3. \A d \in Callers : call'[d] = NoCall
  BY <1>1, <1>2, Idle DEF Alone, OnlyMoves, HeldInv, JobsInv
<1>4. CallsInv'
  BY <1>3 DEF CallsInv, CallInv, Holding, At, NoCall
<1>5. ThreadsInv'
  BY <1>1, <1>2 DEF Alive, ThreadsInv, ThreadInv, Engaged, Is
<1>6. WorkInv' /\ TimersInv' /\ DescInv'
  <2>1. WorkInv'
    BY <1>1, <1>2, EngineAssumption DEF WorkInv, HeldInv, JobsInv
  <2>2. alarms' = {}
    BY <1>1 DEF IInv, AlarmInv
  <2>3. TimersInv' /\ DescInv'
    BY <1>1, <2>2 DEF TimersInv, DescInv, HeldInv, JobsInv
  <2> QED
    BY <2>1, <2>3
<1>7. QuietInv'
  <2>1. ~Unsettled'
    BY <1>3 DEF Unsettled, Unsteady, Unfinished, NoCall
  <2>2. \A j \in Jobs : fate'[j] \in {"queued", "running"} => fate[j] = fate'[j]
    BY <1>1
  <2> QED
    BY <1>1, <2>1, <2>2 DEF QuietInv, HeldInv
<1>8. CountInv'
  <2>1. \A j \in timers : desc[j] = 0
    BY DEF HeldInv, JobsInv, TimersInv
  <2>2. Outstanding' = Outstanding
    BY <1>1, <2>1 DEF Outstanding
  <2> QED
    BY <1>1, <2>2 DEF HeldInv, CountInv, Handles, Calls, queue
<1> QED
  BY <1>4, <1>5, <1>6, <1>7, <1>8 DEF HeldInv, JobsInv

\* emq_engine_discard_jobs: no job it throws away holds a descriptor.
LEMMA DiscardStep ==
  ASSUME IInv, HeldInv, NEW c \in Callers, Discard(c)
  PROVE  HeldInv'
<1> DEFINE j == Head(work)
<1>1. /\ UNCHANGED <<running, timers, alarms, th, queue, desc, call, stops>> /\ At(c, "discard")
      /\ work # <<>> /\ work' = Tail(work) /\ fate' = [fate EXCEPT ![j] = "discarded"]
  BY DEF Discard
<1>2. j \in Jobs /\ fate[j] = "queued"
  <2>1. work \in Seq(Nat)
    BY DEF IInv, TypeInv
  <2>2. 1 \in 1 .. Len(work) /\ j = work[1]
    BY <1>1, <2>1
  <2> QED
    BY <2>2 DEF HeldInv, JobsInv, WorkInv
<1> HIDE DEF j
<1>3. Spares(j) /\ fate'[j] = "discarded"
  BY <1>1, <1>2 DEF Spares, IInv, TypeInv
<1>4. /\ \A d \in Callers : Holding(d) \/ At(d, "arm") => call[d].job # j
      /\ \A u \in Threads : Engaged(u) => th[u].job # j
      /\ j \notin timers /\ j \notin alarms
  BY <1>2, Whereabouts DEF IInv, HeldInv, JobFate
<1>5. desc[j] = 0
  <2>1. Unsettled
    BY <1>1 DEF Unsettled, Unsteady, Unfinished, At
  <2> QED
    BY <1>2, <2>1 DEF HeldInv, QuietInv
<1>6. CallsInv'
  BY <1>1, <1>3, <1>4, NoneIsZero, CallsKept DEF queue, HeldInv, JobsInv, IInv
<1>7. ThreadsInv'
  BY <1>1, <1>3, <1>4, NoneIsZero, ThreadsKept DEF Engaged, HeldInv, JobsInv
<1>8. WorkInv' /\ TimersInv' /\ DescInv'
  <2>1. WorkInv'
    BY <1>1, <1>3, WorkKept DEF IInv, HeldInv, JobsInv, j
  <2>2. TimersInv'
    BY <1>1, <1>3, <1>4, TimersKept DEF IInv, HeldInv, JobsInv
  <2>3. DescInv'
    BY <1>1, <1>3 DEF DescInv, Spares, HeldInv, JobsInv
  <2> QED
    BY <2>1, <2>2, <2>3
<1>9. QuietInv'
  BY <1>1, <1>3, QuietKept DEF HeldInv, Spares, Unsettled
<1>10. CountInv'
  BY <1>1, <1>3, <1>5, CountKept DEF HeldInv, Outstanding
<1> QED
  BY <1>6, <1>7, <1>8, <1>9, <1>10 DEF HeldInv, JobsInv

\* emq_queue_create, emq_queue_open: a descriptor is left to be counted.
LEMMA HandleSteps ==
  ASSUME IsFiniteSet(Clients), IInv, HeldInv, NEW c \in Clients, CreateQueue(c) \/ OpenQueue(c)
  PROVE  HeldInv'
<1>1. /\ UNCHANGED <<running, work, timers, alarms, th, jobs, count, handle, stops>>
      /\ At(c, "none") /\ handle[c] = 0 /\ c \in Callers
      /\ OnlyMoves(c) /\ call'[c].at = "hold" /\ call'[c].i = cur'
      /\ \/ cur = 0 /\ made < MaxDescs /\ cur' = made + 1 /\ made' = made + 1
         \/ cur # 0 /\ cur' = cur /\ made' = made
  BY DEF CreateQueue, OpenQueue, engine, queue, OnlyMoves, Callers, IInv, TypeInv, CallType
<1>2. cur' # 0 /\ cur' \in 0 .. made' /\ made' \in 0 .. MaxDescs
  BY <1>1, EngineAssumption DEF HeldInv, CountInv
<1>3. CallsInv'
  <2>1. CallInv(c)'
    BY <1>1, <1>2 DEF CallInv, Holding, HoldPhases, Unfinished, At
  <2>2. ASSUME NEW d \in Callers \ {c}
        PROVE  /\ call'[d] = call[d] /\ (Holding(d) \/ At(d, "arm") => call[d].job # 0)
               /\ (At(d, "hold") => cur' = cur /\ handle'[d] = handle[d])
    <3>1. At(d, "hold") => cur # 0
      BY DEF HeldInv, JobsInv, CallsInv, CallInv
    <3> QED
      BY <1>1, <3>1, NoneIsZero DEF OnlyMoves, Holding, IInv, AlarmInv
  <2>3. Spares(0)
    BY <1>1 DEF Spares, jobs
  <2> QED
    BY <2>1, <2>2, <2>3, CallsKept DEF HeldInv, JobsInv, IInv
<1>4. WorkInv' /\ ThreadsInv' /\ TimersInv' /\ DescInv'
  BY <1>1 DEF jobs, HeldInv, JobsInv, WorkInv, ThreadsInv, ThreadInv, Engaged, Is, TimersInv, DescInv
<1>5. QuietInv'
  <2>1. Unsettled' => Unsettled
    BY <1>1 DEF Unsettled, Unsteady, Unfinished, OnlyMoves
  <2> QED
    BY <1>1, <2>1, QuietKept DEF HeldInv, jobs
<1>6. CountInv'
  <2>1. Outstanding' = Outstanding /\ \A d \in 1 .. MaxDescs : Handles(d)' = Handles(d) /\ Calls(d)' = Calls(d)
    BY <1>1 DEF jobs, Outstanding, Handles, Calls
  <2>2. CASE cur' = cur
    BY <1>1, <1>2, <2>1, <2>2 DEF HeldInv, CountInv, jobs
  <2>3. CASE cur = 0
    <3>1. Outstanding = {} /\ \A e \in Clients : handle[e] = 0
      BY <2>3, NobodyHolds DEF HeldInv
    <3> QED
      BY <1>1, <1>2, <2>1, <3>1 DEF HeldInv, CountInv
  <2> QED
    BY <1>1, <2>2, <2>3
<1> QED
  BY <1>3, <1>4, <1>5, <1>6 DEF HeldInv, JobsInv

\* A handle is given out or closed, and a queue nobody holds destroyed.
LEMMA QueueSteps ==
  ASSUME Discipline = "callbacks", IsFiniteSet(Clients), IInv, HeldInv, NEW c \in Callers,
         Hold(c) \/ (c \in Clients /\ (CloseQueue(c) \/ DestroyQueue(c)))
  PROVE  HeldInv'
<1>1. /\ UNCHANGED <<running, work, timers, alarms, th, jobs, made, stops>> /\ c \in Clients
      /\ OnlyMoves(c) /\ (call'[c] = NoCall \/ call' = call)
      /\ \A d \in Clients \ {c} : handle'[d] = handle[d]
      /\ cur' = cur \/ (DestroyQueue(c) /\ call' = call /\ \A d \in Callers : ~At(d, "hold"))
  BY DEF Hold, CloseQueue, DestroyQueue, engine, Return, OnlyMoves, IInv, TypeInv,
     HeldInv, JobsInv, CallsInv, CallInv, CountInv
<1>2. Spares(0)
  BY <1>1 DEF Spares, jobs
<1>3. CallsInv'
  <2>1. call'[c] = NoCall
    <3>1. CASE Hold(c)
      BY <3>1 DEF Hold, Return, IInv, TypeInv
    <3>2. CASE ~Hold(c)
      BY <3>2, Idle DEF CloseQueue, DestroyQueue, HeldInv, JobsInv
    <3> QED
      BY <3>1, <3>2
  <2>2. CallInv(c)'
    BY <2>1 DEF CallInv, Holding, At, NoCall
  <2>3. ASSUME NEW d \in Callers \ {c}
        PROVE  /\ call'[d] = call[d] /\ (Holding(d) \/ At(d, "arm") => call[d].job # 0)
               /\ (At(d, "hold") => cur' = cur /\ handle'[d] = handle[d])
    <3>1. At(d, "hold") => d \in Clients
      BY DEF HeldInv, JobsInv, CallsInv, CallInv
    <3> QED
      BY <1>1, <3>1, NoneIsZero DEF OnlyMoves, Holding, IInv, AlarmInv
  <2> QED
    BY <1>2, <2>2, <2>3, CallsKept DEF HeldInv, JobsInv, IInv
<1>4. WorkInv' /\ ThreadsInv' /\ TimersInv' /\ DescInv'
  BY <1>1 DEF jobs, HeldInv, JobsInv, WorkInv, ThreadsInv, ThreadInv, Engaged, Is, TimersInv, DescInv
<1>5. QuietInv'
  <2>1. Unsettled' => Unsettled
    BY <1>1 DEF Unsettled, Unsteady, Unfinished, OnlyMoves, NoCall
  <2> QED
    BY <1>1, <2>1, QuietKept DEF HeldInv, jobs
<1>6. CountInv'
  <2>1. CASE Hold(c)
    <3>1. call[c].i = cur /\ cur # 0 /\ handle[c] = 0
      BY <2>1 DEF Hold, HeldInv, JobsInv, CallsInv, CallInv
    <3> QED
      BY <1>1, <2>1, <3>1, HandleCounted DEF Hold, HeldInv
  <2>2. CASE CloseQueue(c)
    BY <1>1, <2>2, HandleReturned DEF CloseQueue, HeldInv
  <2>3. CASE DestroyQueue(c)
    <3>1. Outstanding = {} /\ \A e \in Clients : handle[e] = 0
      BY <2>3, NobodyHolds DEF DestroyQueue, HeldInv
    <3>2. UNCHANGED <<count, handle>> /\ cur' = 0
      BY <2>3 DEF DestroyQueue
    <3>3. Outstanding' = Outstanding /\ \A d \in 1 .. MaxDescs : Handles(d)' = Handles(d) /\ Calls(d)' = Calls(d)
      BY <1>1, <3>2 DEF jobs, Outstanding, Handles, Calls
    <3> QED
      BY <1>1, <3>1, <3>2, <3>3 DEF HeldInv, CountInv
  <2> QED
    BY <2>1, <2>2, <2>3
<1> QED
  BY <1>3, <1>4, <1>5, <1>6 DEF HeldInv, JobsInv

-----------------------------------------------------------------------------
\* The threads' own.

\* emq_wheel_submit finds the timer of an alarm listed, and takes it.
LEMMA AlarmStep ==
  ASSUME IInv, HeldInv, NEW t \in Threads, Alarm(t)
  PROVE  HeldInv'
<1>1. UNCHANGED <<running, work, queue, jobs, call, stops>> /\ Is(t, "tick")
  BY DEF Alarm
<1>2. PICK j \in alarms : /\ alarms' = alarms \ {j} /\ timers' = timers \ {j}
                          /\ th' = [th EXCEPT ![t] = [at |-> "fire", job |-> j]]
  BY DEF Alarm, IInv, AlarmInv
<1>3. j \in Jobs /\ j \in timers /\ fate[j] = "armed" /\ desc[j] = 0
  BY DEF IInv, AlarmInv, HeldInv, JobsInv, TimersInv
<1>4. th \in [Threads -> ThreadType] /\ th'[t] = [at |-> "fire", job |-> j]
  BY <1>2 DEF IInv, TypeInv
<1>5. \A u \in Threads : Engaged(u) => th[u].job # j
  BY <1>3, Whereabouts DEF HeldInv, JobsInv, ThreadsInv, ThreadInv, JobFate, Engaged, Is, IInv
<1>6. Spares(0) /\ UNCHANGED <<fate, desc>>
  BY <1>1 DEF Spares, jobs
<1>7. CallsInv' /\ WorkInv' /\ DescInv' /\ TimersInv' /\ QuietInv'
  <2>1. CallsInv'
    BY <1>1, <1>6 DEF queue, HeldInv, JobsInv, CallsInv, CallInv, Holding, At
  <2>2. WorkInv' /\ DescInv' /\ TimersInv' /\ QuietInv'
    BY <1>1, <1>2, <1>6 DEF HeldInv, JobsInv, WorkInv, DescInv, TimersInv, QuietInv, Unsettled
  <2> QED
    BY <2>1, <2>2
<1>8. ThreadsInv'
  <2>1. \A u \in Threads \ {t} : th'[u] = th[u]
    BY <1>2, <1>4
  <2>2. ThreadInv(t)'
    BY <1>2, <1>3, <1>4, <1>5, <1>6, <2>1 DEF ThreadInv, Engaged, Is, JobFate
  <2>3. \A u \in Threads \ {t} : Engaged(u)' => th'[u] = th[u] /\ th[u].job # j
    BY <1>5, <2>1 DEF Engaged
  <2>4. Spares(j) /\ timers' \subseteq timers \cup {j}
    BY <1>2, <1>6 DEF Spares
  <2> QED
    BY <2>2, <2>3, <2>4, ThreadsKept DEF HeldInv, JobsInv
<1>9. CountInv'
  BY <1>1, <1>6 DEF queue, HeldInv, CountInv, Handles, Calls, Outstanding
<1> QED
  BY <1>7, <1>8, <1>9 DEF HeldInv, JobsInv

\* What a thread does with the job it has, or with the first of the queue.
LEMMA JobSteps ==
  ASSUME IsFiniteSet(Clients), IInv, IInv', HeldInv, NEW t \in Threads,
         Fire(t) \/ FireStopped(t) \/ TakeJob(t) \/ Callback(t) \/ Release(t)
  PROVE  HeldInv'
<1>1. /\ UNCHANGED <<running, timers, alarms, call, cur, made, handle, desc, stops>>
      /\ th \in [Threads -> ThreadType] /\ th[t] \in ThreadType
  BY DEF Fire, FireStopped, TakeJob, Callback, Release, queue, IInv, TypeInv
<1>2. PICK j : j = IF TakeJob(t) THEN Head(work) ELSE th[t].job
  OBVIOUS
<1>3. /\ ~TakeJob(t) => Engaged(t) /\ fate[j] = JobFate(th[t].at)
      /\ TakeJob(t) => ~Engaged(t) /\ fate[j] = "queued" /\ work # <<>>
      /\ j \in Jobs
  <2>1. CASE TakeJob(t)
    <3>1. work \in Seq(Nat) /\ work # <<>> /\ j = Head(work)
      BY <1>2, <2>1 DEF TakeJob, IInv, TypeInv
    <3>2. 1 \in 1 .. Len(work) /\ j = work[1]
      BY <3>1
    <3> QED
      BY <2>1, <3>1, <3>2 DEF TakeJob, Is, Engaged, HeldInv, JobsInv, WorkInv
  <2>2. CASE ~TakeJob(t)
    <3>1. Engaged(t) /\ j = th[t].job
      BY <1>2, <2>2 DEF Fire, FireStopped, Callback, Release, Is, Engaged
    <3> QED
      BY <2>2, <3>1 DEF HeldInv, JobsInv, ThreadsInv, ThreadInv
  <2> QED
    BY <2>1, <2>2
<1>4. fate[j] \in {"armed", "queued", "running", "answered"}
  BY <1>3 DEF JobFate
<1>5. \E f \in Fates : fate' = [fate EXCEPT ![j] = f]
  BY <1>2 DEF Fire, FireStopped, TakeJob, Callback, Release, Fates
<1>6. Spares(j) /\ fate \in [Jobs -> Fates]
  BY <1>1, <1>5 DEF Spares, IInv, TypeInv
<1>7. /\ \A d \in Callers : Holding(d) \/ At(d, "arm") => call[d].job # j
      /\ \A u \in Threads \ {t} : Engaged(u) => th[u].job # j
      /\ j \notin timers /\ j \notin alarms
  <2>1. \A u \in Threads \ {t} : Engaged(u) => th[u].job # j
    <3>1. CASE TakeJob(t)
      BY <1>3, <3>1, Whereabouts DEF IInv, HeldInv, JobFate
    <3>2. CASE ~TakeJob(t)
      BY <1>2, <1>3, <3>2 DEF HeldInv, JobsInv, ThreadsInv, ThreadInv
    <3> QED
      BY <3>1, <3>2
  <2>2. j \notin timers /\ j \notin alarms
    <3>1. CASE Is(t, "fire")
      BY <1>2, <3>1 DEF TakeJob, Is, HeldInv, JobsInv, ThreadsInv, ThreadInv, IInv, AlarmInv
    <3>2. CASE ~Is(t, "fire")
      <4>1. fate[j] \in {"queued", "running", "answered"}
        BY <1>3, <3>2 DEF Engaged, JobFate, Is
      <4> QED
        BY <1>3, <4>1, Whereabouts DEF IInv, HeldInv
    <3> QED
      BY <3>1, <3>2
  <2>3. ASSUME NEW d \in Callers, At(d, "arm") PROVE call[d].job # j
    BY <2>2, <2>3 DEF IInv, AlarmInv
  <2> QED
    BY <1>3, <1>4, <2>1, <2>2, <2>3, Whereabouts DEF IInv, HeldInv
<1>8. CallsInv'
  BY <1>1, <1>6, <1>7, NoneIsZero, CallsKept DEF HeldInv, JobsInv, IInv
<1>9. \A u \in Threads \ {t} : th'[u] = th[u]
  BY <1>1 DEF Fire, FireStopped, TakeJob, Callback, Release, Moves
<1>10. ThreadsInv'
  <2>1. ThreadInv(t)'
    <3>1. CASE TakeJob(t)
      <4>1. th'[t].at = "run" /\ th'[t].job = j /\ fate'[j] = "running"
        BY <1>1, <1>2, <1>3, <1>6, <3>1 DEF TakeJob
      <4> QED
        BY <1>3, <1>7, <1>9, <4>1 DEF ThreadInv, Engaged, Is, JobFate
    <3>2. CASE Callback(t)
      <4>1. ~TakeJob(t)
        BY <3>2 DEF Callback, TakeJob, Is
      <4>2. th'[t].at = "release" /\ th'[t].job = j /\ fate'[j] = "answered"
        BY <1>1, <1>2, <1>3, <1>6, <3>2, <4>1 DEF Callback, Moves, ThreadType
      <4> QED
        BY <1>3, <1>7, <1>9, <4>2 DEF ThreadInv, Engaged, Is, JobFate
    <3>3. CASE Fire(t) \/ FireStopped(t) \/ Release(t)
      <4>1. th'[t].at \in {"fire_wake", "tick", "pop"}
        BY <1>1, <3>3 DEF Fire, FireStopped, Release
      <4> QED
        BY <4>1 DEF ThreadInv, Engaged, Is
    <3> QED
      BY <3>1, <3>2, <3>3
  <2>2. \A u \in Threads \ {t} : Engaged(u)' => th'[u] = th[u] /\ th[u].job # j
    BY <1>7, <1>9 DEF Engaged
  <2> QED
    BY <1>1, <1>6, <2>1, <2>2, ThreadsKept DEF HeldInv, JobsInv
<1>11. WorkInv'
  <2>1. CASE TakeJob(t)
    BY <1>2, <1>6, <2>1, WorkKept DEF TakeJob, IInv, HeldInv, JobsInv
  <2>2. CASE Fire(t)
    <3>1. ~TakeJob(t) /\ fate[j] = "armed"
      BY <1>3, <2>2 DEF Fire, TakeJob, Is, JobFate
    <3>2. work' = Append(work, j) /\ Len(work) < JobCap /\ fate'[j] = "queued"
      BY <1>2, <1>3, <1>6, <2>2, <3>1 DEF Fire
    <3> QED
      BY <1>3, <1>6, <3>1, <3>2, WorkKept DEF IInv, HeldInv, JobsInv
  <2>3. CASE FireStopped(t) \/ Callback(t) \/ Release(t)
    <3>1. work' = work /\ fate[j] # "queued"
      BY <1>3, <2>3 DEF FireStopped, Callback, Release, TakeJob, Is, JobFate
    <3> QED
      BY <1>6, <3>1, WorkKept DEF IInv, HeldInv, JobsInv
  <2> QED
    BY <2>1, <2>2, <2>3
<1>12. TimersInv' /\ DescInv'
  <2>1. fate'[j] # "none"
    BY <1>2, <1>3, <1>6 DEF Fire, FireStopped, TakeJob, Callback, Release
  <2> QED
    BY <1>1, <1>6, <1>7, <2>1, TimersKept DEF DescInv, Spares, HeldInv, JobsInv, IInv
<1>13. desc[j] # 0 =>
         /\ fate'[j] \in {"queued", "running"} => fate[j] \in {"queued", "running"}
         /\ ~Release(t) => (j \in Outstanding)' /\ j \in Outstanding
  <2>1. Is(t, "fire") => desc[j] = 0
    BY <1>2 DEF TakeJob, Is, HeldInv, JobsInv, ThreadsInv, ThreadInv
  <2>2. CASE TakeJob(t)
    BY <1>1, <1>2, <1>3, <1>6, <2>2 DEF TakeJob, Outstanding
  <2>3. CASE Callback(t)
    BY <1>1, <1>2, <1>3, <1>6, <2>3 DEF Callback, TakeJob, Is, Outstanding, JobFate
  <2>4. CASE Release(t)
    BY <1>1, <1>2, <1>3, <1>6, <2>4 DEF Release, TakeJob, Is
  <2>5. CASE Fire(t) \/ FireStopped(t)
    BY <2>1, <2>5 DEF Fire, FireStopped
  <2> QED
    BY <2>2, <2>3, <2>4, <2>5
<1>14. QuietInv'
  BY <1>1, <1>6, <1>13, QuietKept DEF HeldInv, Spares, Unsettled
<1>15. CountInv'
  <2>1. CASE Release(t)
    <3>1. ~TakeJob(t) /\ fate[j] = "answered" /\ fate'[j] = "done"
          /\ count' = IF desc[j] = 0 THEN count ELSE [count EXCEPT ![desc[j]] = @ - 1]
      BY <1>2, <1>3, <1>6, <2>1 DEF Release, TakeJob, Is, JobFate
    <3>2. CASE desc[j] = 0
      BY <1>1, <1>6, <3>1, <3>2, CountKept DEF queue, HeldInv, Outstanding
    <3>3. CASE desc[j] # 0
      <4>1. j \in Outstanding /\ (j \notin Outstanding)'
        BY <1>3, <3>1, <3>3 DEF Outstanding
      <4> QED
        BY <1>1, <1>3, <1>6, <3>1, <3>3, <4>1, CallReturned DEF HeldInv
    <3> QED
      BY <3>2, <3>3
  <2>2. CASE ~Release(t)
    <3>1. UNCHANGED queue
      BY <2>2 DEF Fire, FireStopped, TakeJob, Callback
    <3>2. (j \in Outstanding)' <=> j \in Outstanding
      BY <1>1, <1>13, <2>2 DEF Outstanding
    <3> QED
      BY <1>1, <1>6, <3>1, <3>2, CountKept DEF HeldInv
  <2> QED
    BY <2>1, <2>2
<1> QED
  BY <1>8, <1>10, <1>11, <1>12, <1>14, <1>15 DEF HeldInv, JobsInv

-----------------------------------------------------------------------------
\* Initially nobody holds anything.
LEMMA HeldInit == Init => HeldInv
<1> SUFFICES ASSUME Init PROVE HeldInv
  OBVIOUS
<1>1. \A c \in Callers : call[c] = NoCall
  BY DEF Init
<1>2. CallsInv
  BY <1>1 DEF CallsInv, CallInv, Holding, At, NoCall
<1>3. WorkInv /\ ThreadsInv /\ TimersInv /\ DescInv
  BY EngineAssumption DEF Init, WorkInv, ThreadsInv, ThreadInv, Engaged, Is, NoThread, TimersInv, DescInv
<1>4. QuietInv
  BY DEF Init, QuietInv
<1>5. CountInv
  <2>1. \A d \in 1 .. MaxDescs : Handles(d) = {} /\ Calls(d) = {}
    BY DEF Init, Handles, Calls, Outstanding
  <2>2. Cardinality({}) = 0
    BY FS_EmptySet
  <2>3. /\ made \in 0 .. MaxDescs /\ cur \in 0 .. made
        /\ handle \in [Clients -> Nat] /\ \A c \in Clients : handle[c] \in {0, cur}
        /\ \A j \in Outstanding : desc[j] = cur
        /\ count \in [1 .. MaxDescs -> Nat]
    BY EngineAssumption DEF Init, Outstanding
  <2>4. \A d \in 1 .. MaxDescs : count[d] = 0
    BY DEF Init
  <2>5. \A d \in 1 .. MaxDescs : count[d] = Cardinality(Handles(d)) + Cardinality(Calls(d))
    <3> SUFFICES ASSUME NEW d \in 1 .. MaxDescs PROVE count[d] = Cardinality(Handles(d)) + Cardinality(Calls(d))
      OBVIOUS
    <3>1. Cardinality(Handles(d)) = 0 /\ Cardinality(Calls(d)) = 0 /\ count[d] = 0
      BY <2>1, <2>2, <2>4
    <3> QED
      BY <3>1
  <2> QED
    BY <2>3, <2>5 DEF CountInv
<1> QED
  BY <1>2, <1>3, <1>4, <1>5 DEF HeldInv, JobsInv

\* Who holds the queue, and where every job is, while handles are opened and
\* closed, asynchronous calls made and answered and the engine stopped and
\* started (src/core/src/api/emq.c, emq_engine.c), if no call overlaps a
\* start or a stop and a stop waits until the calls have called back.
THEOREM HeldInvariance ==
  ASSUME Discipline = "callbacks", IsFiniteSet(Clients)
  PROVE  Spec => [](IInv /\ HeldInv)
<1>1. ASSUME IInv, IInv', HeldInv, [Next]_vars PROVE HeldInv'
  <2>1. ASSUME NEW c \in Clients, ClientCall(c) PROVE HeldInv'
    <3>1. c \in Callers
      BY DEF Callers
    <3>2. CASE Start(c) \/ Stop(c, "none") \/ Stop(c, "clear")
      BY <1>1, <3>1, <3>2, CallControlSteps
    <3>3. CASE Schedule(c) \/ PopTicks(c)
      BY <1>1, <3>1, <3>3, ScheduleStep, TimerSteps
    <3>4. CASE CreateQueue(c) \/ OpenQueue(c) \/ CloseQueue(c) \/ DestroyQueue(c)
      BY <1>1, <3>1, <3>4, HandleSteps, QueueSteps
    <3> QED
      BY <2>1, <3>2, <3>3, <3>4 DEF ClientCall
  <2>2. ASSUME NEW c \in Callers, AsyncCall(c) PROVE HeldInv'
    BY <1>1, <2>2, AsyncCallStep
  <2>3. ASSUME NEW c \in Callers, CallStep(c) PROVE HeldInv'
    <3>1. CASE \/ StartTest(c) \/ StartSet(c) \/ MakeScheduler(c) \/ MakeSchedulerFails(c)
               \/ MakeWorker(c) \/ MakeWorkerFails(c) \/ StopClear(c) \/ StopWake(c)
               \/ JoinScheduler(c) \/ JoinWorker(c) \/ Discarded(c) \/ SubmitWake(c)
      BY <1>1, <3>1, CallControlSteps
    <3>2. CASE \/ Discard(c) \/ ClearTimers(c) \/ Submit(c) \/ Refuse(c)
               \/ Arm(c) \/ ArmFails(c) \/ Hold(c)
      BY <1>1, <3>2, DiscardStep, ClearTimersStep, SubmitStep, RefuseStep, TimerSteps, QueueSteps
    <3> QED
      BY <2>3, <3>1, <3>2 DEF CallStep
  <2>4. ASSUME NEW t \in Threads, ThreadStep(t) PROVE HeldInv'
    BY <1>1, <2>4, ControlSteps, AlarmStep, JobSteps DEF ThreadStep
  <2>5. CASE UNCHANGED vars
    <3>1. UNCHANGED <<running, call, queue, jobs, work, timers, alarms, stops, th>>
      BY <2>5 DEF vars, engine
    <3> QED
      BY <1>1, <3>1, ThreadMoves
  <2> QED
    BY <1>1, <2>1, <2>2, <2>3, <2>4, <2>5 DEF Next
<1>2. Spec => []IInv
  BY EngineInvariance
<1> QED
  BY <1>1, <1>2, HeldInit, PTL DEF Spec

\* emq_desc.handle_count, by which emq_registry_remove refuses or frees: it
\* counts the open handles and the calls under way, and none of them refers
\* to a descriptor that was freed.
THEOREM QueueIsHeld ==
  ASSUME Discipline = "callbacks", IsFiniteSet(Clients)
  PROVE  Spec => []QueueAlive
<1>1. IInv /\ HeldInv => QueueAlive
  <2> SUFFICES ASSUME HeldInv PROVE QueueAlive
    OBVIOUS
  <2>1. CountsHandles
    <3>1. \A d \in 1 .. made : d \in 1 .. MaxDescs
      BY EngineAssumption DEF HeldInv, CountInv
    <3> QED
      BY <3>1 DEF CountsHandles, HeldInv, CountInv, Handles, Calls
  <2>2. \A c \in Clients : At(c, "hold") => call[c].i = cur
    BY DEF HeldInv, JobsInv, CallsInv, CallInv, Callers
  <2> QED
    BY <2>1, <2>2 DEF QueueAlive, HeldInv, CountInv
<1> QED
  BY <1>1, HeldInvariance, PTL

\* The engine records its own threads.
RecordInv ==
    /\ scheduler \in 0 .. MaxThreads
    /\ workers \in [1 .. WorkerCount -> 0 .. MaxThreads]

LEMMA RecordStep == IInv /\ RecordInv /\ [Next]_vars => RecordInv'
<1> SUFFICES ASSUME IInv, RecordInv, [Next]_vars PROVE RecordInv'
  OBVIOUS
<1>1. MaxThreads \in Nat /\ \A t \in Threads : t \in 0 .. MaxThreads
  BY EngineAssumption DEF Threads
<1>2. ASSUME NEW c \in Clients, ClientCall(c) PROVE UNCHANGED <<scheduler, workers>>
  BY <1>2 DEF ClientCall, engine, Start, Stop, Schedule, PopTicks, CreateQueue, OpenQueue, CloseQueue, DestroyQueue
<1>3. ASSUME NEW c \in Callers, AsyncCall(c) PROVE UNCHANGED <<scheduler, workers>>
  BY <1>3 DEF AsyncCall, engine
<1>4. ASSUME NEW c \in Callers, CallStep(c) PROVE RecordInv'
  <2>1. CASE MakeScheduler(c) \/ JoinScheduler(c)
    BY <1>1, <2>1 DEF MakeScheduler, JoinScheduler, RecordInv
  <2>2. CASE MakeWorker(c) \/ JoinWorker(c)
    BY <1>1, <2>2 DEF MakeWorker, JoinWorker, RecordInv
  <2>3. \/ StartTest(c) \/ StartSet(c) \/ MakeSchedulerFails(c) \/ MakeWorkerFails(c) \/ StopClear(c)
        \/ StopWake(c) \/ Discard(c) \/ Discarded(c) \/ ClearTimers(c)
        => UNCHANGED <<scheduler, workers>>
    BY DEF engine, StartTest, StartSet, MakeSchedulerFails, MakeWorkerFails, StopClear, StopWake,
       Discard, Discarded, ClearTimers
  <2>4. Submit(c) \/ SubmitWake(c) \/ Refuse(c) \/ Arm(c) \/ ArmFails(c) \/ Hold(c)
        => UNCHANGED <<scheduler, workers>>
    BY DEF engine, Submit, SubmitWake, Refuse, Arm, ArmFails, Hold
  <2> QED
    BY <1>4, <2>1, <2>2, <2>3, <2>4 DEF CallStep, RecordInv
<1>5. ASSUME NEW t \in Threads, ThreadStep(t) PROVE UNCHANGED <<scheduler, workers>>
  BY <1>5, ThreadFrame DEF IInv
<1> QED
  BY <1>2, <1>3, <1>4, <1>5 DEF Next, RecordInv, vars, engine

\* Types of the engine, its queue and its handles (emq_engine.c, emq.c).
THEOREM TypeCorrectness ==
  ASSUME Discipline = "callbacks", IsFiniteSet(Clients)
  PROVE  Spec => []TypeOK
<1>1. Init => RecordInv
  BY EngineAssumption DEF Init, RecordInv
<1>2. IInv /\ HeldInv /\ RecordInv /\ gone \in BOOLEAN => TypeOK
  <2> SUFFICES ASSUME IInv, HeldInv, RecordInv, gone \in BOOLEAN PROVE TypeOK
    OBVIOUS
  <2>1. work \in Seq(Jobs) /\ Len(work) <= JobCap
    <3>1. work \in Seq(Nat) /\ \A i \in 1 .. Len(work) : work[i] \in Jobs
      BY DEF IInv, TypeInv, HeldInv, JobsInv, WorkInv
    <3> QED
      BY <3>1 DEF HeldInv, JobsInv, WorkInv
  <2>2. timers \subseteq Jobs /\ alarms \subseteq Jobs
    BY DEF IInv, AlarmInv
  <2>3. \A t \in Threads : th[t].at \in Labels
    BY DEF IInv, TypeInv, ThreadType
  <2>4. count \in [1 .. MaxDescs -> 0 .. Cardinality(Clients) + MaxJobs]
    <3> SUFFICES ASSUME NEW d \in 1 .. MaxDescs
                 PROVE  count[d] \in 0 .. Cardinality(Clients) + MaxJobs
      BY DEF HeldInv, CountInv
    <3>1. Cardinality(Handles(d)) <= Cardinality(Clients)
      BY FS_Subset DEF Handles
    <3>2. IsFiniteSet(Jobs) /\ Cardinality(Jobs) = MaxJobs
      BY EngineAssumption, FS_Interval DEF Jobs
    <3>3. Cardinality(Calls(d)) <= MaxJobs
      <4>1. Calls(d) \subseteq Jobs
        BY DEF Calls, Outstanding
      <4> QED
        BY <3>2, <4>1, FS_Subset
    <3>4. count[d] = Cardinality(Handles(d)) + Cardinality(Calls(d))
      BY DEF HeldInv, CountInv
    <3>5. Cardinality(Clients) \in Nat /\ MaxJobs \in Nat
      BY EngineAssumption, FS_CardinalityType
    <3> QED
      BY <3>1, <3>3, <3>4, <3>5, HeldFinite
  <2>5. handle \in [Clients -> 0 .. made]
    BY DEF HeldInv, CountInv
  <2>6. cur \in 0 .. made /\ made \in 0 .. MaxDescs /\ stops \in 0 .. MaxStops /\ running \in BOOLEAN
    BY DEF HeldInv, JobsInv, DescInv, CountInv, IInv, TypeInv
  <2> QED
    BY <2>1, <2>2, <2>3, <2>4, <2>5, <2>6 DEF TypeOK, Labels, RecordInv
<1>3. Init => gone \in BOOLEAN
  BY DEF Init
<1>4. gone \in BOOLEAN /\ [Next]_vars => (gone \in BOOLEAN)'
  <2> SUFFICES ASSUME [Next]_vars PROVE gone' = gone \/ gone' = TRUE
    BY Zenon
  <2>1. ASSUME NEW c \in Clients, ClientCall(c) PROVE gone' = gone
    BY <2>1 DEF ClientCall, Start, Stop, Schedule, PopTicks, CreateQueue, OpenQueue, CloseQueue, DestroyQueue
  <2>2. ASSUME NEW c \in Callers, AsyncCall(c) PROVE gone' = gone
    BY <2>2 DEF AsyncCall
  <2>3. ASSUME NEW c \in Callers, CallStep(c) PROVE gone' = gone \/ gone' = TRUE
    <3>1. CASE ClearTimers(c)
      BY <3>1 DEF ClearTimers
    <3>2. CASE \/ StartTest(c) \/ StartSet(c) \/ MakeScheduler(c) \/ MakeSchedulerFails(c) \/ MakeWorker(c)
               \/ MakeWorkerFails(c) \/ StopClear(c) \/ StopWake(c) \/ JoinScheduler(c) \/ JoinWorker(c)
      <4>1. gone' = gone
        BY <3>2 DEF StartTest, StartSet, MakeScheduler, MakeSchedulerFails, MakeWorker, MakeWorkerFails,
           StopClear, StopWake, JoinScheduler, JoinWorker
      <4> QED
        BY <4>1
    <3>3. CASE \/ Discard(c) \/ Discarded(c) \/ Submit(c) \/ SubmitWake(c) \/ Refuse(c)
               \/ Arm(c) \/ ArmFails(c) \/ Hold(c)
      <4>1. gone' = gone
        BY <3>3 DEF Discard, Discarded, Submit, SubmitWake, Refuse, Arm, ArmFails, Hold
      <4> QED
        BY <4>1
    <3> QED
      BY <2>3, <3>1, <3>2, <3>3 DEF CallStep
  <2>4. ASSUME NEW t \in Threads, ThreadStep(t) PROVE gone' = gone
    BY <2>4 DEF ThreadStep, SchedulerLoop, SchedulerRests, Alarm, Fire, FireWake, FireStopped,
       TakeJob, NoJob, CheckRunning, Snapshot, Sleep, TimedOut, Callback, Release
  <2> QED
    BY <2>1, <2>2, <2>3, <2>4 DEF Next, vars
<1> QED
  BY <1>1, <1>2, <1>3, <1>4, RecordStep, HeldInvariance, PTL DEF Spec
=============================================================================
