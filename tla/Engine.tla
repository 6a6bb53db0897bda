------------------------------- MODULE Engine -------------------------------
(***************************************************************************)
(* The engine of a runtime and what runs on it: starting and stopping the  *)
(* scheduler thread and the workers, the job queue, the timers             *)
(* (src/core/src/engine/emq_engine.c), the waits and wakes of emq_sched.c, *)
(* the asynchronous calls of src/core/src/api/emq.c and the queue handles  *)
(* they hold while they are under way.  Any number of application threads  *)
(* call; a callback, which runs on a worker, may call too.                 *)
(*                                                                         *)
(* The job queue is a bounded FIFO (what Mpmc is shown to implement), the  *)
(* wheel a set of alarms any of which may be due (see Wheel), and a wait   *)
(* on wake_seq loses its snapshot, and so returns, when wake_seq moves.    *)
(***************************************************************************)
EXTENDS Naturals, FiniteSets, Sequences

CONSTANTS Clients,        \* threads of the application
          WorkerCount,    \* worker_threads of emq_runtime_create_ex
          MaxThreads,     \* bound: engine threads alive at once
          JobCap,         \* capacity of work_q
          MaxJobs,        \* bound: asynchronous calls and scheduled jobs
          MaxDescs,       \* bound: times the queue is created
          MaxStops,       \* bound: calls of emq_runtime_stop
          Discipline      \* what a start or stop waits for: see MayStop

ASSUME EngineAssumption ==
    /\ {WorkerCount, JobCap} \subseteq Nat \ {0}
    /\ {MaxThreads, MaxJobs, MaxDescs, MaxStops} \subseteq Nat
    /\ Clients \cap Nat = {} 
    /\ Discipline \in {"callbacks", "calls", "none"}

VARIABLES running,    \* emq_engine.running
          work,       \* work_q
          timers,     \* emq_engine.timers, jobs by number
          alarms,     \* the timers the wheel holds
          th,         \* the engine's threads
          scheduler,  \* emq_engine.scheduler, 0 when NULL
          workers,    \* emq_engine.workers
          call,       \* per thread, the API call it is in
          fate,       \* per job, how far it has come
          desc,       \* per job, the descriptor it holds (0: none)
          cur,        \* the queue's descriptor in the registry (0: none)
          made,       \* descriptors made so far
          count,      \* per descriptor, handle_count
          handle,     \* per client, the descriptor its handle points to
          stops,      \* calls of stop so far
          gone        \* emq_runtime_destroy has returned

engine == <<running, work, timers, alarms, th, scheduler, workers>>
queue == <<cur, made, count, handle>>
jobs == <<fate, desc>>
vars == <<engine, queue, jobs, call, stops, gone>>

Threads == 1 .. MaxThreads
Callers == Clients \cup Threads
Jobs == 1 .. MaxJobs

NoCall == [at |-> "none", job |-> 0, next |-> "none", i |-> 0, ptr |-> 0]
NoThread == [at |-> "dead", job |-> 0]

Init ==
    /\ running = FALSE /\ work = <<>> /\ timers = {} /\ alarms = {}
    /\ th = [t \in Threads |-> NoThread]
    /\ scheduler = 0 /\ workers = [i \in 1 .. WorkerCount |-> 0]
    /\ call = [c \in Callers |-> NoCall]
    /\ fate = [j \in Jobs |-> "none"] /\ desc = [j \in Jobs |-> 0]
    /\ cur = 0 /\ made = 0 /\ count = [d \in 1 .. MaxDescs |-> 0]
    /\ handle = [c \in Clients |-> 0]
    /\ stops = 0 /\ gone = FALSE

At(c, where) == call[c].at = where
Goto(c, where) == call' = [call EXCEPT ![c].at = where]
Return(c) == call' = [call EXCEPT ![c] = NoCall]

Starting == { c \in Callers : call[c].at \in {"test", "set", "make_scheduler", "make_worker"} }
Stopping == { c \in Callers : call[c].at \in
                {"stop", "stop_wake", "join_scheduler", "join_worker", "discard", "clear"} }
Busy == { c \in Callers : call[c].at # "none" }

Free(j) == fate[j] = "none" /\ \A k \in 1 .. j - 1 : fate[k] # "none"

(* emq_sched_wake: wake_seq moves, which sends whoever has a snapshot of   *)
(* it and does not sleep yet round its loop; of the sleepers one is woken. *)
Wake(to) ==
    LET asleep == { t \in Threads : th[t].at = "asleep" }
    IN \E woken \in IF asleep = {} THEN {{}} ELSE { {t} : t \in asleep } :
        th' = [t \in Threads |-> IF th[t].at = "waiting" \/ t \in woken
                                   THEN [th[t] EXCEPT !.at = "pop"] ELSE to[t]]

(* -------------------------- starting and stopping ---------------------- *)

(* How careful the application is: "calls" lets no call overlap a start or  *)
(* a stop, a callback's calls included; "callbacks" also stops only when    *)
(* every accepted call has called back, as tests/test_batch_async.c does.   *)
MayCall == Discipline = "none" \/ (Starting = {} /\ Stopping = {} /\ (running \/ Busy = {}))
MayStop ==
    /\ Discipline = "none" \/ Busy = {}
    /\ Discipline = "callbacks" => \A j \in Jobs : desc[j] # 0 => fate[j] \notin {"queued", "running"}

Start(c) ==
    /\ ~gone /\ At(c, "none") /\ MayCall
    /\ Goto(c, "test")
    /\ UNCHANGED <<engine, queue, jobs, stops, gone>>

(* emq_engine_start looks at running and sets it in two steps. *)
StartTest(c) ==
    /\ At(c, "test")
    /\ Goto(c, IF running THEN "submit" ELSE "set")
    /\ UNCHANGED <<engine, queue, jobs, stops, gone>>

StartSet(c) ==
    /\ At(c, "set")
    /\ running' = TRUE
    /\ Goto(c, "make_scheduler")
    /\ UNCHANGED <<work, timers, alarms, th, scheduler, workers, queue, jobs, stops, gone>>

Referenced == {scheduler} \cup { workers[i] : i \in DOMAIN workers } \cup { call[c].ptr : c \in Callers }
Unused(t) == th[t].at = "dead" /\ t \notin Referenced
NewThread(t) == Unused(t) /\ \A u \in 1 .. t - 1 : ~Unused(u)

MakeScheduler(c) ==
    /\ At(c, "make_scheduler")
    /\ \E t \in Threads :
         /\ NewThread(t)
         /\ th' = [th EXCEPT ![t].at = "loop"]
         /\ scheduler' = t
    /\ call' = [call EXCEPT ![c].at = "make_worker", ![c].i = 1]
    /\ UNCHANGED <<running, work, timers, alarms, workers, queue, jobs, stops, gone>>

MakeSchedulerFails(c) ==
    /\ At(c, "make_scheduler")
    /\ running' = FALSE
    /\ Goto(c, "refuse")
    /\ UNCHANGED <<work, timers, alarms, th, scheduler, workers, queue, jobs, stops, gone>>

MakeWorker(c) ==
    /\ At(c, "make_worker")
    /\ LET i == call[c].i IN
        /\ \E t \in Threads :
             /\ NewThread(t)
             /\ th' = [th EXCEPT ![t].at = "pop"]
             /\ workers' = [workers EXCEPT ![i] = t]
        /\ call' = IF i < WorkerCount THEN [call EXCEPT ![c].i = i + 1]
                   ELSE [call EXCEPT ![c].at = "submit", ![c].i = 0]
    /\ UNCHANGED <<running, work, timers, alarms, scheduler, queue, jobs, stops, gone>>

(* Not all workers could be created: start stops what it started. *)
MakeWorkerFails(c) ==
    /\ At(c, "make_worker")
    /\ call' = [call EXCEPT ![c].at = "stop", ![c].i = 0, ![c].next = "refuse"]
    /\ UNCHANGED <<engine, queue, jobs, stops, gone>>

(* emq_runtime_stop, and emq_runtime_destroy, which stops first. *)
Stop(c, next) ==
    /\ ~gone /\ At(c, "none") /\ MayStop /\ stops < MaxStops
    /\ stops' = stops + 1
    /\ call' = [call EXCEPT ![c].at = "stop", ![c].next = next]
    /\ UNCHANGED <<engine, queue, jobs, gone>>

StopClear(c) ==
    /\ At(c, "stop")
    /\ running' = FALSE
    /\ Goto(c, "stop_wake")
    /\ UNCHANGED <<work, timers, alarms, th, scheduler, workers, queue, jobs, stops, gone>>

StopWake(c) ==
    /\ At(c, "stop_wake")
    /\ Wake(th)
    /\ call' = [call EXCEPT ![c].at = "join_scheduler", ![c].ptr = scheduler]
    /\ UNCHANGED <<running, work, timers, alarms, scheduler, workers, queue, jobs, stops, gone>>

Joined(c) == call[c].ptr \in {0} \cup { t \in Threads : th[t].at = "dead" }

JoinScheduler(c) ==
    /\ At(c, "join_scheduler") /\ Joined(c)
    /\ scheduler' = 0
    /\ call' = [call EXCEPT ![c].at = "join_worker", ![c].i = 1, ![c].ptr = workers[1]]
    /\ UNCHANGED <<running, work, timers, alarms, th, workers, queue, jobs, stops, gone>>

\* Mutant: does not wait for the worker.
JoinWorker_detaches(c) ==
    /\ At(c, "join_worker")
    /\ LET i == call[c].i IN
        /\ workers' = [workers EXCEPT ![i] = 0]
        /\ call' = IF i < WorkerCount THEN [call EXCEPT ![c].i = i + 1, ![c].ptr = workers[i + 1]]
                   ELSE [call EXCEPT ![c].at = "discard", ![c].i = 0, ![c].ptr = 0]
    /\ UNCHANGED <<running, work, timers, alarms, th, scheduler, queue, jobs, stops, gone>>

JoinWorker(c) ==
    /\ At(c, "join_worker") /\ Joined(c)
    /\ LET i == call[c].i IN
        /\ workers' = [workers EXCEPT ![i] = 0]
        /\ call' = IF i < WorkerCount THEN [call EXCEPT ![c].i = i + 1, ![c].ptr = workers[i + 1]]
                   ELSE [call EXCEPT ![c].at = "discard", ![c].i = 0, ![c].ptr = 0]
    /\ UNCHANGED <<running, work, timers, alarms, th, scheduler, queue, jobs, stops, gone>>

(* emq_engine_discard_jobs frees a job that no worker has taken. *)
Discard(c) ==
    /\ At(c, "discard") /\ work # <<>>
    /\ work' = Tail(work)
    /\ fate' = [fate EXCEPT ![Head(work)] = "discarded"]
    /\ UNCHANGED <<running, timers, alarms, th, scheduler, workers, queue, desc, call, stops, gone>>

Discarded(c) ==
    /\ At(c, "discard") /\ work = <<>>
    /\ call' = IF call[c].next = "none" THEN [call EXCEPT ![c] = NoCall]
               ELSE [call EXCEPT ![c].at = call[c].next, ![c].next = "none"]
    /\ UNCHANGED <<engine, queue, jobs, stops, gone>>

(* emq_engine_clear_timers, and the rest of emq_engine_shutdown. *)
ClearTimers(c) ==
    /\ At(c, "clear")
    /\ timers' = {} /\ alarms' = alarms \ timers
    /\ fate' = [j \in Jobs |-> IF j \in timers THEN "freed" ELSE fate[j]]
    /\ gone' = TRUE
    /\ Return(c)
    /\ UNCHANGED <<running, work, th, scheduler, workers, queue, desc, stops>>

(* --------------------------- asynchronous calls ------------------------ *)

(* emq_push_async and emq_pop_async: a client's, through its handle, or a  *)
(* callback's, for the queue it was called for.  The job takes a count.    *)
Uses(c) == IF c \in Clients THEN handle[c]
           ELSE IF th[c].at = "run" THEN desc[th[c].job] ELSE 0

\* Mutant: the job takes no count.
AsyncCall_uncounted(c) ==
    /\ ~gone /\ At(c, "none") /\ Uses(c) # 0 /\ MayCall
    /\ \E j \in Jobs :
         /\ Free(j)
         /\ fate' = [fate EXCEPT ![j] = "calling"]
         /\ desc' = [desc EXCEPT ![j] = Uses(c)]
         /\ call' = [call EXCEPT ![c].at = "test", ![c].job = j]
    /\ UNCHANGED <<engine, queue, stops, gone>>

AsyncCall(c) ==
    /\ ~gone /\ At(c, "none") /\ Uses(c) # 0 /\ MayCall
    /\ \E j \in Jobs :
         /\ Free(j)
         /\ fate' = [fate EXCEPT ![j] = "calling"]
         /\ desc' = [desc EXCEPT ![j] = Uses(c)]
         /\ call' = [call EXCEPT ![c].at = "test", ![c].job = j]
    /\ count' = [count EXCEPT ![Uses(c)] = @ + 1]
    /\ UNCHANGED <<engine, cur, made, handle, stops, gone>>

\* Mutant: does not look at the capacity.
Submit_unbounded(c) ==
    /\ At(c, "submit")
    /\ \/ call[c].job = 0 /\ Return(c) /\ UNCHANGED <<work, fate>>
       \/ /\ call[c].job # 0
          /\ work' = Append(work, call[c].job)
          /\ fate' = [fate EXCEPT ![call[c].job] = "queued"]
          /\ Goto(c, "wake")
    /\ UNCHANGED <<running, timers, alarms, th, scheduler, workers, queue, desc, stops, gone>>

(* emq_engine_submit; a mere emq_runtime_start returns here. *)
Submit(c) ==
    /\ At(c, "submit")
    /\ \/ call[c].job = 0 /\ Return(c) /\ UNCHANGED <<work, fate>>
       \/ /\ call[c].job # 0 /\ Len(work) < JobCap
          /\ work' = Append(work, call[c].job)
          /\ fate' = [fate EXCEPT ![call[c].job] = "queued"]
          /\ Goto(c, "wake")
       \/ /\ call[c].job # 0 /\ Len(work) = JobCap
          /\ Goto(c, "refuse") /\ UNCHANGED <<work, fate>>
    /\ UNCHANGED <<running, timers, alarms, th, scheduler, workers, queue, desc, stops, gone>>

SubmitWake(c) ==
    /\ At(c, "wake")
    /\ Wake(th)
    /\ Return(c)
    /\ UNCHANGED <<running, work, timers, alarms, scheduler, workers, queue, jobs, stops, gone>>

(* The call returns an error and gives its count back. *)
Refuse(c) ==
    /\ At(c, "refuse")
    /\ LET j == call[c].job IN
        IF j = 0 THEN UNCHANGED <<fate, count>>
        ELSE /\ fate' = [fate EXCEPT ![j] = "refused"]
             /\ count' = [count EXCEPT ![desc[j]] = @ - 1]
    /\ Return(c)
    /\ UNCHANGED <<engine, cur, made, handle, desc, stops, gone>>

(* -------------------------------- timers ------------------------------- *)

(* emq_engine_schedule: the timer is listed, then given to the wheel. *)
Schedule(c) ==
    /\ ~gone /\ At(c, "none") /\ MayCall
    /\ \E j \in Jobs :
         /\ Free(j)
         /\ fate' = [fate EXCEPT ![j] = "armed"]
         /\ timers' = timers \cup {j}
         /\ call' = [call EXCEPT ![c].at = "arm", ![c].job = j]
    /\ UNCHANGED <<running, work, alarms, th, scheduler, workers, queue, desc, stops, gone>>

Arm(c) ==
    /\ At(c, "arm")
    /\ alarms' = alarms \cup {call[c].job}
    /\ Return(c)
    /\ UNCHANGED <<running, work, timers, th, scheduler, workers, queue, jobs, stops, gone>>

ArmFails(c) ==
    /\ At(c, "arm")
    /\ timers' = timers \ {call[c].job}
    /\ fate' = [fate EXCEPT ![call[c].job] = "refused"]
    /\ Return(c)
    /\ UNCHANGED <<running, work, alarms, th, scheduler, workers, queue, desc, stops, gone>>

(* emq_prim_pop ticks the same wheel without a callback: an alarm that is  *)
(* due then is removed and its timer never submitted.                      *)
PopTicks(c) ==
    /\ ~gone /\ At(c, "none") /\ handle[c] # 0
    /\ \E j \in alarms :
         /\ alarms' = alarms \ {j}
         /\ fate' = [fate EXCEPT ![j] = "dropped"]
    /\ UNCHANGED <<running, work, timers, th, scheduler, workers, queue, desc, call, stops, gone>>

(* ----------------------------- queue handles --------------------------- *)

(* emq_queue_create and emq_queue_open leave the registry's lock with the  *)
(* descriptor and count their handle afterwards.                           *)
CreateQueue(c) ==
    /\ ~gone /\ At(c, "none") /\ MayCall /\ handle[c] = 0 /\ cur = 0 /\ made < MaxDescs
    /\ made' = made + 1 /\ cur' = made + 1
    /\ call' = [call EXCEPT ![c].at = "hold", ![c].i = made + 1]
    /\ UNCHANGED <<engine, jobs, count, handle, stops, gone>>

OpenQueue(c) ==
    /\ ~gone /\ At(c, "none") /\ MayCall /\ handle[c] = 0 /\ cur # 0
    /\ call' = [call EXCEPT ![c].at = "hold", ![c].i = cur]
    /\ UNCHANGED <<engine, queue, jobs, stops, gone>>

Hold(c) ==
    /\ At(c, "hold")
    /\ count' = [count EXCEPT ![call[c].i] = @ + 1]
    /\ handle' = [handle EXCEPT ![c] = call[c].i]
    /\ Return(c)
    /\ UNCHANGED <<engine, cur, made, jobs, stops, gone>>

CloseQueue(c) ==
    /\ ~gone /\ At(c, "none") /\ handle[c] # 0
    /\ count' = [count EXCEPT ![handle[c]] = @ - 1]
    /\ handle' = [handle EXCEPT ![c] = 0]
    /\ UNCHANGED <<engine, cur, made, jobs, call, stops, gone>>

(* emq_registry_remove: busy while the count is not zero. *)
DestroyQueue(c) ==
    /\ ~gone /\ At(c, "none") /\ cur # 0 /\ count[cur] = 0
    /\ Discipline = "none" \/ \A o \in Callers : ~At(o, "hold")
    /\ cur' = 0
    /\ UNCHANGED <<engine, jobs, made, count, handle, call, stops, gone>>

(* --------------------------- the engine's threads ---------------------- *)

Is(t, where) == th[t].at = where
Moves(t, where) == th' = [th EXCEPT ![t].at = where]

(* emq_scheduler_main: one round, of which the alarms matter here. *)
\* Mutant: does not look at running.
SchedulerLoop_forever(t) ==
    /\ Is(t, "loop")
    /\ Moves(t, "tick")
    /\ UNCHANGED <<running, work, timers, alarms, scheduler, workers, queue, jobs, call, stops, gone>>

SchedulerLoop(t) ==
    /\ Is(t, "loop")
    /\ Moves(t, IF running THEN "tick" ELSE "dead")
    /\ UNCHANGED <<running, work, timers, alarms, scheduler, workers, queue, jobs, call, stops, gone>>

SchedulerRests(t) ==
    /\ Is(t, "tick")
    /\ Moves(t, "loop")
    /\ UNCHANGED <<running, work, timers, alarms, scheduler, workers, queue, jobs, call, stops, gone>>

(* emq_wheel_submit: an alarm that is due finds its timer and submits it,  *)
(* for as long as the job queue is full and the engine runs.               *)
Alarm(t) ==
    /\ Is(t, "tick")
    /\ \E j \in alarms :
         /\ alarms' = alarms \ {j}
         /\ timers' = timers \ {j}
         /\ th' = IF j \in timers THEN [th EXCEPT ![t] = [at |-> "fire", job |-> j]] ELSE th
    /\ UNCHANGED <<running, work, scheduler, workers, queue, jobs, call, stops, gone>>

\* Mutant: gives up when the job queue is full.
Fire_gives_up(t) ==
    /\ Is(t, "fire") /\ running
    /\ LET full == Len(work) = JobCap IN
        /\ work' = IF full THEN work ELSE Append(work, th[t].job)
        /\ fate' = [fate EXCEPT ![th[t].job] = IF full THEN "freed" ELSE "queued"]
    /\ th' = [th EXCEPT ![t] = [at |-> "fire_wake", job |-> 0]]
    /\ UNCHANGED <<running, timers, alarms, scheduler, workers, queue, desc, call, stops, gone>>

Fire(t) ==
    /\ Is(t, "fire") /\ running /\ Len(work) < JobCap
    /\ work' = Append(work, th[t].job)
    /\ fate' = [fate EXCEPT ![th[t].job] = "queued"]
    /\ th' = [th EXCEPT ![t] = [at |-> "fire_wake", job |-> 0]]
    /\ UNCHANGED <<running, timers, alarms, scheduler, workers, queue, desc, call, stops, gone>>

FireWake(t) ==
    /\ Is(t, "fire_wake")
    /\ Wake([th EXCEPT ![t].at = "tick"])
    /\ UNCHANGED <<running, work, timers, alarms, scheduler, workers, queue, jobs, call, stops, gone>>

FireStopped(t) ==
    /\ Is(t, "fire") /\ ~running
    /\ fate' = [fate EXCEPT ![th[t].job] = "freed"]
    /\ th' = [th EXCEPT ![t] = [at |-> "tick", job |-> 0]]
    /\ UNCHANGED <<running, work, timers, alarms, scheduler, workers, queue, desc, call, stops, gone>>

(* emq_worker_main: take a job, or look at running and wait a millisecond  *)
(* for wake_seq to move.                                                   *)
TakeJob(t) ==
    /\ Is(t, "pop") /\ work # <<>>
    /\ work' = Tail(work)
    /\ fate' = [fate EXCEPT ![Head(work)] = "running"]
    /\ th' = [th EXCEPT ![t] = [at |-> "run", job |-> Head(work)]]
    /\ UNCHANGED <<running, timers, alarms, scheduler, workers, queue, desc, call, stops, gone>>

NoJob(t) ==
    /\ Is(t, "pop") /\ work = <<>>
    /\ Moves(t, "check")
    /\ UNCHANGED <<running, work, timers, alarms, scheduler, workers, queue, jobs, call, stops, gone>>

CheckRunning(t) ==
    /\ Is(t, "check")
    /\ Moves(t, IF running THEN "snapshot" ELSE "dead")
    /\ UNCHANGED <<running, work, timers, alarms, scheduler, workers, queue, jobs, call, stops, gone>>

(* emq_sched_wait takes the snapshot of wake_seq here, after the look into *)
(* the job queue.                                                          *)
Snapshot(t) ==
    /\ Is(t, "snapshot")
    /\ Moves(t, "waiting")
    /\ UNCHANGED <<running, work, timers, alarms, scheduler, workers, queue, jobs, call, stops, gone>>

Sleep(t) ==
    /\ Is(t, "waiting")
    /\ Moves(t, "asleep")
    /\ UNCHANGED <<running, work, timers, alarms, scheduler, workers, queue, jobs, call, stops, gone>>

\* Mutant: the wait has no timeout.
TimedOut_never(t) ==
    /\ Is(t, "asleep") /\ FALSE
    /\ UNCHANGED vars

TimedOut(t) ==
    /\ Is(t, "asleep")
    /\ Moves(t, "pop")
    /\ UNCHANGED <<running, work, timers, alarms, scheduler, workers, queue, jobs, call, stops, gone>>

(* emq_async_push_run, emq_async_pop_run: the call and its callback (which *)
(* may first make calls of its own), then the count.                       *)
Callback(t) ==
    /\ Is(t, "run") /\ At(t, "none")
    /\ fate' = [fate EXCEPT ![th[t].job] = "answered"]
    /\ Moves(t, "release")
    /\ UNCHANGED <<running, work, timers, alarms, scheduler, workers, queue, desc, call, stops, gone>>

Release(t) ==
    /\ Is(t, "release")
    /\ LET j == th[t].job IN
        /\ fate' = [fate EXCEPT ![j] = "done"]
        /\ count' = IF desc[j] = 0 THEN count ELSE [count EXCEPT ![desc[j]] = @ - 1]
    /\ th' = [th EXCEPT ![t] = [at |-> "pop", job |-> 0]]
    /\ UNCHANGED <<running, work, timers, alarms, scheduler, workers, cur, made, handle, desc, call, stops, gone>>

(* ----------------------------------------------------------------------- *)

ThreadStep(t) ==
    \/ SchedulerLoop(t) \/ SchedulerRests(t) \/ Alarm(t) \/ Fire(t) \/ FireWake(t) \/ FireStopped(t)
    \/ TakeJob(t) \/ NoJob(t) \/ CheckRunning(t) \/ Snapshot(t) \/ Sleep(t) \/ TimedOut(t)
    \/ Callback(t) \/ Release(t)

CallStep(c) ==
    \/ StartTest(c) \/ StartSet(c) \/ MakeScheduler(c) \/ MakeSchedulerFails(c)
    \/ MakeWorker(c) \/ MakeWorkerFails(c)
    \/ StopClear(c) \/ StopWake(c) \/ JoinScheduler(c) \/ JoinWorker(c) \/ Discard(c) \/ Discarded(c)
    \/ ClearTimers(c) \/ Submit(c) \/ SubmitWake(c) \/ Refuse(c) \/ Arm(c) \/ ArmFails(c) \/ Hold(c)

ClientCall(c) ==
    \/ Start(c) \/ Stop(c, "none") \/ Stop(c, "clear") \/ Schedule(c) \/ PopTicks(c)
    \/ CreateQueue(c) \/ OpenQueue(c) \/ CloseQueue(c) \/ DestroyQueue(c)

Next ==
    \/ \E c \in Clients : ClientCall(c)
    \/ \E c \in Callers : AsyncCall(c) \/ CallStep(c)
    \/ \E t \in Threads : ThreadStep(t)

Spec == Init /\ [][Next]_vars

(* Threads that can run do, callbacks return, deadlines come. *)
FairSpec ==
    /\ Spec
    /\ \A t \in Threads : WF_vars(ThreadStep(t)) /\ SF_vars(Alarm(t))
    /\ \A c \in Callers : WF_vars(CallStep(c))
-----------------------------------------------------------------------------
TypeOK ==
    /\ running \in BOOLEAN /\ gone \in BOOLEAN /\ stops \in 0 .. MaxStops
    /\ work \in Seq(Jobs) /\ Len(work) <= JobCap
    /\ timers \subseteq Jobs /\ alarms \subseteq Jobs
    /\ \A t \in Threads : th[t].at \in {"dead", "loop", "tick", "fire", "fire_wake", "pop", "check",
                             "snapshot", "waiting", "asleep", "run", "release"}
    /\ scheduler \in 0 .. MaxThreads /\ workers \in [1 .. WorkerCount -> 0 .. MaxThreads]
    /\ cur \in 0 .. made /\ made \in 0 .. MaxDescs
    /\ count \in [1 .. MaxDescs -> 0 .. Cardinality(Clients) + MaxJobs]
    /\ handle \in [Clients -> 0 .. made]

Outstanding == { j \in Jobs : desc[j] # 0 /\ fate[j] \in {"calling", "queued", "running", "answered"} }

CountsHandles ==
    ~gone => \A d \in 1 .. made :
        count[d] = Cardinality({ c \in Clients : handle[c] = d })
                     + Cardinality({ j \in Outstanding : desc[j] = d })

(* emq_desc.handle_count is what emq_registry_remove goes by: it is the    *)
(* number of open handles and of asynchronous calls not yet through, so a  *)
(* queue can be destroyed in the end and not before; and no handle, no     *)
(* call and no job refers to a descriptor that was freed.                  *)
QueueAlive ==
    /\ CountsHandles
    /\ \A c \in Clients : handle[c] \in {0, cur} /\ (At(c, "hold") => call[c].i = cur)
    /\ \A j \in Outstanding : desc[j] = cur

(* emq_engine_stop: between a stop and the next start there is no thread   *)
(* left and no job waiting, so emq_engine_shutdown may free what they use; *)
(* and never does the wheel hold an alarm whose timer is not listed any    *)
(* more, which would fire for a timer allocated at the same place.         *)
StopIsComplete ==
    /\ ~running /\ Starting = {} /\ Stopping = {} =>
         work = <<>> /\ \A t \in Threads : th[t].at = "dead"
    /\ alarms \subseteq timers

(* emq.h, "Async callbacks execute on runtime workers": an asynchronous     *)
(* call that was accepted calls back and gives its count back.             *)
CallsAnswered == \A j \in Jobs : fate[j] = "queued" /\ desc[j] # 0 ~> fate[j] = "done"

(* emq_engine_schedule: a scheduled job runs, unless the engine stops or   *)
(* the tick of a pop drops its alarm.                                      *)
TimersRun == \A j \in Jobs : j \in alarms ~> fate[j] \in {"done", "dropped"} \/ ~running

(* emq_runtime_stop returns. *)
StopReturns == \A c \in Clients : c \in Stopping ~> c \notin Stopping
=============================================================================
