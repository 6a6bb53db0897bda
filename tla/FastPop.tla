------------------------------- MODULE FastPop -------------------------------
(***************************************************************************)
(* The blocking pop of a FAST queue with one producer and one consumer     *)
(* (emq_pop in core/src/api/emq.c, emq_fifo.c, the futex in                *)
(* core/src/platform/emq_platform.c).  No lock is held: a push counts      *)
(* itself in seq_wait and makes the wake system call only if it finds a    *)
(* waiter; a pop that finds nothing goes to sleep on the value seq_wait    *)
(* had before it looked.                                                   *)
(*                                                                         *)
(* The ring is the FIFO channel that LfqRing implements: a committed frame *)
(* enters it in one step.  A push with a time to live or a delivery time   *)
(* goes to the log instead, which pop reads when the ring is empty; no     *)
(* lock is held there either but the log's own, and a push with a time to  *)
(* live notes the time in the in-flight table after the record is public.  *)
(* Time is not counted: the deadline of a call and the time of a log entry *)
(* come when they come.  The queue delivers at most once.                  *)
(***************************************************************************)
EXTENDS Naturals, Sequences

CONSTANTS
  Kinds,           \* subset of {"plain", "ttl", "delayed"} that is pushed
  RingMessages,    \* messages the ring has room for
  RelaxedAtomics,  \* TRUE: relaxed atomics of a push may be reordered
  MaxPush          \* bound on the number of pushes

ASSUME FastPopAssumption ==
  /\ Kinds \subseteq {"plain", "ttl", "delayed"}
  /\ RingMessages \in Nat \ {0}
  /\ RelaxedAtomics \in BOOLEAN
  /\ MaxPush \in Nat

VARIABLES
  ring, log,          \* the messages queued in each, oldest first
  elapsed,            \* messages that have expired (ttl) or are due (delayed)
  seq_wait, waiters,  \* the words of the descriptor
  ppc, todo, wake,    \* producer: where it is, stores left, waiters it saw
  cpc, expect,        \* consumer: where it is, its snapshot of seq_wait
  blocking, late,     \* timeout_ms # 0; its deadline has passed
  pushed, got, early  \* history: accepted and delivered messages; those
                      \* dropped before their push returned

queueVars == <<ring, log, elapsed>>
prodVars  == <<ppc, todo, wake>>
consVars  == <<cpc, expect, blocking, late>>
histVars  == <<pushed, got, early>>
vars == <<queueVars, seq_wait, waiters, prodVars, consVars, histVars>>

Msgs == [id : 1..MaxPush, kind : Kinds]

Init ==
  /\ ring = <<>> /\ log = <<>> /\ elapsed = {}
  /\ seq_wait = 0 /\ waiters = 0
  /\ ppc = "idle" /\ todo = {} /\ wake = FALSE
  /\ cpc = "idle" /\ expect = 0 /\ blocking = FALSE /\ late = FALSE
  /\ pushed = <<>> /\ got = <<>> /\ early = {}

-----------------------------------------------------------------------------
\* The producer.

\* emq_push up to the publication of a plain message, which goes to the ring
\* unless it is full.
PushPlain ==
  /\ ppc = "idle" /\ "plain" \in Kinds /\ Len(pushed) < MaxPush
  /\ Len(ring) < RingMessages
  /\ LET m == [id |-> Len(pushed) + 1, kind |-> "plain"] IN
       /\ ring' = Append(ring, m)
       /\ pushed' = Append(pushed, m)
  /\ ppc' = "tell" /\ todo' = {"seq", "load"}
  /\ UNCHANGED <<log, elapsed, seq_wait, waiters, wake, consVars, got, early>>

\* The others go to the log, where no one is told about them.  The record of
\* one with a time to live is there for pops to see before the slot of the
\* in-flight table that was reserved for it says anything.
PushLog(kind) ==
  /\ ppc = "idle" /\ Len(pushed) < MaxPush
  /\ LET m == [id |-> Len(pushed) + 1, kind |-> kind] IN
       /\ log' = Append(log, m)
       /\ pushed' = Append(pushed, m)
  /\ IF kind = "ttl" THEN ppc' = "track" /\ todo' = {"message", "time"}
                     ELSE UNCHANGED <<ppc, todo>>
  /\ UNCHANGED <<ring, elapsed, seq_wait, waiters, wake, consVars, got, early>>

\* Then the slot gets the message it is about (msg_id, offset) and the time it
\* expires (visible_at_ns), by plain stores that nothing orders.
Track(store) ==
  /\ ppc = "track" /\ store \in todo
  /\ todo' = todo \ {store}
  /\ ppc' = IF todo = {store} THEN "idle" ELSE "track"
  /\ UNCHANGED <<queueVars, seq_wait, waiters, wake, consVars, histVars>>

TrackStep == \E store \in {"message", "time"} : Track(store)

Done(what) ==
  /\ todo' = todo \ {what}
  /\ ppc' = IF todo = {what} THEN "wake" ELSE "tell"

CountSeq ==
  /\ ppc = "tell" /\ "seq" \in todo
  /\ seq_wait' = seq_wait + 1
  /\ Done("seq")
  /\ UNCHANGED <<queueVars, waiters, wake, consVars, histVars>>

\* Mutant of LoadWaiters: nothing orders it after the count.
LoadWaiters_early ==
  /\ ppc = "tell" /\ "load" \in todo
  /\ wake' = (waiters # 0)
  /\ Done("load")
  /\ UNCHANGED <<queueVars, seq_wait, waiters, consVars, histVars>>

LoadWaiters ==
  /\ ppc = "tell" /\ "load" \in todo
  /\ RelaxedAtomics \/ "seq" \notin todo
  /\ wake' = (waiters # 0)
  /\ Done("load")
  /\ UNCHANGED <<queueVars, seq_wait, waiters, consVars, histVars>>

\* Mutant of Wake: the system call is forgotten.
Wake_forgets ==
  /\ ppc = "wake"
  /\ ppc' = "idle" /\ wake' = FALSE
  /\ UNCHANGED <<queueVars, seq_wait, waiters, todo, consVars, histVars>>

\* emq_wake_u64(.., 1), skipped when no waiter was seen.
Wake ==
  /\ ppc = "wake"
  /\ cpc' = IF wake /\ cpc = "asleep" THEN "awake" ELSE cpc
  /\ ppc' = "idle" /\ wake' = FALSE
  /\ UNCHANGED <<queueVars, seq_wait, waiters, todo, expect, blocking, late, histVars>>

PushStep == TrackStep \/ CountSeq \/ LoadWaiters \/ Wake

-----------------------------------------------------------------------------
\* The consumer.

GoTo(label) == cpc' = label

PopCall(block) ==
  /\ cpc = "idle"
  /\ GoTo("snapshot")
  /\ blocking' = block /\ late' = FALSE
  /\ UNCHANGED <<queueVars, seq_wait, waiters, prodVars, expect, histVars>>

Snapshot ==
  /\ cpc = "snapshot"
  /\ expect' = seq_wait
  /\ GoTo("ring")
  /\ UNCHANGED <<queueVars, seq_wait, waiters, prodVars, blocking, late, histVars>>

PopRing ==
  /\ cpc = "ring"
  /\ \/ /\ ring # <<>>
        /\ ring' = Tail(ring) /\ got' = Append(got, Head(ring))
        /\ GoTo("idle")
     \/ /\ ring = <<>>
        /\ GoTo("log") /\ UNCHANGED <<ring, got>>
  /\ UNCHANGED <<log, elapsed, seq_wait, waiters, prodVars, expect, blocking, late, pushed, early>>

\* emq_prim_entry_expired: an entry whose slot is found goes by the slot's
\* time, which is zero until it is stored; the others by the entry's own.
Unreturned(m) == ppc = "track" /\ m.id = Len(pushed)
Timeless(m) == Unreturned(m) /\ todo = {"time"}
Gone(m)     == m.kind = "ttl" /\ (m.id \in elapsed \/ Timeless(m))
Due(m)      == m.kind = "delayed" => m.id \in elapsed

\* Mutant of PopLog: an entry that is not due is dropped like an expired one.
PopLog_skips ==
  /\ cpc = "log"
  /\ \/ /\ log # <<>> /\ Due(Head(log)) /\ ~Gone(Head(log))
        /\ log' = Tail(log) /\ got' = Append(got, Head(log))
        /\ GoTo("idle") /\ UNCHANGED early
     \/ /\ log # <<>> /\ (Gone(Head(log)) \/ ~Due(Head(log)))
        /\ log' = Tail(log)
        /\ UNCHANGED <<cpc, got, early>>
     \/ /\ log = <<>>
        /\ GoTo(IF blocking THEN "clock" ELSE "idle")
        /\ UNCHANGED <<log, got, early>>
  /\ UNCHANGED <<ring, elapsed, seq_wait, waiters, prodVars, expect, blocking, late, pushed>>

\* One round of the scan: the oldest entry of the log is dropped if it has
\* expired and the scan goes on; else it is delivered, unless its delivery
\* time is still to come.
PopLog ==
  /\ cpc = "log"
  /\ \/ /\ log # <<>> /\ Due(Head(log)) /\ ~Gone(Head(log))
        /\ log' = Tail(log) /\ got' = Append(got, Head(log))
        /\ GoTo("idle") /\ UNCHANGED early
     \/ /\ log # <<>> /\ Gone(Head(log))
        /\ log' = Tail(log)
        /\ early' = early \cup (IF Unreturned(Head(log)) THEN {Head(log).id} ELSE {})
        /\ UNCHANGED <<cpc, got>>
     \/ /\ log # <<>> => ~Due(Head(log))
        /\ GoTo(IF blocking THEN "clock" ELSE "idle")
        /\ UNCHANGED <<log, got, early>>
  /\ UNCHANGED <<ring, elapsed, seq_wait, waiters, prodVars, expect, blocking, late, pushed>>

\* Nothing found: give up if the deadline has passed, else count as a waiter.
Clock ==
  /\ cpc = "clock"
  /\ \/ late /\ GoTo("idle") /\ UNCHANGED waiters
     \/ ~late /\ GoTo("check") /\ waiters' = waiters + 1
  /\ UNCHANGED <<queueVars, seq_wait, prodVars, expect, blocking, late, histVars>>

\* emq_wait_u64: the check in user space, then the one the kernel makes as it
\* puts the thread to sleep.
Check ==
  /\ cpc = "check"
  /\ GoTo(IF seq_wait # expect THEN "leave" ELSE "futex")
  /\ UNCHANGED <<queueVars, seq_wait, waiters, prodVars, expect, blocking, late, histVars>>

FutexWait ==
  /\ cpc = "futex"
  /\ GoTo(IF seq_wait # expect THEN "leave" ELSE "asleep")
  /\ UNCHANGED <<queueVars, seq_wait, waiters, prodVars, expect, blocking, late, histVars>>

\* The sleep ends at its timeout, which is no shorter than the time left, or
\* by a signal, after which the wait starts again if seq_wait has not moved.
FutexTimeout ==
  /\ cpc = "asleep"
  /\ GoTo("leave") /\ late' = TRUE
  /\ UNCHANGED <<queueVars, seq_wait, waiters, prodVars, expect, blocking, histVars>>

Interrupted ==
  /\ cpc = "asleep"
  /\ GoTo(IF seq_wait # expect THEN "leave" ELSE "check")
  /\ UNCHANGED <<queueVars, seq_wait, waiters, prodVars, expect, blocking, late, histVars>>

Awake ==
  /\ cpc = "awake"
  /\ GoTo("leave")
  /\ UNCHANGED <<queueVars, seq_wait, waiters, prodVars, expect, blocking, late, histVars>>

Leave ==
  /\ cpc = "leave"
  /\ waiters' = waiters - 1
  /\ GoTo("snapshot")
  /\ UNCHANGED <<queueVars, seq_wait, prodVars, expect, blocking, late, histVars>>

PopStep == Snapshot \/ PopRing \/ PopLog \/ Clock \/ Check \/ FutexWait \/ Awake \/ Leave

-----------------------------------------------------------------------------
\* The clock: the deadline of the call, the times of the log entries.
DeadlinePasses ==
  /\ cpc \notin {"idle", "asleep"} /\ blocking /\ ~late
  /\ late' = TRUE
  /\ UNCHANGED <<queueVars, seq_wait, waiters, prodVars, cpc, expect, blocking, histVars>>

Elapse ==
  /\ \E i \in 1..Len(log) :
       log[i].id \notin elapsed /\ elapsed' = elapsed \cup {log[i].id}
  /\ UNCHANGED <<ring, log, seq_wait, waiters, prodVars, consVars, histVars>>

Next ==
  \/ PushPlain \/ (\E kind \in Kinds \ {"plain"} : PushLog(kind)) \/ PushStep
  \/ (\E block \in BOOLEAN : PopCall(block)) \/ PopStep
  \/ FutexTimeout \/ Interrupted
  \/ DeadlinePasses \/ Elapse

\* Threads inside a call run, unless asleep; a sleeper is not assumed to time
\* out, so what the liveness property promises is owed to the wake-ups alone.
Fairness == WF_vars(PushStep) /\ WF_vars(PopStep)

Spec == Init /\ [][Next]_vars
FairSpec == Spec /\ Fairness

-----------------------------------------------------------------------------
\* Properties.

\* The types of the variables.
TypeOK ==
  /\ ring \in Seq(Msgs) /\ log \in Seq(Msgs) /\ elapsed \subseteq 1..MaxPush
  /\ seq_wait \in Nat /\ waiters \in Nat /\ expect \in Nat
  /\ ppc \in {"idle", "tell", "wake", "track"}
  /\ todo \subseteq {"seq", "load", "message", "time"}
  /\ wake \in BOOLEAN /\ blocking \in BOOLEAN /\ late \in BOOLEAN
  /\ cpc \in {"idle", "snapshot", "ring", "log", "clock", "check", "futex",
              "asleep", "awake", "leave"}
  /\ pushed \in Seq(Msgs) /\ got \in Seq(Msgs) /\ early \subseteq 1..MaxPush

\* No lost wake-up: a consumer sleeps over a message in the ring only while the
\* push that brought it is still on its way to wake it.
NoLostWakeup ==
  cpc = "asleep" /\ ring # <<>> =>
    \/ ppc = "tell" /\ waiters # 0
    \/ ppc = "wake" /\ wake

\* Why: between looking into the ring and sleeping, a message that has come is
\* one the snapshot does not count yet, or one whose push has still to count.
Registered == {"check", "futex", "asleep", "awake", "leave"}
HasLooked  == {"log", "clock", "check", "futex", "asleep"}

Counters ==
  /\ seq_wait \in Nat /\ expect \in Nat /\ expect <= seq_wait
  /\ waiters = IF cpc \in Registered THEN 1 ELSE 0

Todo ==
  /\ ppc \in {"idle", "tell", "wake", "track"}
  /\ ppc = "tell" => todo \in {{"seq", "load"}, {"load"}}

SeenOrUncounted ==
  cpc \in HasLooked /\ ring # <<>> =>
    seq_wait > expect \/ (ppc = "tell" /\ "seq" \in todo)

WakeInv == Counters /\ Todo /\ SeenOrUncounted /\ NoLostWakeup

\* The same for the messages that the ring does not carry: no push has returned
\* leaving a deliverable message in the log under a sleeping consumer.
NoSleepOverLog ==
  cpc = "asleep" /\ ppc = "idle" => ~\E i \in 1..Len(log) : Due(log[i]) /\ ~Gone(log[i])

\* Every accepted message is delivered once, still queued or expired, but for
\* one that a pop drops while the push with a time to live that brought it has
\* not returned: the pop takes the time not stored yet for one long past.  A
\* push that returns with its message still queued has queued it for good.
Ids(s) == {s[i].id : i \in 1..Len(s)}
Queued == Ids(ring) \cup Ids(log)
NothingLost ==
  /\ \A n \in Ids(pushed) \ (Ids(got) \cup Queued) : n \in elapsed \cup early
  /\ \A i, j \in 1..Len(got) : i # j => got[i].id # got[j].id
  /\ Ids(got) \cap Queued = {}

\* Why: the pushes are numbered, no message is in two places or twice in one,
\* and one that is in none of them has expired or was dropped too early.
Distinct(s) == \A i, j \in 1..Len(s) : s[i].id = s[j].id => i = j

Accounted ==
  /\ Ids(pushed) = 1..Len(pushed)
  /\ Ids(ring) \cup Ids(log) \cup Ids(got) \subseteq 1..Len(pushed)
  /\ 1..Len(pushed) \subseteq elapsed \cup early \cup Ids(ring) \cup Ids(log) \cup Ids(got)
  /\ Distinct(ring) /\ Distinct(log) /\ Distinct(got)
  /\ Ids(ring) \cap Ids(log) = {}
  /\ Ids(got) \cap (Ids(ring) \cup Ids(log)) = {}

\* A pop in progress returns once the ring has a message, without waiting for
\* its timeout, unless the scan of the log goes on for ever, which takes a
\* producer that pushes for ever what expires at once (MaxPush excludes it).
PopReturns == (cpc # "idle" /\ ring # <<>>) ~> cpc = "idle"
=============================================================================
