----------------------------- MODULE FastPopProofs -----------------------------
(***************************************************************************)
(* Proof that no wake-up is lost by the blocking pop of a FAST queue, for  *)
(* any kinds of messages, any size of the ring and any number of pushes,   *)
(* provided the atomics of a push take effect in program order.            *)
(***************************************************************************)
EXTENDS FastPop, SequenceTheorems, TLAPS

\* Counting leaves the load of waiters to do; loading it then ends the telling.
LEMMA TodoShrinks ==
  /\ {"seq", "load"} \ {"seq"} = {"load"}
  /\ {"seq", "load"} # {"seq"}
  /\ {"load"} \ {"load"} = {}
  OBVIOUS

LEMMA InitWake == Init => WakeInv
  BY DEF Init, WakeInv, Counters, Todo, SeenOrUncounted, NoLostWakeup,
         Registered, HasLooked

\* The producer.  A push that has just published, or counted, is on its way to
\* load waiters; one that loads it after counting sees any registered consumer.
LEMMA ProducerWake ==
  ASSUME ~RelaxedAtomics, WakeInv,
         PushPlain \/ (\E kind \in Kinds \ {"plain"} : PushLog(kind)) \/ PushStep
  PROVE  WakeInv'
<1> USE DEF WakeInv, Counters, Todo, SeenOrUncounted, NoLostWakeup, Registered,
            HasLooked, consVars, queueVars, prodVars, histVars
<1>1. CASE PushPlain
  BY <1>1 DEF PushPlain
<1>2. ASSUME NEW kind \in Kinds \ {"plain"}, PushLog(kind)
      PROVE  WakeInv'
  BY <1>2 DEF PushLog
<1>3. CASE CountSeq
  <2>1. todo = {"seq", "load"}
    BY <1>3 DEF CountSeq
  <2>2. ppc' = "tell" /\ todo' = {"load"}
    BY <1>3, <2>1, TodoShrinks DEF CountSeq, Done
  <2>3. QED
    BY <1>3, <2>2 DEF CountSeq
<1>4. CASE LoadWaiters
  <2>1. todo = {"load"}
    BY <1>4, ~RelaxedAtomics DEF LoadWaiters
  <2>2. ppc' = "wake" /\ wake' = (waiters # 0)
    BY <1>4, <2>1 DEF LoadWaiters, Done
  <2>3. cpc = "asleep" => waiters # 0
    OBVIOUS
  <2>4. UNCHANGED <<ring, seq_wait, waiters, cpc, expect>>
    BY <1>4 DEF LoadWaiters
  <2>5. SeenOrUncounted'
    BY <2>1, <2>4
  <2>6. QED
    BY <2>2, <2>3, <2>4, <2>5
<1>5. CASE Wake
  BY <1>5 DEF Wake
<1>6. ASSUME NEW store \in {"message", "time"}, Track(store)
      PROVE  WakeInv'
  <2>1. ppc = "track" /\ ppc' \in {"track", "idle"}
    BY <1>6 DEF Track
  <2>2. UNCHANGED <<ring, seq_wait, waiters, wake, cpc, expect>>
    BY <1>6 DEF Track
  <2> QED
    BY <2>1, <2>2
<1> QED
  BY <1>1, <1>2, <1>3, <1>4, <1>5, <1>6 DEF PushStep, TrackStep

\* The consumer.  It goes to sleep only on a snapshot that is still current, so
\* a message it has missed is one whose push has still to load waiters.
LEMMA ConsumerWake ==
  ASSUME WakeInv,
         (\E block \in BOOLEAN : PopCall(block)) \/ PopStep \/ FutexTimeout \/ Interrupted
  PROVE  WakeInv'
<1> USE DEF WakeInv, Counters, Todo, SeenOrUncounted, NoLostWakeup, Registered,
            HasLooked, consVars, queueVars, prodVars, histVars, GoTo
<1>1. ASSUME NEW block \in BOOLEAN, PopCall(block)
      PROVE  WakeInv'
  BY <1>1 DEF PopCall
<1>2. CASE Snapshot
  BY <1>2 DEF Snapshot
<1>3. CASE PopRing
  BY <1>3 DEF PopRing
<1>4. CASE PopLog
  <2>1. cpc = "log" /\ cpc' \in {"idle", "log", "clock"}
    BY <1>4 DEF PopLog
  <2>2. UNCHANGED <<ring, seq_wait, waiters, ppc, todo, wake, expect>>
    BY <1>4 DEF PopLog
  <2>3. QED
    BY <2>1, <2>2
<1>5. CASE Clock
  BY <1>5 DEF Clock
<1>6. CASE Check
  BY <1>6 DEF Check
<1>7. CASE FutexWait
  <2>1. CASE seq_wait # expect
    BY <1>7, <2>1 DEF FutexWait
  <2>2. CASE seq_wait = expect
    BY <1>7, <2>2 DEF FutexWait
  <2>3. QED
    BY <2>1, <2>2
<1>8. CASE Awake
  BY <1>8 DEF Awake
<1>9. CASE Leave
  BY <1>9 DEF Leave
<1>10. CASE FutexTimeout
  BY <1>10 DEF FutexTimeout
<1>11. CASE Interrupted
  BY <1>11 DEF Interrupted
<1>12. QED
  BY <1>1, <1>2, <1>3, <1>4, <1>5, <1>6, <1>7, <1>8, <1>9, <1>10, <1>11 DEF PopStep

\* The clock moves nothing that matters here.
LEMMA ClockWake ==
  ASSUME WakeInv, DeadlinePasses \/ Elapse \/ UNCHANGED vars
  PROVE  WakeInv'
  BY DEF DeadlinePasses, Elapse, vars, WakeInv, Counters, Todo, SeenOrUncounted,
         NoLostWakeup, Registered, HasLooked, consVars, queueVars, prodVars, histVars

\* The invariant behind the futex protocol of emq_pop and emq_fifo_push_lfq: a
\* message the consumer has missed is either past its snapshot or uncounted.
THEOREM WakeInvariance == ASSUME ~RelaxedAtomics PROVE Spec => []WakeInv
<1>1. WakeInv /\ [Next]_vars => WakeInv'
  BY ~RelaxedAtomics, ProducerWake, ConsumerWake, ClockWake DEF Next
<1>2. QED
  BY <1>1, InitWake, PTL DEF Spec

\* A consumer blocked in emq_pop never sleeps over a ring message that nobody
\* is on the way to wake it for.
THEOREM NoWakeupLost == ASSUME ~RelaxedAtomics PROVE Spec => []NoLostWakeup
<1>1. WakeInv => NoLostWakeup
  BY DEF WakeInv
<1>2. QED
  BY <1>1, WakeInvariance, PTL

-----------------------------------------------------------------------------
\* The types of the variables.

TypeInv == TypeOK /\ Counters

LEMMA InitType == Init => TypeInv
<1>1. Init => /\ ring \in Seq(Msgs) /\ log \in Seq(Msgs)
              /\ pushed \in Seq(Msgs) /\ got \in Seq(Msgs)
  BY DEF Init
<1>2. Init => /\ elapsed \subseteq 1..MaxPush /\ early \subseteq 1..MaxPush
              /\ todo \subseteq {"seq", "load", "message", "time"}
  BY DEF Init
<1>3. Init => Counters
  BY DEF Init, Counters, Registered
<1>4. Init => /\ seq_wait \in Nat /\ waiters \in Nat /\ expect \in Nat
              /\ ppc = "idle" /\ cpc = "idle"
  BY DEF Init
<1>5. Init => wake \in BOOLEAN /\ blocking \in BOOLEAN /\ late \in BOOLEAN
  BY Zenon DEF Init
<1>6. Init => TypeOK
  <2> HIDE DEF Init
  <2> QED
    BY <1>1, <1>2, <1>4, <1>5 DEF TypeOK
<1> QED
  BY <1>3, <1>6 DEF TypeInv

LEMMA ProducerType ==
  ASSUME TypeInv,
         PushPlain \/ (\E kind \in Kinds \ {"plain"} : PushLog(kind)) \/ PushStep
  PROVE  TypeInv'
<1> USE FastPopAssumption DEF TypeInv, TypeOK, Counters, Registered, consVars, queueVars, prodVars, histVars
<1>1. CASE PushPlain
  <2> DEFINE m == [id |-> Len(pushed) + 1, kind |-> "plain"]
  <2>1. m \in Msgs
    BY <1>1 DEF PushPlain, Msgs
  <2> QED
    BY <1>1, <2>1 DEF PushPlain
<1>2. ASSUME NEW kind \in Kinds \ {"plain"}, PushLog(kind)
      PROVE  TypeInv'
  <2> DEFINE m == [id |-> Len(pushed) + 1, kind |-> kind]
  <2>1. m \in Msgs
    BY <1>2 DEF PushLog, Msgs
  <2>2. log' \in Seq(Msgs) /\ pushed' \in Seq(Msgs)
    BY <1>2, <2>1 DEF PushLog
  <2>3. /\ ppc' \in {"idle", "tell", "wake", "track"}
        /\ todo' \subseteq {"seq", "load", "message", "time"}
    <3>1. CASE kind = "ttl"
      BY <1>2, <3>1 DEF PushLog
    <3>2. CASE kind # "ttl"
      BY <1>2, <3>2 DEF PushLog
    <3> QED
      BY <3>1, <3>2
  <2>4. UNCHANGED <<ring, elapsed, seq_wait, waiters, wake, cpc, expect, blocking, late, got, early>>
    BY <1>2 DEF PushLog
  <2> HIDE <1>2 DEF m
  <2> QED
    BY <2>2, <2>3, <2>4
<1>3. CASE CountSeq
  BY <1>3 DEF CountSeq, Done
<1>4. CASE LoadWaiters
  BY <1>4 DEF LoadWaiters, Done
<1>5. CASE Wake
  BY <1>5 DEF Wake
<1>6. ASSUME NEW store \in {"message", "time"}, Track(store)
      PROVE  TypeInv'
  BY <1>6 DEF Track
<1> QED
  BY <1>1, <1>2, <1>3, <1>4, <1>5, <1>6 DEF PushStep, TrackStep

LEMMA ConsumerType ==
  ASSUME TypeInv,
         (\E block \in BOOLEAN : PopCall(block)) \/ PopStep \/ FutexTimeout \/ Interrupted
  PROVE  TypeInv'
<1> USE DEF TypeInv, TypeOK, Counters, Registered, consVars, queueVars, prodVars, histVars, GoTo
<1>1. ASSUME NEW block \in BOOLEAN, PopCall(block)
      PROVE  TypeInv'
  BY <1>1 DEF PopCall
<1>2. CASE Snapshot
  BY <1>2 DEF Snapshot
<1>3. CASE PopRing
  <2>1. ring # <<>> => /\ Tail(ring) \in Seq(Msgs)
                       /\ Append(got, Head(ring)) \in Seq(Msgs)
    BY HeadTailProperties, AppendProperties
  <2>2. /\ ring' \in Seq(Msgs) /\ got' \in Seq(Msgs)
        /\ cpc = "ring" /\ cpc' \in {"idle", "log"}
    BY <1>3, <2>1 DEF PopRing
  <2>3. UNCHANGED <<log, elapsed, seq_wait, waiters, ppc, todo, wake, expect, blocking, late, pushed, early>>
    BY <1>3 DEF PopRing
  <2> QED
    BY <2>2, <2>3
<1>4. CASE PopLog
  <2>1. log # <<>> => /\ Tail(log) \in Seq(Msgs) /\ Append(got, Head(log)) \in Seq(Msgs)
                      /\ Head(log) \in Msgs
    BY HeadTailProperties, AppendProperties
  <2>2. log' \in Seq(Msgs) /\ got' \in Seq(Msgs) /\ cpc' \in {"idle", "log", "clock"}
    BY <1>4, <2>1 DEF PopLog
  <2>3. early' \subseteq 1..MaxPush
    <3>1. log # <<>> => Head(log).id \in 1..MaxPush
      BY <2>1 DEF Msgs
    <3>2. early' = early \/ (log # <<>> /\ early' \subseteq early \cup {Head(log).id})
      BY <1>4 DEF PopLog
    <3> QED
      BY <3>1, <3>2
  <2>4. UNCHANGED <<ring, elapsed, seq_wait, waiters, ppc, todo, wake, expect, blocking, late, pushed>>
        /\ cpc = "log"
    BY <1>4 DEF PopLog
  <2> QED
    BY <2>2, <2>3, <2>4
<1>5. CASE Clock
  BY <1>5 DEF Clock
<1>6. CASE Check
  BY <1>6 DEF Check
<1>7. CASE FutexWait
  BY <1>7 DEF FutexWait
<1>8. CASE Awake
  BY <1>8 DEF Awake
<1>9. CASE Leave
  BY <1>9 DEF Leave
<1>10. CASE FutexTimeout
  BY <1>10 DEF FutexTimeout
<1>11. CASE Interrupted
  BY <1>11 DEF Interrupted
<1> QED
  BY <1>1, <1>2, <1>3, <1>4, <1>5, <1>6, <1>7, <1>8, <1>9, <1>10, <1>11 DEF PopStep

LEMMA ClockType ==
  ASSUME TypeInv, DeadlinePasses \/ Elapse \/ UNCHANGED vars
  PROVE  TypeInv'
<1> USE DEF TypeInv, TypeOK, Counters, Registered, consVars, queueVars, prodVars, histVars
<1>1. CASE Elapse
  <2>1. ASSUME NEW i \in 1..Len(log) PROVE log[i].id \in 1..MaxPush
    <3>1. log[i] \in Msgs
      OBVIOUS
    <3> QED
      BY <3>1 DEF Msgs
  <2> QED
    BY <1>1, <2>1 DEF Elapse
<1>2. CASE DeadlinePasses
  BY <1>2 DEF DeadlinePasses
<1>3. CASE UNCHANGED vars
  BY <1>3 DEF vars
<1> QED
  BY <1>1, <1>2, <1>3

\* The variables keep their types, whatever the order of a push's atomics; the
\* consumer counts itself into waiters once, and out once.
THEOREM TypeInvariance == Spec => []TypeInv
<1>1. TypeInv /\ [Next]_vars => TypeInv'
  BY ProducerType, ConsumerType, ClockType DEF Next
<1>2. QED
  BY <1>1, InitType, PTL DEF Spec

THEOREM TypeCorrect == Spec => []TypeOK
<1>1. TypeInv => TypeOK
  BY DEF TypeInv
<1>2. QED
  BY <1>1, TypeInvariance, PTL

-----------------------------------------------------------------------------
\* No message is lost.

LEMMA AppendIds ==
  ASSUME NEW s \in Seq(Msgs), NEW m \in Msgs
  PROVE  /\ Ids(Append(s, m)) = Ids(s) \cup {m.id}
         /\ Distinct(s) /\ m.id \notin Ids(s) => Distinct(Append(s, m))
<1>1. /\ Len(Append(s, m)) = Len(s) + 1 /\ Len(s) \in Nat
      /\ \A i \in 1..Len(s) : Append(s, m)[i] = s[i]
      /\ Append(s, m)[Len(s) + 1] = m
  BY AppendProperties
<1> DEFINE a == Append(s, m)
<1> HIDE DEF a
<1>2. Ids(a) = Ids(s) \cup {m.id}
  BY <1>1 DEF a, Ids
<1>3. ASSUME Distinct(s), m.id \notin Ids(s) PROVE Distinct(a)
  BY <1>1, <1>3 DEF a, Ids, Distinct
<1> QED
  BY <1>2, <1>3 DEF a

LEMMA TailIds ==
  ASSUME NEW s \in Seq(Msgs), s # <<>>, Distinct(s)
  PROVE  /\ Ids(Tail(s)) = Ids(s) \ {Head(s).id}
         /\ Head(s).id \in Ids(s) /\ Head(s) \in Msgs
         /\ Distinct(Tail(s)) /\ Tail(s) \in Seq(Msgs)
<1>1. /\ Len(Tail(s)) = Len(s) - 1 /\ Len(s) \in Nat \ {0}
      /\ \A i \in 1..Len(Tail(s)) : Tail(s)[i] = s[i + 1]
      /\ Head(s) = s[1] /\ Head(s) \in Msgs /\ Tail(s) \in Seq(Msgs)
  BY HeadTailProperties
<1> DEFINE a == Tail(s)
<1> HIDE DEF a
<1>2. Ids(a) \subseteq Ids(s) \ {s[1].id}
  BY <1>1 DEF a, Ids, Distinct
<1>3. ASSUME NEW n \in Ids(s), n # s[1].id PROVE n \in Ids(a)
  <2>1. PICK i \in 1..Len(s) : n = s[i].id
    BY DEF Ids
  <2>2. i # 1 /\ i - 1 \in 1..Len(a) /\ a[i - 1] = s[i]
    BY <1>1, <1>3, <2>1 DEF a
  <2> QED
    BY <2>1, <2>2 DEF Ids
<1>4. Distinct(a)
  BY <1>1 DEF a, Distinct
<1>5. s[1].id \in Ids(s)
  BY <1>1 DEF Ids
<1> QED
  BY <1>1, <1>2, <1>3, <1>4, <1>5 DEF a

LEMMA InitAccounted == Init => Accounted
<1>1. Ids(<<>>) = {} /\ Distinct(<<>>) /\ 1..Len(<<>>) = {}
  BY DEF Ids, Distinct
<1> QED
  BY <1>1 DEF Init, Accounted

\* A push takes a number of its own.
LEMMA PushAccounted ==
  ASSUME TypeOK, Accounted, NEW m \in Msgs, m.id = Len(pushed) + 1,
         pushed' = Append(pushed, m), UNCHANGED <<elapsed, early, got>>,
         \/ ring' = Append(ring, m) /\ log' = log
         \/ log' = Append(log, m) /\ ring' = ring
  PROVE  Accounted'
<1> DEFINE n == Len(pushed)
<1>1. /\ pushed \in Seq(Msgs) /\ ring \in Seq(Msgs) /\ log \in Seq(Msgs) /\ n \in Nat
  BY DEF TypeOK
<1>2. Len(pushed') = n + 1 /\ Ids(pushed') = Ids(pushed) \cup {n + 1}
  BY <1>1, AppendIds, AppendProperties
<1>3. 1..(n + 1) = 1..n \cup {n + 1} /\ n + 1 \notin 1..n
  BY <1>1
<1>4. n + 1 \notin Ids(ring) /\ n + 1 \notin Ids(log) /\ n + 1 \notin Ids(got)
  BY <1>3 DEF Accounted
<1>5. /\ Distinct(ring') /\ Distinct(log')
      /\ \/ Ids(ring') = Ids(ring) \cup {n + 1} /\ Ids(log') = Ids(log)
         \/ Ids(log') = Ids(log) \cup {n + 1} /\ Ids(ring') = Ids(ring)
  <2>1. Distinct(ring) /\ Distinct(log)
    BY DEF Accounted
  <2>2. m.id = n + 1
    OBVIOUS
  <2> HIDE DEF n
  <2>3. CASE ring' = Append(ring, m) /\ log' = log
    BY <1>1, <1>4, <2>1, <2>2, <2>3, AppendIds
  <2>4. CASE log' = Append(log, m) /\ ring' = ring
    BY <1>1, <1>4, <2>1, <2>2, <2>4, AppendIds
  <2> QED
    BY <2>3, <2>4
<1>6. Distinct(got') /\ Ids(got') = Ids(got)
  BY DEF Accounted
<1> HIDE DEF n
<1> QED
  BY <1>2, <1>3, <1>4, <1>5, <1>6 DEF Accounted, n

\* A pop moves a message; what it drops has expired, or its push has not returned.
LEMMA PopAccounted ==
  ASSUME TypeInv, Accounted, PopRing \/ PopLog
  PROVE  Accounted'
<1>1. /\ ring \in Seq(Msgs) /\ log \in Seq(Msgs) /\ got \in Seq(Msgs)
      /\ Distinct(ring) /\ Distinct(log) /\ Distinct(got)
  BY DEF TypeInv, TypeOK, Accounted
<1>2. CASE PopRing
  <2>1. CASE ring = <<>>
    BY <1>2, <2>1 DEF PopRing, Accounted
  <2>2. CASE ring # <<>>
    <3>1. /\ Ids(ring') = Ids(ring) \ {Head(ring).id} /\ Distinct(ring')
          /\ Head(ring).id \in Ids(ring) /\ Head(ring) \in Msgs
      BY <1>1, <1>2, <2>2, TailIds DEF PopRing
    <3>2. Head(ring).id \notin Ids(got) /\ Head(ring).id \notin Ids(log)
      BY <3>1 DEF Accounted
    <3>3. Ids(got') = Ids(got) \cup {Head(ring).id} /\ Distinct(got')
      BY <1>1, <1>2, <2>2, <3>1, <3>2, AppendIds DEF PopRing
    <3>4. UNCHANGED <<log, elapsed, early, pushed>>
      BY <1>2 DEF PopRing
    <3> QED
      BY <3>1, <3>2, <3>3, <3>4 DEF Accounted
  <2> QED
    BY <2>1, <2>2
<1>3. CASE PopLog
  <2>1. log # <<>> => /\ Ids(Tail(log)) = Ids(log) \ {Head(log).id} /\ Distinct(Tail(log))
                      /\ Head(log).id \in Ids(log) /\ Head(log) \in Msgs
    BY <1>1, TailIds
  <2>2. UNCHANGED <<ring, elapsed, pushed>>
    BY <1>3 DEF PopLog
  <2>3. \/ log # <<>> /\ log' = Tail(log) /\ got' = Append(got, Head(log)) /\ early' = early
        \/ /\ log # <<>> /\ log' = Tail(log) /\ got' = got /\ Gone(Head(log))
           /\ early' = early \cup (IF Unreturned(Head(log)) THEN {Head(log).id} ELSE {})
        \/ UNCHANGED <<log, got, early>>
    BY <1>3 DEF PopLog
  <2>4. CASE log # <<>> /\ log' = Tail(log) /\ got' = Append(got, Head(log)) /\ early' = early
    <3>1. Head(log).id \notin Ids(got) /\ Head(log).id \notin Ids(ring)
      BY <2>1, <2>4 DEF Accounted
    <3>2. Ids(got') = Ids(got) \cup {Head(log).id} /\ Distinct(got')
      BY <1>1, <2>1, <2>4, <3>1, AppendIds
    <3> QED
      BY <2>1, <2>2, <2>4, <3>1, <3>2 DEF Accounted
  <2>5. CASE /\ log # <<>> /\ log' = Tail(log) /\ got' = got /\ Gone(Head(log))
             /\ early' = early \cup (IF Unreturned(Head(log)) THEN {Head(log).id} ELSE {})
    <3>1. Head(log).id \in elapsed \/ Unreturned(Head(log))
      BY <2>5 DEF Gone, Timeless
    <3>2. Head(log).id \in elapsed \cup early' /\ early \subseteq early'
      BY <2>5, <3>1
    <3>3. Ids(log') = Ids(log) \ {Head(log).id} /\ Distinct(log')
      BY <2>1, <2>5
    <3>4. got' = got
      BY <2>5
    <3> HIDE <2>5
    <3> QED
      BY <2>2, <3>2, <3>3, <3>4 DEF Accounted
  <2>6. CASE UNCHANGED <<log, got, early>>
    BY <2>2, <2>6 DEF Accounted
  <2> QED
    BY <2>3, <2>4, <2>5, <2>6
<1> QED
  BY <1>2, <1>3

\* Everything else moves no message.
LEMMA StepAccounted ==
  ASSUME TypeInv, Accounted, [Next]_vars
  PROVE  Accounted'
<1>1. CASE PushPlain
  <2> DEFINE m == [id |-> Len(pushed) + 1, kind |-> "plain"]
  <2>1. m \in Msgs
    BY <1>1, FastPopAssumption DEF PushPlain, Msgs, TypeInv, TypeOK
  <2> QED
    BY <1>1, <2>1, PushAccounted DEF PushPlain, TypeInv
<1>2. ASSUME NEW kind \in Kinds \ {"plain"}, PushLog(kind)
      PROVE  Accounted'
  <2> DEFINE m == [id |-> Len(pushed) + 1, kind |-> kind]
  <2>1. m \in Msgs
    BY <1>2, FastPopAssumption DEF PushLog, Msgs, TypeInv, TypeOK
  <2> QED
    BY <1>2, <2>1, PushAccounted DEF PushLog, TypeInv
<1>3. CASE PopRing \/ PopLog
  BY <1>3, PopAccounted
<1>4. CASE Elapse
  <2>1. elapsed \subseteq elapsed' /\ UNCHANGED <<ring, log, pushed, got, early>>
    BY <1>4 DEF Elapse, histVars
  <2> QED
    BY <2>1 DEF Accounted
<1>5. ASSUME UNCHANGED <<queueVars, histVars>>
      PROVE  Accounted'
  BY <1>5 DEF queueVars, histVars, Accounted
<1>6. \/ PushStep \/ (\E block \in BOOLEAN : PopCall(block)) \/ FutexTimeout \/ Interrupted
      \/ Snapshot \/ Clock \/ Check \/ FutexWait \/ Awake \/ Leave
      \/ DeadlinePasses \/ UNCHANGED vars
      => UNCHANGED <<queueVars, histVars>>
  BY DEF PushStep, TrackStep, Track, CountSeq, LoadWaiters, Wake, PopCall, FutexTimeout, Interrupted, Snapshot,
         Clock, Check, FutexWait, Awake, Leave, DeadlinePasses, vars
<1> QED
  BY <1>1, <1>2, <1>3, <1>4, <1>5, <1>6 DEF Next, PopStep

\* Every message accepted by a push of a FAST queue is in the ring, in the log,
\* delivered once, or expired, or it was dropped by a pop that met it in the log
\* before the push that brought it had returned.
THEOREM NothingIsLost == Spec => []NothingLost
<1>1. Accounted /\ TypeInv => NothingLost
  <2> SUFFICES ASSUME Accounted, TypeInv PROVE NothingLost
    OBVIOUS
  <2>1. \A i, j \in 1..Len(got) : i # j => got[i].id # got[j].id
    BY DEF Accounted, Distinct
  <2> QED
    BY <2>1 DEF Accounted, NothingLost, Queued
<1>2. Accounted /\ TypeInv /\ [Next]_vars => Accounted'
  BY StepAccounted
<1>3. QED
  BY <1>1, <1>2, InitAccounted, TypeInvariance, PTL DEF Spec
=============================================================================
