------------------------------ MODULE Delivery ------------------------------
(***************************************************************************)
(* Delivery from a queue's log (core/src/primitives: emq_dispatch.c,       *)
(* emq_fifo.c, emq_workqueue.c, emq_priority.c, emq_delay.c, emq_stream.c, *)
(* emq_ring.c) behind the calls of core/src/api/emq.c.  Every call holds   *)
(* the queue's op_mu from end to end, so a call is one action; what        *)
(* interleaves is whole calls, the passing of time, and restarts.          *)
(*                                                                         *)
(* The log is the interval start .. next-1 of offsets; msg[off + 1] is     *)
(* what was appended at off.  The in-flight table of the code holds its    *)
(* ACTIVE records here in active and its CONSUMED ones in consumed; a      *)
(* RESERVED record exists only inside a pop, where its one effect, that    *)
(* the log is not trimmed, is written out.  Which slot of the table a scan *)
(* meets first depends on its history and is left open.  A time to live    *)
(* that has run out and a delivery time that has come are in elapsed.      *)
(***************************************************************************)
EXTENDS Integers, Sequences, FiniteSets

CONSTANTS
  Scenarios,    \* the queues to be looked at and what befalls each of them
  RingSize,     \* entries the log of a "ring" queue holds
  SmallBuffers, \* TRUE: emq_pop_into is called with buffers that are too small
  ReadFails,    \* TRUE: reading an entry may fail for want of memory
  SameId,       \* TRUE: messages 2k and 2k+1 happen to get the same msg_id
  MaxMsgs       \* no scenario has more pushes

\* A queue's options (a work queue is a "fifo"), what is pushed, and the bounds on pushes, on
\* visibility timeouts and nacks, on seeks and on crashes.
Policies == {"fifo", "lifo", "priority", "delay", "stream", "ring"}
Scenario ==
  [policy : Policies, at_least_once : BOOLEAN,
   kinds : SUBSET {"plain", "ttl", "delayed"}, prios : SUBSET Nat,
   pushes : 0..MaxMsgs, retries : Nat, seeks : Nat, restarts : Nat]

ASSUME DeliveryAssumption ==
  /\ MaxMsgs \in Nat /\ RingSize \in Nat \ {0}
  /\ \A s \in Scenarios : s \in Scenario
  /\ SmallBuffers \in BOOLEAN /\ ReadFails \in BOOLEAN /\ SameId \in BOOLEAN

VARIABLES
  opts,              \* the scenario: the descriptor's opts never change
  start, next,       \* the log: first retained offset, next offset
  saved,             \* trim offset of the log's last metadata write
  msg, elapsed,      \* what was appended; whose time has come
  read_offset, consumer_offset,
  active,            \* ACTIVE records: [off, shown], shown once visible again
  consumed,          \* offsets of the CONSUMED records
  handed, acked,     \* history: offsets handed to a caller, acknowledged, as far as
                     \* the queue can know of it since the last restart
  forsaken,          \* history: offsets below this were skipped or overwritten
  retries, seeks, restarts   \* counters of the bounds

logVars  == <<start, next, saved, msg>>
posVars  == <<read_offset, consumer_offset>>
histVars == <<handed, acked, forsaken>>
counters == <<retries, seeks, restarts>>
vars == <<opts, logVars, elapsed, posVars, active, consumed, histVars, counters>>

Policy == opts.policy
AtLeastOnce == opts.at_least_once

Offsets == 0..(next - 1)
Id(off) == IF SameId THEN off \div 2 ELSE off
Larger(a, b) == IF a > b THEN a ELSE b
Smaller(a, b) == IF a < b THEN a ELSE b
Least(S) == CHOOSE x \in S : \A y \in S : x <= y

Kind(off)    == msg[off + 1].kind
Expired(off) == Kind(off) = "ttl" /\ off \in elapsed
Due(off)     == Kind(off) = "delayed" => off \in elapsed
ActiveOffs   == {active[s].off : s \in DOMAIN active}
Without(slots) == [s \in DOMAIN active \ slots |-> active[s]]
FreeSlot(table) == Least(1..(Cardinality(DOMAIN table) + 1) \ DOMAIN table)
\* Mutant of WithRecord: the record is of the message after.
WithRecord_next(table, off) ==
  [s \in DOMAIN table \cup {FreeSlot(table)} |->
     IF s \in DOMAIN table THEN table[s] ELSE [off |-> off + 1, shown |-> FALSE]]

WithRecord(table, off) ==
  [s \in DOMAIN table \cup {FreeSlot(table)} |->
     IF s \in DOMAIN table THEN table[s] ELSE [off |-> off, shown |-> FALSE]]

Init ==
  /\ opts \in Scenarios
  /\ start = 0 /\ next = 0 /\ saved = 0 /\ msg = <<>> /\ elapsed = {}
  /\ read_offset = 0 /\ consumer_offset = 0
  /\ active = [s \in {} |-> 0] /\ consumed = {}
  /\ handed = {} /\ acked = {} /\ forsaken = 0
  /\ retries = 0 /\ seeks = 0 /\ restarts = 0

-----------------------------------------------------------------------------
\* A pop works in steps on the read position, the CONSUMED records, the log's
\* start and the table; the steps pass them on as one record.
Now == [pos |-> read_offset, taken |-> consumed, lo |-> start, table |-> active]
Becomes(st) ==
  read_offset' = st.pos /\ consumed' = st.taken /\ start' = st.lo /\ active' = st.table

\* emq_prim_compact_consumed: read_offset passes the CONSUMED records in front
\* of it; the log is trimmed to the first offset still needed, unless a pop
\* holds its RESERVED record.
\* Mutant of Compacted: the log is trimmed up to the read position, in flight
\* or not.
Compacted_past_flight(st, reserved) ==
  LET pos == Least({off \in st.pos..(st.pos + Cardinality(st.taken)) : off \notin st.taken})
  IN [st EXCEPT !.pos = pos, !.taken = @ \ (st.pos..(pos - 1)),
                !.lo = IF reserved THEN @ ELSE Smaller(next, Larger(@, pos))]

Compacted(st, reserved) ==
  LET pos  == Least({off \in st.pos..(st.pos + Cardinality(st.taken)) : off \notin st.taken})
      keep == Least({pos} \cup {st.table[s].off : s \in DOMAIN st.table})
  IN [st EXCEPT !.pos = pos, !.taken = @ \ (st.pos..(pos - 1)),
                !.lo = IF reserved THEN @ ELSE Smaller(next, Larger(@, keep))]

-----------------------------------------------------------------------------
\* What a pop finds new, by policy: the offset or -1, the read position and the
\* CONSUMED records it leaves, and whether it returns without compacting.

\* An entry that cannot be read is skipped like one that is not there.
Readable(from, lo, unread) == {off \in from..(next - 1) : off >= lo} \ unread

\* emq_fifo_pop, emq_stream_pop: forward from a position, over unreadable and
\* expired entries, to the first entry left; one not due yet blocks the rest.
InOrder(from, st, unread) ==
  LET live == {off \in Readable(from, st.lo, unread) : ~Expired(off)}
      stop == IF live = {} THEN Larger(from, next) ELSE Least(live)
      hit  == live # {} /\ Due(stop)
  IN [off |-> IF hit THEN stop ELSE -1, pos |-> IF hit THEN stop + 1 ELSE stop,
      taken |-> st.taken, bare |-> ~hit /\ (live # {} \/ Policy = "stream")]

\* emq_lifo_pop, emq_delay_pop, emq_priority_pop, emq_peek: among the entries
\* not taken, due and alive, the best one.  A priority scan sees every entry,
\* the others stop at the best one; expired entries seen are consumed.
Best(order, S) ==
  CASE order = "lifo"     -> CHOOSE x \in S : \A y \in S : x >= y
    [] order = "priority" -> CHOOSE x \in S : \A y \in S :
                               \/ msg[x + 1].prio > msg[y + 1].prio
                               \/ msg[x + 1].prio = msg[y + 1].prio /\ x <= y
    [] OTHER              -> Least(S)

\* Mutants of Scan: CONSUMED records are not looked at; no records are.
Scan_forgets(order, st, unread) ==
  LET fresh == Readable(st.pos, st.lo, unread) \ {st.table[s].off : s \in DOMAIN st.table}
      fit   == {off \in fresh : ~Expired(off) /\ Due(off)}
      best  == IF fit = {} THEN -1 ELSE Best(order, fit)
  IN [off |-> best, pos |-> st.pos, taken |-> st.taken, bare |-> FALSE]

Scan_blind(order, st, unread) ==
  LET fit  == {off \in Readable(st.pos, st.lo, unread) : ~Expired(off) /\ Due(off)}
      best == IF fit = {} THEN -1 ELSE Best(order, fit)
  IN [off |-> best, pos |-> st.pos, taken |-> st.taken, bare |-> FALSE]

Scan(order, st, unread) ==
  LET taken == st.taken \cup {st.table[s].off : s \in DOMAIN st.table}
      fresh == Readable(st.pos, st.lo, unread) \ taken
      fit   == {off \in fresh : ~Expired(off) /\ Due(off)}
      best  == IF fit = {} THEN -1 ELSE Best(order, fit)
      dead  == {off \in fresh : /\ Expired(off)
                                /\ \/ best = -1 \/ order = "priority"
                                   \/ IF order = "lifo" THEN off > best ELSE off < best}
  IN [off |-> best, pos |-> st.pos, taken |-> st.taken \cup dead,
      bare |-> best = -1 /\ order = "lifo" /\ dead = {}]

Found(st, unread) ==
  CASE Policy = "stream"           -> InOrder(consumer_offset, st, unread)
    [] Policy \in {"fifo", "ring"} -> InOrder(st.pos, st, unread)
    [] OTHER -> LET f == Scan(Policy, st, unread) IN
                [f EXCEPT !.taken = IF f.off = -1 THEN @ ELSE @ \cup {f.off}]

\* A stream reads at its own position and leaves read_offset alone.
After(st, found) ==
  [st EXCEPT !.pos = IF Policy = "stream" THEN @ ELSE found.pos, !.taken = found.taken]

\* Offsets whose read fails in a call.
Unread == IF ReadFails THEN SUBSET (start..(next - 1)) ELSE {{}}

-----------------------------------------------------------------------------
\* Calls of the application.

\* emq_push of an entry of the log.  A ring's log drops its oldest entry when
\* it is full and the queue forgets everything below; no other queue looks at
\* its capacity here.
Push(kind, prio) ==
  /\ next < opts.pushes
  /\ LET full  == Policy = "ring" /\ next - start >= RingSize
         first == IF full THEN start + 1 ELSE start
     IN /\ start' = first /\ next' = next + 1
        /\ msg' = Append(msg, [kind |-> kind, prio |-> prio])
        /\ IF Policy = "ring"
           THEN /\ active' = Without({s \in DOMAIN active : active[s].off < first})
                /\ consumed' = {off \in consumed : off >= first}
                /\ read_offset' = Larger(read_offset, first)
                /\ consumer_offset' = Larger(consumer_offset, first)
                /\ forsaken' = IF full THEN Larger(forsaken, first) ELSE forsaken
           ELSE UNCHANGED <<active, consumed, posVars, forsaken>>
  /\ UNCHANGED <<opts, saved, elapsed, handed, acked, counters>>

\* emq_prim_redeliver drops the visible records it meets whose message has
\* expired or cannot be read.
Spoilt(unread) ==
  {s \in DOMAIN active : /\ active[s].shown
                         /\ \/ Expired(active[s].off)
                            \/ active[s].off \notin Readable(0, start, unread)}
Dropped(slots) ==
  IF slots = {} THEN Now ELSE Compacted([Now EXCEPT !.table = Without(slots)], FALSE)

\* Of the visible records left, the first one it meets is handed out again.
\* Mutant of Redeliver: the record stays visible.
Redeliver_stays_shown(unread) ==
  /\ AtLeastOnce
  /\ \E s \in DOMAIN active \ Spoilt(unread), slots \in SUBSET Spoilt(unread) :
       /\ active[s].shown
       /\ Becomes(Dropped(slots))
       /\ handed' = handed \cup {active[s].off}
  /\ UNCHANGED <<opts, next, saved, msg, elapsed, consumer_offset, acked, forsaken, counters>>

Redeliver(unread) ==
  /\ AtLeastOnce
  /\ \E s \in DOMAIN active \ Spoilt(unread), slots \in SUBSET Spoilt(unread) :
       /\ active[s].shown
       /\ Becomes([Dropped(slots) EXCEPT !.table[s].shown = FALSE])
       /\ handed' = handed \cup {active[s].off}
  /\ UNCHANGED <<opts, next, saved, msg, elapsed, consumer_offset, acked, forsaken, counters>>

\* The rest of emq_prim_pop, when there is nothing to redeliver.  A caller
\* whose buffer is too small (emq_pop_into) gets an error, after the fact.
PopNew(unread, fits) ==
  /\ AtLeastOnce => \A s \in DOMAIN active \ Spoilt(unread) : ~active[s].shown
  /\ \E st \in {Dropped(IF AtLeastOnce THEN Spoilt(unread) ELSE {})} :
     \E found \in {Found(st, unread)} :
     \E after \in {After(st, found)} :
       /\ consumer_offset' = IF Policy = "stream" THEN found.pos ELSE consumer_offset
       /\ \/ /\ found.off # -1
             /\ \E done \in {Compacted(after, AtLeastOnce)} :
                  Becomes([done EXCEPT !.table =
                             IF AtLeastOnce THEN WithRecord(@, found.off) ELSE @])
             /\ handed' = IF fits THEN handed \cup {found.off} ELSE handed
          \/ /\ found.off = -1
             /\ Becomes(IF found.bare /\ ~AtLeastOnce THEN after
                        ELSE Compacted(after, FALSE))
             /\ UNCHANGED handed
  /\ UNCHANGED <<opts, next, saved, msg, elapsed, acked, forsaken, counters>>

Pop ==
  \E unread \in Unread :
    \/ Redeliver(unread)
    \/ \E fits \in (IF SmallBuffers THEN BOOLEAN ELSE {TRUE}) : PopNew(unread, fits)

\* emq_peek hands out nothing but consumes the expired entries it passes.
Peek ==
  /\ \E unread \in Unread : Becomes(Compacted(After(Now, Scan("first", Now, unread)), FALSE))
  /\ UNCHANGED <<opts, next, saved, msg, elapsed, consumer_offset, histVars, counters>>

\* emq_ack and emq_ack_batch for deliveries of offs: for each of their msg_ids,
\* which must differ, the first ACTIVE record with that id goes.
\* Mutant of Ack: the log is not compacted.
Ack_no_compaction(offs) ==
  /\ offs \subseteq handed /\ offs \subseteq ActiveOffs
  /\ active' = Without({s \in DOMAIN active : active[s].off \in offs})
  /\ acked' = acked \cup offs
  /\ UNCHANGED <<opts, logVars, elapsed, posVars, consumed, handed, forsaken, counters>>

Ack(offs) ==
  /\ offs \subseteq handed /\ Cardinality({Id(off) : off \in offs}) = Cardinality(offs)
  /\ \E slots \in SUBSET DOMAIN active :
       /\ Cardinality(slots) = Cardinality(offs)
       /\ {Id(active[s].off) : s \in slots} = {Id(off) : off \in offs}
       /\ Becomes(Compacted([Now EXCEPT !.table = Without(slots)], FALSE))
  /\ acked' = acked \cup offs
  /\ UNCHANGED <<opts, next, saved, msg, elapsed, consumer_offset, handed, forsaken, counters>>

\* emq_nack, with a delay or without.
Nack(off, delayed) ==
  /\ off \in handed /\ retries < opts.retries
  /\ \E s \in DOMAIN active :
       /\ Id(active[s].off) = Id(off)
       /\ active' = [active EXCEPT ![s].shown = ~delayed]
  /\ retries' = retries + 1
  /\ UNCHANGED <<opts, logVars, elapsed, posVars, consumed, histVars, seeks, restarts>>

\* emq_seek.
Seek(off) ==
  /\ seeks < opts.seeks /\ seeks' = seeks + 1
  /\ read_offset' = off /\ consumer_offset' = off
  /\ forsaken' = Larger(forsaken, off)
  /\ UNCHANGED <<opts, logVars, elapsed, active, consumed, handed, acked, retries, restarts>>

\* emq_queue_snapshot: the trim offset reaches the disk.
Snapshot ==
  /\ saved # start
  /\ saved' = start
  /\ UNCHANGED <<opts, start, next, msg, elapsed, posVars, active, consumed, histVars, counters>>

-----------------------------------------------------------------------------
\* Time, and the end of the process.  What a push wrote survives (the log syncs
\* every record), what is in memory does not: the queue starts over from the
\* saved trim offset, and what was handed out or acknowledged past it was not.
Lapse(s) ==
  /\ retries < opts.retries /\ ~active[s].shown
  /\ active' = [active EXCEPT ![s].shown = TRUE]
  /\ retries' = retries + 1
  /\ UNCHANGED <<opts, logVars, elapsed, posVars, consumed, histVars, seeks, restarts>>

Elapse(off) ==
  /\ Kind(off) # "plain" /\ off \notin elapsed
  /\ elapsed' = elapsed \cup {off}
  /\ UNCHANGED <<opts, logVars, posVars, active, consumed, histVars, counters>>

Restart ==
  /\ restarts < opts.restarts
  /\ start' = saved /\ read_offset' = 0 /\ consumer_offset' = 0
  /\ active' = Without(DOMAIN active) /\ consumed' = {}
  /\ handed' = {off \in handed : off < saved} /\ acked' = {off \in acked : off < saved}
  /\ restarts' = restarts + 1
  /\ UNCHANGED <<opts, next, saved, msg, elapsed, forsaken, retries, seeks>>

Next ==
  \/ \E kind \in opts.kinds, prio \in opts.prios : Push(kind, prio)
  \/ Pop \/ Peek
  \/ \E a, b \in handed : Ack({a, b})
  \/ \E off \in Offsets : (\E d \in BOOLEAN : Nack(off, d)) \/ Elapse(off)
  \/ \E off \in 0..next : Seek(off)
  \/ \E s \in DOMAIN active : Lapse(s)
  \/ Snapshot \/ Restart

\* The application keeps popping; deadlines come.
Fairness ==
  /\ WF_vars(Pop)
  /\ \A off \in 0..(MaxMsgs - 1) : WF_vars(off < next /\ Elapse(off))

Spec == Init /\ [][Next]_vars
FairSpec == Spec /\ Fairness

-----------------------------------------------------------------------------
\* Properties.

\* The types of the variables.
TypeOK ==
  /\ opts \in Scenarios
  /\ start \in Nat /\ next \in 0..opts.pushes /\ saved \in Nat
  /\ msg \in Seq([kind : opts.kinds, prio : opts.prios]) /\ Len(msg) = next
  /\ elapsed \subseteq Offsets
  /\ read_offset \in Nat /\ consumer_offset \in Nat
  /\ \A s \in DOMAIN active : active[s] \in [off : Offsets, shown : BOOLEAN]
  /\ consumed \subseteq Offsets
  /\ handed \subseteq Offsets /\ acked \subseteq Offsets
  /\ forsaken \in Nat /\ retries \in 0..opts.retries
  /\ seeks \in 0..opts.seeks /\ restarts \in 0..opts.restarts

\* A message can still be delivered: it is in the log, and either in flight or
\* ahead of the read position.
Cursor == IF Policy = "stream" THEN consumer_offset ELSE read_offset
Deliverable(off) ==
  start <= off /\ (off \in ActiveOffs \/ (Cursor <= off /\ off \notin consumed))

\* What delivery promises: a message accepted by a push stays deliverable until
\* it is acknowledged (at least once) or handed out (at most once), unless its
\* time to live runs out, a ring overwrites it or a seek passes over it.
Settled == IF AtLeastOnce THEN acked ELSE handed
NoLoss ==
  \A off \in Offsets :
    off < forsaken \/ off \in Settled \/ Expired(off) \/ Deliverable(off)

\* An acknowledgement is final: without a seek, and as long as a restart does
\* not undo it, an acknowledged message is not in flight again.
AckIsFinal == seeks = 0 => acked \cap ActiveOffs = {}

\* A message handed out, and not seen again since its visibility timeout, is
\* handed out once: without a seek the records in flight are of different
\* messages.
InFlightOnce ==
  seeks = 0 => \A r, s \in DOMAIN active : active[r].off = active[s].off => r = s

\* Space is reclaimed as soon as it can be: the oldest message in the log is one
\* that is not yet acknowledged (at least once) or handed out (at most once),
\* where read_offset is the position the queue reads at.  That leaves out what
\* the code does not reclaim: a stream's read_offset never moves, a queue that
\* picks messages by key keeps a read_offset below the saved trim offset after
\* a restart, and a seek trims nothing.  (A ring's log is bounded by its size.)
Reclaiming ==
  seeks = 0 /\ (Policy = "fifo" \/ (Policy \in {"lifo", "priority", "delay"} /\ restarts = 0))
Reclaimed == Reclaiming /\ start < next => start \notin Settled

\* Again and again everything accepted has been handed out, by the process that
\* runs or with a trim that was saved, or its time to live is over, or it was
\* overwritten or sought past, if the application keeps popping: no message,
\* delayed or not, is passed over for good by redelivery, holes, seeks, or a
\* restart.
Delivered ==
  []<>(\A off \in 0..(next - 1) : off \in handed \/ Expired(off) \/ off < forsaken)
=============================================================================
