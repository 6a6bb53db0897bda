-------------------------------- MODULE Mpmc --------------------------------
(***************************************************************************)
(* The bounded multi-producer multi-consumer queue of the engine           *)
(* (core/src/engine/emq_mpmc.c): the workers' job queue and the            *)
(* scheduler's ready rings.  Every atomic access and every plain access to *)
(* a slot's item is a step of its own, so any number of threads may be     *)
(* anywhere inside push and pop.                                           *)
(*                                                                         *)
(* A position is a ticket: the compare-and-swap on enqueue_pos hands out   *)
(* the position to write, the one on dequeue_pos the position to read.  A  *)
(* slot's seq says which position may be written or read next.  tickets is *)
(* a history variable: the item whose push drew each position.  The u64    *)
(* positions never wrap, so the signed differences of the code are plain   *)
(* differences.                                                            *)
(***************************************************************************)
EXTENDS Integers, Sequences

CONSTANTS
  Capacity,   \* slots, the power of two emq_mpmc_create rounds up to
  Threads,    \* threads that push and pop
  Items,      \* what is pushed (void *)
  NoItem,     \* the NULL pointer of an empty slot
  WeakCas,    \* TRUE: the weak compare-and-swap may fail for no reason
  MaxPush     \* bound: no push starts once this many positions are drawn

\* emq_mpmc_create never makes a queue of fewer than two slots.
ASSUME CapacityAssumption == Capacity \in Nat /\ Capacity >= 2
ASSUME MpmcAssumption ==
  /\ NoItem \notin Items
  /\ WeakCas \in BOOLEAN
  /\ MaxPush \in Nat

VARIABLES
  enqueue_pos, dequeue_pos,   \* q->enqueue_pos, q->dequeue_pos
  seq, item,                  \* q->slots[i].seq, q->slots[i].item
  pc,                         \* where each thread is
  pos,                        \* its local pos
  arg,                        \* the item it pushes
  got,                        \* the item it popped
  tickets                     \* history: tickets[p + 1] drew position p

slotVars == <<seq, item>>
localVars == <<arg, got>>
vars == <<enqueue_pos, dequeue_pos, seq, item, pc, pos, arg, got, tickets>>

Slots == 0..(Capacity - 1)
Slot(p) == p % Capacity

PushLabels == {"push_seq", "push_load", "push_cas", "push_item", "push_done"}
PopLabels  == {"pop_seq", "pop_load", "pop_cas", "pop_item", "pop_null", "pop_done"}
Labels     == {"idle"} \cup PushLabels \cup PopLabels

GoTo(t, label) == pc' = [pc EXCEPT ![t] = label]
SetPos(t, p)   == pos' = [pos EXCEPT ![t] = p]

Init ==
  /\ enqueue_pos = 0 /\ dequeue_pos = 0
  /\ seq = [s \in Slots |-> s]
  /\ item = [s \in Slots |-> NoItem]
  /\ pc = [t \in Threads |-> "idle"]
  /\ pos = [t \in Threads |-> 0]
  /\ arg = [t \in Threads |-> NoItem]
  /\ got = [t \in Threads |-> NoItem]
  /\ tickets = <<>>

-----------------------------------------------------------------------------
\* emq_mpmc_push.

PushCall(t, x) ==
  /\ pc[t] = "idle" /\ enqueue_pos < MaxPush
  /\ arg' = [arg EXCEPT ![t] = x]
  /\ SetPos(t, enqueue_pos)
  /\ GoTo(t, "push_seq")
  /\ UNCHANGED <<enqueue_pos, dequeue_pos, slotVars, got, tickets>>

\* Mutant of PushSeq: a stale pos looks like a full ring.
PushSeq_stale_is_full(t) ==
  /\ pc[t] = "push_seq"
  /\ GoTo(t, IF seq[Slot(pos[t])] = pos[t] THEN "push_cas" ELSE "idle")
  /\ UNCHANGED <<enqueue_pos, dequeue_pos, slotVars, pos, localVars, tickets>>

\* seq - pos: zero, try to draw the position; negative, full; positive, the
\* local pos is stale.
PushSeq(t) ==
  /\ pc[t] = "push_seq"
  /\ LET s == seq[Slot(pos[t])] IN
       \/ s = pos[t] /\ GoTo(t, "push_cas")
       \/ s < pos[t] /\ GoTo(t, "idle")
       \/ s > pos[t] /\ GoTo(t, "push_load")
  /\ UNCHANGED <<enqueue_pos, dequeue_pos, slotVars, pos, localVars, tickets>>

\* Mutant of PushLoad: the position is not read again.
PushLoad_stale(t) ==
  /\ pc[t] = "push_load"
  /\ GoTo(t, "push_seq")
  /\ UNCHANGED <<enqueue_pos, dequeue_pos, slotVars, pos, localVars, tickets>>

PushLoad(t) ==
  /\ pc[t] = "push_load"
  /\ SetPos(t, enqueue_pos)
  /\ GoTo(t, "push_seq")
  /\ UNCHANGED <<enqueue_pos, dequeue_pos, slotVars, localVars, tickets>>

\* Mutant of PushCas: a store where the compare-and-swap is.
PushCas_plain(t) ==
  /\ pc[t] = "push_cas"
  /\ enqueue_pos' = pos[t] + 1
  /\ tickets' = Append(tickets, arg[t])
  /\ GoTo(t, "push_item")
  /\ UNCHANGED <<dequeue_pos, slotVars, pos, localVars>>

PushCas(t) ==
  /\ pc[t] = "push_cas"
  /\ enqueue_pos = pos[t]
  /\ enqueue_pos' = enqueue_pos + 1
  /\ tickets' = Append(tickets, arg[t])
  /\ GoTo(t, "push_item")
  /\ UNCHANGED <<dequeue_pos, slotVars, pos, localVars>>

PushCasFails(t) ==
  /\ pc[t] = "push_cas"
  /\ enqueue_pos # pos[t] \/ WeakCas
  /\ SetPos(t, enqueue_pos)
  /\ GoTo(t, "push_seq")
  /\ UNCHANGED <<enqueue_pos, dequeue_pos, slotVars, localVars, tickets>>

\* Mutant of PushItem: the slot is published with the item, not after it.
PushItem_publishes(t) ==
  /\ pc[t] = "push_item"
  /\ seq' = [seq EXCEPT ![Slot(pos[t])] = pos[t] + 1]
  /\ GoTo(t, "push_done")
  /\ UNCHANGED <<enqueue_pos, dequeue_pos, item, pos, localVars, tickets>>

PushItem(t) ==
  /\ pc[t] = "push_item"
  /\ item' = [item EXCEPT ![Slot(pos[t])] = arg[t]]
  /\ GoTo(t, "push_done")
  /\ UNCHANGED <<enqueue_pos, dequeue_pos, seq, pos, localVars, tickets>>

PushDone(t) ==
  /\ pc[t] = "push_done"
  /\ seq' = [seq EXCEPT ![Slot(pos[t])] = pos[t] + 1]
  /\ GoTo(t, "idle")
  /\ UNCHANGED <<enqueue_pos, dequeue_pos, item, pos, localVars, tickets>>

-----------------------------------------------------------------------------
\* emq_mpmc_pop.

PopCall(t) ==
  /\ pc[t] = "idle"
  /\ SetPos(t, dequeue_pos)
  /\ GoTo(t, "pop_seq")
  /\ UNCHANGED <<enqueue_pos, dequeue_pos, slotVars, localVars, tickets>>

PopSeq(t) ==
  /\ pc[t] = "pop_seq"
  /\ LET s == seq[Slot(pos[t])] IN
       \/ s = pos[t] + 1 /\ GoTo(t, "pop_cas")
       \/ s < pos[t] + 1 /\ GoTo(t, "idle")
       \/ s > pos[t] + 1 /\ GoTo(t, "pop_load")
  /\ UNCHANGED <<enqueue_pos, dequeue_pos, slotVars, pos, localVars, tickets>>

PopLoad(t) ==
  /\ pc[t] = "pop_load"
  /\ SetPos(t, dequeue_pos)
  /\ GoTo(t, "pop_seq")
  /\ UNCHANGED <<enqueue_pos, dequeue_pos, slotVars, localVars, tickets>>

PopCas(t) ==
  /\ pc[t] = "pop_cas"
  /\ dequeue_pos = pos[t]
  /\ dequeue_pos' = dequeue_pos + 1
  /\ GoTo(t, "pop_item")
  /\ UNCHANGED <<enqueue_pos, slotVars, pos, localVars, tickets>>

PopCasFails(t) ==
  /\ pc[t] = "pop_cas"
  /\ dequeue_pos # pos[t] \/ WeakCas
  /\ SetPos(t, dequeue_pos)
  /\ GoTo(t, "pop_seq")
  /\ UNCHANGED <<enqueue_pos, dequeue_pos, slotVars, localVars, tickets>>

PopItem(t) ==
  /\ pc[t] = "pop_item"
  /\ got' = [got EXCEPT ![t] = item[Slot(pos[t])]]
  /\ GoTo(t, "pop_null")
  /\ UNCHANGED <<enqueue_pos, dequeue_pos, slotVars, pos, arg, tickets>>

PopNull(t) ==
  /\ pc[t] = "pop_null"
  /\ item' = [item EXCEPT ![Slot(pos[t])] = NoItem]
  /\ GoTo(t, "pop_done")
  /\ UNCHANGED <<enqueue_pos, dequeue_pos, seq, pos, localVars, tickets>>

PopDone(t) ==
  /\ pc[t] = "pop_done"
  /\ seq' = [seq EXCEPT ![Slot(pos[t])] = pos[t] + Capacity]
  /\ GoTo(t, "idle")
  /\ UNCHANGED <<enqueue_pos, dequeue_pos, item, pos, localVars, tickets>>

-----------------------------------------------------------------------------
PushStep(t) == \/ PushSeq(t) \/ PushLoad(t) \/ PushCas(t) \/ PushCasFails(t)
               \/ PushItem(t) \/ PushDone(t)
PopStep(t)  == \/ PopSeq(t) \/ PopLoad(t) \/ PopCas(t) \/ PopCasFails(t)
               \/ PopItem(t) \/ PopNull(t) \/ PopDone(t)
Step(t)     == PushStep(t) \/ PopStep(t)

Next == \E t \in Threads : (\E x \in Items : PushCall(t, x)) \/ PopCall(t) \/ Step(t)

\* A weak compare-and-swap that fails although the position is the expected one.
FailsForNothing(t) ==
  \/ PushCasFails(t) /\ enqueue_pos = pos[t]
  \/ PopCasFails(t) /\ dequeue_pos = pos[t]

\* A thread inside a call is scheduled, and the hardware does not make every
\* compare-and-swap of a thread fail for no reason.  Nothing is said about one
\* that loses to another thread, which it may do for ever, and nobody has to
\* call.
Fairness ==
  \A t \in Threads :
    /\ WF_vars(Step(t))
    /\ []<><<FailsForNothing(t)>>_vars => []<><<PushCas(t) \/ PopCas(t)>>_vars

Spec == Init /\ [][Next]_vars
FairSpec == Spec /\ Fairness

-----------------------------------------------------------------------------
\* Properties.

\* The types of the variables.
TypeOK ==
  /\ enqueue_pos \in Nat /\ dequeue_pos \in Nat
  /\ seq \in [Slots -> Nat]
  /\ item \in [Slots -> Items \cup {NoItem}]
  /\ pc \in [Threads -> Labels]
  /\ pos \in [Threads -> Nat]
  /\ arg \in [Threads -> Items \cup {NoItem}]
  /\ got \in [Threads -> Items \cup {NoItem}]
  /\ tickets \in Seq(Items)

\* The threads that own a slot: between drawing a position and the store to
\* seq that passes the slot on.
Pushing(t) == pc[t] \in {"push_item", "push_done"}
Popping(t) == pc[t] \in {"pop_item", "pop_null", "pop_done"}

\* A slot's item, which no atomic protects, is never touched by two threads at
\* once, however far a delayed thread lags behind the others.
SlotExclusive ==
  \A t, u \in Threads :
    /\ t # u
    /\ Pushing(t) \/ Popping(t)
    /\ Pushing(u) \/ Popping(u)
    => Slot(pos[t]) # Slot(pos[u])

\* A pop hands out the item whose push drew the same position: nothing is lost,
\* duplicated, torn or taken from another lap of the ring.
PopsItsTicket ==
  \A t \in Threads :
    pc[t] \in {"pop_null", "pop_done"} =>
      pos[t] < Len(tickets) /\ got[t] = tickets[pos[t] + 1]

\* Never more positions in flight than slots.
WithinCapacity ==
  /\ dequeue_pos <= enqueue_pos
  /\ enqueue_pos <= dequeue_pos + Capacity

\* pop answers "empty" only when the oldest undrawn position is not published:
\* nothing is queued, or the push that drew it has not finished.
EmptyIsHonest ==
  [][\A t \in Threads :
       pc[t] = "pop_seq" /\ pc'[t] = "idle" =>
         \/ dequeue_pos = enqueue_pos
         \/ \E u \in Threads : Pushing(u) /\ pos[u] = dequeue_pos]_vars

\* push answers "full" only when every slot is taken, counting the slots of
\* pops that have drawn their position and not yet given the slot back.
FullIsHonest ==
  [][\A t \in Threads :
       pc[t] = "push_seq" /\ pc'[t] = "idle" =>
         \/ enqueue_pos = dequeue_pos + Capacity
         \/ \E u \in Threads : Popping(u) /\ pos[u] + Capacity = enqueue_pos]_vars

\* A call that answers "full" or "empty" is right to.
AnswersHonest == EmptyIsHonest /\ FullIsHonest

\* The drawing of positions is a bounded FIFO channel of the pushed items.
Channel == INSTANCE FifoChannel WITH
  Messages <- Items, Bound <- Capacity,
  chan  <- SubSeq(tickets, dequeue_pos + 1, enqueue_pos),
  taken <- SubSeq(tickets, 1, dequeue_pos)
ImplementsChannel == Channel!Spec

-----------------------------------------------------------------------------
\* Why the properties hold.  At any moment the slots are the last Capacity
\* positions drawn for writing, enqueue_pos - Capacity .. enqueue_pos - 1 (the
\* first ones negative while the ring has not been round once), and each of
\* them is in one of four stages.
Window == (enqueue_pos - Capacity)..(enqueue_pos - 1)

BeingPushed(p) == seq[Slot(p)] = p /\ \E t \in Threads : Pushing(t) /\ pos[t] = p
Published(p)   == seq[Slot(p)] = p + 1 /\ item[Slot(p)] = tickets[p + 1]
BeingPopped(p) == seq[Slot(p)] = p + 1 /\ \E t \in Threads : Popping(t) /\ pos[t] = p
Released(p)    == seq[Slot(p)] = p + Capacity

\* Positions not yet drawn by a pop are published or about to be; the others
\* are free for the next lap or about to be.
StageInv ==
  \A p \in Window :
    IF p >= dequeue_pos THEN Published(p) \/ BeingPushed(p)
                        ELSE Released(p) \/ BeingPopped(p)

\* A thread that owns a slot, and a thread about to draw the newest position.
PushInv(t) ==
  /\ pc[t] \in PushLabels => arg[t] \in Items /\ pos[t] <= enqueue_pos
  /\ Pushing(t) => /\ dequeue_pos <= pos[t] /\ pos[t] < enqueue_pos
                   /\ seq[Slot(pos[t])] = pos[t]
                   /\ arg[t] = tickets[pos[t] + 1]
  /\ pc[t] = "push_done" => item[Slot(pos[t])] = arg[t]
  /\ pc[t] = "push_cas" /\ pos[t] = enqueue_pos => seq[Slot(pos[t])] = pos[t]

PopInv(t) ==
  /\ pc[t] \in PopLabels => pos[t] <= dequeue_pos
  /\ Popping(t) => /\ enqueue_pos - Capacity <= pos[t] /\ pos[t] < dequeue_pos
                   /\ seq[Slot(pos[t])] = pos[t] + 1
  /\ pc[t] = "pop_item" => item[Slot(pos[t])] = tickets[pos[t] + 1]
  /\ pc[t] \in {"pop_null", "pop_done"} => got[t] = tickets[pos[t] + 1]
  /\ pc[t] = "pop_cas" /\ pos[t] = dequeue_pos => seq[Slot(pos[t])] = pos[t] + 1

\* No two threads draw the same position.
OwnersDiffer ==
  \A t, u \in Threads :
    t # u /\ (Pushing(t) \/ Popping(t)) /\ (Pushing(u) \/ Popping(u))
      => pos[t] # pos[u]

IInv ==
  /\ TypeOK
  /\ WithinCapacity
  /\ Len(tickets) = enqueue_pos
  /\ StageInv
  /\ \A t \in Threads : PushInv(t) /\ PopInv(t)
  /\ OwnersDiffer

\* Lock-freedom: a call that never returns is overtaken for ever, by threads
\* that draw positions (and so return from theirs).  No thread spins on a stale
\* position of its own, or waits for one that has stopped half-way.
LockFree ==
  \A t \in Threads :
    \/ pc[t] # "idle" ~> pc[t] = "idle"
    \/ []<><<\E u \in Threads \ {t} : PushCas(u) \/ PopCas(u)>>_vars
=============================================================================
