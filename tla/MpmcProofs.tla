------------------------------ MODULE MpmcProofs ------------------------------
(***************************************************************************)
(* The queue of Mpmc is correct for every capacity, every set of threads   *)
(* and every set of items.                                                 *)
(***************************************************************************)
EXTENDS Mpmc, TLAPS

-----------------------------------------------------------------------------
\* Arithmetic of the slot index.

\* Quotient and remainder of a position.
LEMMA DivMod ==
  ASSUME NEW p \in Int
  PROVE  /\ p = Capacity * (p \div Capacity) + Slot(p)
         /\ p \div Capacity \in Int /\ Slot(p) \in Slots
  BY CapacityAssumption DEF Slot, Slots

\* The remainder is determined by any decomposition.
LEMMA RemainderUnique ==
  ASSUME NEW a \in Int, NEW r \in Slots
  PROVE  Slot(Capacity * a + r) = r
  BY CapacityAssumption DEF Slot, Slots

\* A positive number of laps is at least one lap.
LEMMA LapsPositive ==
  ASSUME NEW k \in Int, k >= 1 PROVE Capacity * k >= Capacity
  BY CapacityAssumption

\* Two positions less than a lap apart that share a slot are equal.
LEMMA SlotInjective ==
  ASSUME NEW p \in Int, NEW q \in Int,
         p - q < Capacity, q - p < Capacity, Slot(p) = Slot(q)
  PROVE  p = q
<1> DEFINE a == p \div Capacity
           b == q \div Capacity
<1>1. /\ p = Capacity * a + Slot(p) /\ q = Capacity * b + Slot(q)
      /\ a \in Int /\ b \in Int /\ Slot(p) \in Int
  BY DivMod DEF Slots
<1> HIDE DEF a, b
<1>2. p - q = Capacity * (a - b) /\ q - p = Capacity * (b - a)
  BY <1>1, CapacityAssumption
<1>3. ~(a - b >= 1) /\ ~(b - a >= 1)
  BY <1>1, <1>2, LapsPositive, CapacityAssumption
<1> QED
  BY <1>1, <1>3

\* Going once round the ring comes back to the same slot.
LEMMA SlotShift ==
  ASSUME NEW p \in Int PROVE Slot(p + Capacity) = Slot(p) /\ Slot(p - Capacity) = Slot(p)
<1> DEFINE a == p \div Capacity
<1>1. p = Capacity * a + Slot(p) /\ a \in Int /\ Slot(p) \in Slots
  BY DivMod
<1> HIDE DEF a
<1>2. /\ p + Capacity = Capacity * (a + 1) + Slot(p)
      /\ p - Capacity = Capacity * (a - 1) + Slot(p)
  BY <1>1, CapacityAssumption DEF Slots
<1> QED
  BY <1>1, <1>2, RemainderUnique

-----------------------------------------------------------------------------
\* The initial state: the window is the lap before the first, all released.
LEMMA InitIInv == Init => IInv
<1> SUFFICES ASSUME Init PROVE IInv
  OBVIOUS
<1>1. TypeOK
  BY MpmcAssumption DEF Init, TypeOK, Slots, Labels
<1>2. WithinCapacity /\ Len(tickets) = enqueue_pos
  BY CapacityAssumption DEF Init, WithinCapacity
<1>3. StageInv
  <2>1. SUFFICES ASSUME NEW p \in Window PROVE Released(p) /\ ~(p >= dequeue_pos)
    BY DEF StageInv
  <2>2. p \in Int /\ p + Capacity \in Slots
    BY CapacityAssumption DEF Window, Init, Slots
  <2>3. Slot(p) = p + Capacity
    <3>1. Slot(Capacity * 0 + (p + Capacity)) = p + Capacity
      BY <2>2, RemainderUnique
    <3> QED
      BY <3>1, <2>2, SlotShift, CapacityAssumption DEF Slots
  <2> QED
    BY <2>2, <2>3, CapacityAssumption DEF Released, Init, Window, Slots
<1>4. \A t \in Threads : PushInv(t) /\ PopInv(t)
  BY DEF Init, PushInv, PopInv, Pushing, Popping, PushLabels, PopLabels
<1>5. OwnersDiffer
  BY DEF Init, OwnersDiffer, Pushing, Popping
<1> QED
  BY <1>1, <1>2, <1>3, <1>4, <1>5 DEF IInv

-----------------------------------------------------------------------------
\* A step of a thread that owns no slot, before or after, and writes nothing
\* shared: only what the invariant says of that thread needs a proof.
LEMMA LocalStep ==
  ASSUME IInv, NEW t \in Threads,
         UNCHANGED <<enqueue_pos, dequeue_pos, slotVars, tickets>>,
         \A u \in Threads \ {t} : /\ pc'[u] = pc[u] /\ pos'[u] = pos[u]
                                  /\ arg'[u] = arg[u] /\ got'[u] = got[u],
         ~Pushing(t), ~Popping(t), ~Pushing(t)', ~Popping(t)',
         TypeOK', PushInv(t)', PopInv(t)'
  PROVE  IInv'
<1>1. \A u \in Threads : /\ Pushing(u)' <=> Pushing(u)
                         /\ Popping(u)' <=> Popping(u)
                         /\ Pushing(u) \/ Popping(u) => pos'[u] = pos[u]
  BY DEF Pushing, Popping
<1>2. WithinCapacity' /\ Len(tickets') = enqueue_pos'
  BY DEF IInv, WithinCapacity
<1>3. StageInv'
  <2>1. Window' = Window /\ dequeue_pos' = dequeue_pos
    BY DEF Window
  <2>2. SUFFICES ASSUME NEW p \in Window
                 PROVE  IF p >= dequeue_pos THEN Published(p)' \/ BeingPushed(p)'
                                            ELSE Released(p)' \/ BeingPopped(p)'
    BY <2>1 DEF StageInv
  <2>3. /\ BeingPushed(p) => BeingPushed(p)'
        /\ Published(p) => Published(p)'
        /\ BeingPopped(p) => BeingPopped(p)'
        /\ Released(p) => Released(p)'
    BY <1>1 DEF BeingPushed, Published, BeingPopped, Released, slotVars
  <2> QED
    BY <2>3 DEF IInv, StageInv
<1>4. \A u \in Threads : PushInv(u)' /\ PopInv(u)'
  <2>1. ASSUME NEW u \in Threads \ {t} PROVE PushInv(u)' /\ PopInv(u)'
    BY <1>1 DEF IInv, PushInv, PopInv, Pushing, Popping, slotVars
  <2> QED
    BY <2>1
<1>5. OwnersDiffer'
  BY <1>1 DEF IInv, OwnersDiffer
<1> QED
  BY <1>2, <1>3, <1>4, <1>5 DEF IInv

\* Calls, loads, comparisons that fail and answers: nothing shared is written.
Local(t) ==
  \/ (\E x \in Items : PushCall(t, x)) \/ PushSeq(t) \/ PushLoad(t) \/ PushCasFails(t)
  \/ PopCall(t) \/ PopSeq(t) \/ PopLoad(t) \/ PopCasFails(t)

LEMMA LocalActions ==
  ASSUME IInv, NEW t \in Threads, Local(t) PROVE IInv'
<1> USE DEF Pushing, Popping, GoTo, SetPos, slotVars, localVars
<1>0. TypeOK /\ PushInv(t) /\ PopInv(t)
  BY DEF IInv
<1>1. ASSUME NEW x \in Items, PushCall(t, x) PROVE IInv'
  <2>1. TypeOK'
    BY <1>0, <1>1 DEF TypeOK, PushCall, Labels, PushLabels, PopLabels
  <2>2. PushInv(t)' /\ PopInv(t)'
    BY <1>0, <1>1 DEF TypeOK, PushCall, PushInv, PopInv, PushLabels, PopLabels
  <2> QED
    BY <1>0, <1>1, <2>1, <2>2, LocalStep DEF PushCall, TypeOK
<1>2. CASE PushSeq(t)
  <2>1. TypeOK'
    BY <1>0, <1>2 DEF TypeOK, PushSeq, Labels, PushLabels, PopLabels
  <2>2. PushInv(t)' /\ PopInv(t)'
    BY <1>0, <1>2 DEF TypeOK, PushSeq, PushInv, PopInv, PushLabels, PopLabels
  <2> QED
    BY <1>0, <1>2, <2>1, <2>2, LocalStep DEF PushSeq, TypeOK
<1>3. CASE PushLoad(t)
  <2>1. TypeOK'
    BY <1>0, <1>3 DEF TypeOK, PushLoad, Labels, PushLabels, PopLabels
  <2>2. PushInv(t)' /\ PopInv(t)'
    BY <1>0, <1>3 DEF TypeOK, PushLoad, PushInv, PopInv, PushLabels, PopLabels
  <2> QED
    BY <1>0, <1>3, <2>1, <2>2, LocalStep DEF PushLoad, TypeOK
<1>4. CASE PushCasFails(t)
  <2>1. TypeOK'
    BY <1>0, <1>4 DEF TypeOK, PushCasFails, Labels, PushLabels, PopLabels
  <2>2. PushInv(t)' /\ PopInv(t)'
    BY <1>0, <1>4 DEF TypeOK, PushCasFails, PushInv, PopInv, PushLabels, PopLabels
  <2> QED
    BY <1>0, <1>4, <2>1, <2>2, LocalStep DEF PushCasFails, TypeOK
<1>5. CASE PopCall(t)
  <2>1. TypeOK'
    BY <1>0, <1>5 DEF TypeOK, PopCall, Labels, PushLabels, PopLabels
  <2>2. PushInv(t)' /\ PopInv(t)'
    BY <1>0, <1>5 DEF TypeOK, PopCall, PushInv, PopInv, PushLabels, PopLabels
  <2> QED
    BY <1>0, <1>5, <2>1, <2>2, LocalStep DEF PopCall, TypeOK
<1>6. CASE PopSeq(t)
  <2>1. TypeOK'
    BY <1>0, <1>6 DEF TypeOK, PopSeq, Labels, PushLabels, PopLabels
  <2>2. PushInv(t)' /\ PopInv(t)'
    BY <1>0, <1>6 DEF TypeOK, PopSeq, PushInv, PopInv, PushLabels, PopLabels
  <2> QED
    BY <1>0, <1>6, <2>1, <2>2, LocalStep DEF PopSeq, TypeOK
<1>7. CASE PopLoad(t)
  <2>1. TypeOK'
    BY <1>0, <1>7 DEF TypeOK, PopLoad, Labels, PushLabels, PopLabels
  <2>2. PushInv(t)' /\ PopInv(t)'
    BY <1>0, <1>7 DEF TypeOK, PopLoad, PushInv, PopInv, PushLabels, PopLabels
  <2> QED
    BY <1>0, <1>7, <2>1, <2>2, LocalStep DEF PopLoad, TypeOK
<1>8. CASE PopCasFails(t)
  <2>1. TypeOK'
    BY <1>0, <1>8 DEF TypeOK, PopCasFails, Labels, PushLabels, PopLabels
  <2>2. PushInv(t)' /\ PopInv(t)'
    BY <1>0, <1>8 DEF TypeOK, PopCasFails, PushInv, PopInv, PushLabels, PopLabels
  <2> QED
    BY <1>0, <1>8, <2>1, <2>2, LocalStep DEF PopCasFails, TypeOK
<1> QED
  BY <1>1, <1>2, <1>3, <1>4, <1>5, <1>6, <1>7, <1>8 DEF Local

-----------------------------------------------------------------------------
\* The threads that own a slot.
Owner(t) == Pushing(t) \/ Popping(t)

\* An owner's position is one of the positions the ring holds.
LEMMA OwnerInWindow ==
  ASSUME IInv, NEW t \in Threads, Owner(t)
  PROVE  pos[t] \in Nat /\ pos[t] \in Window
<1>1. /\ TypeOK /\ WithinCapacity /\ PushInv(t) /\ PopInv(t)
  BY DEF IInv
<1>2. /\ enqueue_pos \in Nat /\ dequeue_pos \in Nat /\ pos[t] \in Nat
  BY <1>1 DEF TypeOK
<1>3. enqueue_pos - Capacity <= pos[t] /\ pos[t] < enqueue_pos
  BY <1>1, <1>2, CapacityAssumption DEF WithinCapacity, PushInv, PopInv, Owner
<1> QED
  BY <1>2, <1>3, CapacityAssumption DEF Window

\* An owner's slot stands for no other position of the ring.
LEMMA OwnSlot ==
  ASSUME IInv, NEW t \in Threads, Owner(t),
         NEW p \in Window, Slot(p) = Slot(pos[t])
  PROVE  p = pos[t]
<1>1. enqueue_pos \in Nat /\ Capacity \in Nat
  BY CapacityAssumption DEF IInv, TypeOK
<1>2. pos[t] \in Nat /\ pos[t] \in Window
  BY OwnerInWindow
<1>3. p \in Int /\ p - pos[t] < Capacity /\ pos[t] - p < Capacity
  BY <1>1, <1>2 DEF Window
<1> QED
  BY <1>2, <1>3, SlotInjective

\* Two owners own two slots.
LEMMA OwnersApart ==
  ASSUME IInv, NEW t \in Threads, NEW u \in Threads, t # u, Owner(t), Owner(u)
  PROVE  Slot(pos[t]) # Slot(pos[u])
  BY OwnSlot, OwnerInWindow DEF IInv, OwnersDiffer, Owner

\* The slot a thread is about to draw has no owner.
LEMMA NextSlotFree ==
  ASSUME IInv, NEW t \in Threads, Owner(t)
  PROVE  /\ seq[Slot(enqueue_pos)] = enqueue_pos => Slot(enqueue_pos) # Slot(pos[t])
         /\ seq[Slot(dequeue_pos)] = dequeue_pos + 1 => Slot(dequeue_pos) # Slot(pos[t])
<1>1. /\ enqueue_pos \in Nat /\ dequeue_pos \in Nat /\ pos[t] \in Nat
      /\ PushInv(t) /\ PopInv(t) /\ dequeue_pos <= enqueue_pos
  BY DEF IInv, TypeOK, WithinCapacity
<1>2. ASSUME seq[Slot(enqueue_pos)] = enqueue_pos, Slot(enqueue_pos) = Slot(pos[t])
      PROVE  FALSE
  <2>1. CASE Pushing(t)
    BY <1>1, <1>2, <2>1 DEF PushInv
  <2>2. CASE Popping(t)
    <3>1. enqueue_pos = pos[t] + 1
      BY <1>1, <1>2, <2>2 DEF PopInv
    <3> QED
      BY <1>1, <1>2, <3>1, SlotInjective, CapacityAssumption
  <2> QED
    BY <2>1, <2>2 DEF Owner
<1>3. ASSUME seq[Slot(dequeue_pos)] = dequeue_pos + 1, Slot(dequeue_pos) = Slot(pos[t])
      PROVE  FALSE
  <2>1. CASE Pushing(t)
    <3>1. pos[t] = dequeue_pos + 1
      BY <1>1, <1>3, <2>1 DEF PushInv
    <3> QED
      BY <1>1, <1>3, <3>1, SlotInjective, CapacityAssumption
  <2>2. CASE Popping(t)
    BY <1>1, <1>3, <2>2 DEF PopInv
  <2> QED
    BY <2>1, <2>2 DEF Owner
<1> QED
  BY <1>2, <1>3

-----------------------------------------------------------------------------
\* Drawing a position to write: the slot's last reader has given it back.
LEMMA PushCasStep ==
  ASSUME IInv, NEW t \in Threads, PushCas(t) PROVE IInv'
<1> DEFINE last == enqueue_pos - Capacity
<1>1. /\ TypeOK /\ WithinCapacity /\ Len(tickets) = enqueue_pos /\ StageInv /\ OwnersDiffer
      /\ \A u \in Threads : PushInv(u) /\ PopInv(u)
  BY DEF IInv
<1>2. /\ enqueue_pos \in Nat /\ dequeue_pos \in Nat /\ Capacity \in Nat /\ Capacity >= 2
      /\ tickets \in Seq(Items) /\ pos \in [Threads -> Nat] /\ pc \in [Threads -> Labels]
  BY <1>1, CapacityAssumption DEF TypeOK
<1>3. pc[t] = "push_cas" /\ pos[t] = enqueue_pos /\ arg[t] \in Items /\ seq[Slot(enqueue_pos)] = enqueue_pos
  BY <1>1 DEF PushCas, PushInv, PushLabels
<1>4. /\ enqueue_pos' = enqueue_pos + 1 /\ dequeue_pos' = dequeue_pos /\ seq' = seq /\ item' = item
      /\ pos' = pos /\ arg' = arg /\ got' = got
      /\ tickets' = Append(tickets, arg[t])
      /\ pc' = [pc EXCEPT ![t] = "push_item"]
  BY DEF PushCas, GoTo, slotVars, localVars
<1>5. Slot(last) = Slot(enqueue_pos) /\ last \in Window
  BY <1>2, SlotShift DEF Window
<1>6. last < dequeue_pos
  <2>1. SUFFICES ASSUME last >= dequeue_pos PROVE FALSE
    BY <1>2
  <2>2. Published(last) \/ BeingPushed(last)
    BY <1>1, <1>5, <2>1 DEF StageInv
  <2> QED
    BY <1>2, <1>3, <1>5, <2>2 DEF Published, BeingPushed
<1>7. \A u \in Threads : Popping(u) => pos[u] # last
  BY <1>1, <1>2, <1>3, <1>5 DEF PopInv
<1>8. \A n \in 1..enqueue_pos : tickets'[n] = tickets[n]
  BY <1>1, <1>2, <1>3, <1>4
<1>9. tickets'[enqueue_pos + 1] = arg[t] /\ Len(tickets') = enqueue_pos'
  BY <1>1, <1>2, <1>3, <1>4
<1>10. \A u \in Threads : /\ Pushing(u)' <=> Pushing(u) \/ u = t
                          /\ Popping(u)' <=> Popping(u)
  BY <1>2, <1>3, <1>4 DEF Pushing, Popping
<1> HIDE DEF last
<1>11. TypeOK'
  BY <1>1, <1>2, <1>3, <1>4 DEF TypeOK, Labels, PushLabels
<1>12. WithinCapacity'
  BY <1>1, <1>2, <1>4, <1>6 DEF WithinCapacity, last
<1>13. StageInv'
  <2>1. SUFFICES ASSUME NEW p \in Window'
                 PROVE  IF p >= dequeue_pos THEN Published(p)' \/ BeingPushed(p)'
                                            ELSE Released(p)' \/ BeingPopped(p)'
    BY <1>4 DEF StageInv
  <2>2. CASE p = enqueue_pos
    <3>1. BeingPushed(p)'
      BY <1>3, <1>4, <1>10, <2>2 DEF BeingPushed
    <3> QED
      BY <1>1, <1>2, <2>2, <3>1 DEF WithinCapacity
  <2>3. CASE p # enqueue_pos
    <3>1. p \in Window /\ p \in Int /\ p < enqueue_pos
      BY <1>2, <1>4, <2>3 DEF Window
    <3>2. /\ p >= dequeue_pos /\ Published(p) => Published(p)'
          /\ BeingPushed(p) => BeingPushed(p)'
          /\ Released(p) => Released(p)'
          /\ BeingPopped(p) => BeingPopped(p)'
      <4>1. p >= dequeue_pos => p + 1 \in 1..enqueue_pos
        BY <1>2, <3>1
      <4>2. p >= dequeue_pos /\ Published(p) => Published(p)'
        BY <1>4, <1>8, <4>1 DEF Published
      <4>3. BeingPushed(p) => BeingPushed(p)'
        BY <1>4, <1>10 DEF BeingPushed
      <4>4. BeingPopped(p) => BeingPopped(p)'
        BY <1>4, <1>10 DEF BeingPopped
      <4>5. Released(p) => Released(p)'
        BY <1>4 DEF Released
      <4> QED
        BY <4>2, <4>3, <4>4, <4>5
    <3> QED
      BY <1>1, <3>1, <3>2 DEF StageInv
  <2> QED
    BY <2>2, <2>3
<1>14. ASSUME NEW u \in Threads PROVE PushInv(u)' /\ PopInv(u)'
  <2>0. PushInv(u) /\ PopInv(u) /\ pos[u] \in Nat /\ dequeue_pos <= enqueue_pos
    BY <1>1, <1>2 DEF WithinCapacity
  <2>1. CASE u = t
    BY <1>2, <1>3, <1>4, <1>9, <2>0, <2>1
      DEF PushInv, PopInv, Pushing, Popping, PushLabels, PopLabels
  <2>2. CASE u # t
    <3>1. pc'[u] = pc[u]
      BY <1>2, <1>4, <2>2
    <3>2. Pushing(u) => pos[u] + 1 \in 1..enqueue_pos
      BY <1>2, <2>0 DEF PushInv
    <3>3. Popping(u) => pos[u] + 1 \in 1..enqueue_pos /\ pos[u] >= enqueue_pos' - Capacity
      BY <1>2, <1>4, <1>7, <2>0 DEF PopInv, last
    <3>4. PushInv(u)'
      <4>1. Pushing(u)' <=> Pushing(u)
        BY <3>1 DEF Pushing
      <4>2. Pushing(u) => tickets'[pos[u] + 1] = tickets[pos[u] + 1]
        BY <1>8, <3>2
      <4>3. pc[u] \in PushLabels => pos[u] < enqueue_pos' /\ pos[u] # enqueue_pos'
        BY <1>2, <1>4, <2>0 DEF PushInv
      <4>4. pc[u] = "push_cas" => pc[u] \in PushLabels
        BY DEF PushLabels
      <4>5. (pc[u] \in PushLabels => arg[u] \in Items /\ pos[u] <= enqueue_pos)'
        BY <1>2, <1>4, <2>0, <3>1, <4>3 DEF PushInv
      <4>6. (Pushing(u) => /\ dequeue_pos <= pos[u] /\ pos[u] < enqueue_pos
                           /\ seq[Slot(pos[u])] = pos[u]
                           /\ arg[u] = tickets[pos[u] + 1])'
        <5>1. SUFFICES ASSUME Pushing(u)
                       PROVE  /\ dequeue_pos' <= pos'[u] /\ pos'[u] < enqueue_pos'
                              /\ seq'[Slot(pos'[u])] = pos'[u]
                              /\ arg'[u] = tickets'[pos'[u] + 1]
          BY <4>1
        <5>2. dequeue_pos' <= pos'[u] /\ pos'[u] < enqueue_pos'
          BY <1>2, <1>4, <2>0, <5>1 DEF PushInv
        <5>3. seq'[Slot(pos'[u])] = pos'[u] /\ arg'[u] = tickets'[pos'[u] + 1]
          BY <1>4, <2>0, <4>2, <5>1 DEF PushInv
        <5> QED
          BY <5>2, <5>3
      <4>7. (pc[u] = "push_done" => item[Slot(pos[u])] = arg[u])'
        BY <1>4, <2>0, <3>1 DEF PushInv
      <4>8. ~(pc[u] = "push_cas" /\ pos[u] = enqueue_pos)'
        BY <1>4, <3>1, <4>3, <4>4
      <4> QED
        BY <4>5, <4>6, <4>7, <4>8 DEF PushInv
    <3>5. PopInv(u)'
      BY <1>2, <1>4, <1>8, <1>10, <2>0, <3>1, <3>3 DEF PopInv, Popping
    <3> QED
      BY <3>4, <3>5
  <2> QED
    BY <2>1, <2>2
<1>15. OwnersDiffer'
  <2>1. \A u \in Threads : (Pushing(u) \/ Popping(u)) => pos[u] < enqueue_pos
    BY <1>1, <1>2 DEF PushInv, PopInv, WithinCapacity
  <2> QED
    BY <1>1, <1>2, <1>3, <1>4, <1>10, <2>1 DEF OwnersDiffer
<1> QED
  BY <1>9, <1>11, <1>12, <1>13, <1>14, <1>15 DEF IInv

-----------------------------------------------------------------------------
\* An owner's step touches its own slot only: the others need no proof.
LEMMA OwnerStep ==
  ASSUME IInv, NEW t \in Threads, Owner(t),
         UNCHANGED <<enqueue_pos, dequeue_pos, pos, tickets>>,
         \A u \in Threads \ {t} : pc'[u] = pc[u] /\ arg'[u] = arg[u] /\ got'[u] = got[u],
         \A s \in Slots \ {Slot(pos[t])} : seq'[s] = seq[s] /\ item'[s] = item[s],
         TypeOK', PushInv(t)', PopInv(t)',
         IF pos[t] >= dequeue_pos THEN Published(pos[t])' \/ BeingPushed(pos[t])'
                                  ELSE Released(pos[t])' \/ BeingPopped(pos[t])'
  PROVE  IInv'
<1>1. /\ TypeOK /\ WithinCapacity /\ Len(tickets) = enqueue_pos /\ StageInv /\ OwnersDiffer
      /\ \A u \in Threads : PushInv(u) /\ PopInv(u)
  BY DEF IInv
<1>2. /\ enqueue_pos \in Nat /\ dequeue_pos \in Nat /\ Capacity \in Nat
      /\ pos \in [Threads -> Nat] /\ pos' = pos
  BY <1>1, CapacityAssumption DEF TypeOK
<1>3. \A u \in Threads \ {t} : /\ Pushing(u)' <=> Pushing(u)
                               /\ Popping(u)' <=> Popping(u)
  BY DEF Pushing, Popping
<1>4. WithinCapacity' /\ Len(tickets') = enqueue_pos'
  BY <1>1 DEF WithinCapacity
<1>5. StageInv'
  <2>1. Window' = Window
    BY DEF Window
  <2>2. SUFFICES ASSUME NEW p \in Window, p # pos[t]
                 PROVE  IF p >= dequeue_pos THEN Published(p)' \/ BeingPushed(p)'
                                            ELSE Released(p)' \/ BeingPopped(p)'
    BY <2>1 DEF StageInv
  <2>3. p \in Int
    BY <1>2 DEF Window
  <2>4. seq'[Slot(p)] = seq[Slot(p)] /\ item'[Slot(p)] = item[Slot(p)]
    BY <2>2, <2>3, OwnSlot, DivMod
  <2>5. BeingPushed(p) => BeingPushed(p)'
    BY <1>2, <1>3, <2>2, <2>4 DEF BeingPushed
  <2>6. BeingPopped(p) => BeingPopped(p)'
    BY <1>2, <1>3, <2>2, <2>4 DEF BeingPopped
  <2>7. (Published(p) => Published(p)') /\ (Released(p) => Released(p)')
    BY <2>4 DEF Published, Released
  <2> QED
    BY <1>1, <2>5, <2>6, <2>7 DEF StageInv
<1>6. ASSUME NEW u \in Threads, u # t PROVE PushInv(u)' /\ PopInv(u)'
  <2>1. /\ PushInv(u) /\ PopInv(u) /\ pos[u] \in Nat /\ Slot(pos[u]) \in Slots
        /\ Slot(enqueue_pos) \in Slots /\ Slot(dequeue_pos) \in Slots
    BY <1>1, <1>2, DivMod
  <2>2. Owner(u) => /\ seq'[Slot(pos[u])] = seq[Slot(pos[u])]
                    /\ item'[Slot(pos[u])] = item[Slot(pos[u])]
    BY <1>6, <2>1, OwnersApart
  <2>3. seq[Slot(enqueue_pos)] = enqueue_pos => seq'[Slot(enqueue_pos)] = enqueue_pos
    BY <2>1, NextSlotFree
  <2>4. seq[Slot(dequeue_pos)] = dequeue_pos + 1 => seq'[Slot(dequeue_pos)] = dequeue_pos + 1
    BY <2>1, NextSlotFree
  <2>5. /\ pc'[u] = pc[u] /\ arg'[u] = arg[u] /\ got'[u] = got[u]
        /\ tickets' = tickets /\ enqueue_pos' = enqueue_pos /\ dequeue_pos' = dequeue_pos
    BY <1>6
  <2>6. /\ pc[u] = "push_done" => Owner(u)
        /\ pc[u] = "pop_item" => Owner(u)
    BY DEF Owner, Pushing, Popping
  <2>7. PushInv(u)'
    BY <1>2, <1>3, <1>6, <2>1, <2>2, <2>3, <2>5, <2>6 DEF PushInv, Owner
  <2>8. PopInv(u)'
    BY <1>2, <1>3, <1>6, <2>1, <2>2, <2>4, <2>5, <2>6 DEF PopInv, Owner
  <2> QED
    BY <2>7, <2>8
<1>7. OwnersDiffer'
  BY <1>1, <1>2, <1>3 DEF OwnersDiffer, Owner
<1> QED
  BY <1>1, <1>4, <1>5, <1>6, <1>7 DEF IInv

\* The item is written into the slot; its seq still says "being written".
LEMMA PushItemStep ==
  ASSUME IInv, NEW t \in Threads, PushItem(t) PROVE IInv'
<1>1. TypeOK /\ PushInv(t) /\ PopInv(t)
  BY DEF IInv
<1>2. Owner(t) /\ Slot(pos[t]) \in Slots
  <2>1. Owner(t)
    BY DEF PushItem, Owner, Pushing, Popping
  <2> QED
    BY <2>1, OwnerInWindow, DivMod
<1>3. TypeOK'
  BY <1>1, <1>2
    DEF TypeOK, PushItem, GoTo, slotVars, localVars, Labels, PushLabels, PopLabels, Pushing, Popping
<1>4. PushInv(t)' /\ PopInv(t)'
  BY <1>1, <1>2, MpmcAssumption
    DEF TypeOK, PushItem, GoTo, slotVars, localVars, PushInv, PopInv, Pushing, Popping,
        PushLabels, PopLabels
<1>5. IF pos[t] >= dequeue_pos THEN Published(pos[t])' \/ BeingPushed(pos[t])'
                               ELSE Released(pos[t])' \/ BeingPopped(pos[t])'
  BY <1>1, <1>2
    DEF TypeOK, PushItem, GoTo, slotVars, localVars, PushInv, PopInv, Pushing, Popping,
        Published, BeingPushed, Released, BeingPopped
<1> QED
  BY <1>1, <1>2, <1>3, <1>4, <1>5, OwnerStep
    DEF PushItem, GoTo, TypeOK, slotVars, localVars

\* The slot is published.
LEMMA PushDoneStep ==
  ASSUME IInv, NEW t \in Threads, PushDone(t) PROVE IInv'
<1>1. TypeOK /\ PushInv(t) /\ PopInv(t)
  BY DEF IInv
<1>2. Owner(t) /\ Slot(pos[t]) \in Slots
  <2>1. Owner(t)
    BY DEF PushDone, Owner, Pushing, Popping
  <2> QED
    BY <2>1, OwnerInWindow, DivMod
<1>3. TypeOK'
  BY <1>1, <1>2
    DEF TypeOK, PushDone, GoTo, slotVars, localVars, Labels, PushLabels, PopLabels, Pushing, Popping
<1>4. PushInv(t)' /\ PopInv(t)'
  BY <1>1, <1>2, MpmcAssumption
    DEF TypeOK, PushDone, GoTo, slotVars, localVars, PushInv, PopInv, Pushing, Popping,
        PushLabels, PopLabels
<1>5. IF pos[t] >= dequeue_pos THEN Published(pos[t])' \/ BeingPushed(pos[t])'
                               ELSE Released(pos[t])' \/ BeingPopped(pos[t])'
  BY <1>1, <1>2
    DEF TypeOK, PushDone, GoTo, slotVars, localVars, PushInv, PopInv, Pushing, Popping,
        Published, BeingPushed, Released, BeingPopped
<1> QED
  BY <1>1, <1>2, <1>3, <1>4, <1>5, OwnerStep
    DEF PushDone, GoTo, TypeOK, slotVars, localVars

\* The item is read.
LEMMA PopItemStep ==
  ASSUME IInv, NEW t \in Threads, PopItem(t) PROVE IInv'
<1>1. TypeOK /\ PushInv(t) /\ PopInv(t)
  BY DEF IInv
<1>2. Owner(t) /\ Slot(pos[t]) \in Slots
  <2>1. Owner(t)
    BY DEF PopItem, Owner, Pushing, Popping
  <2> QED
    BY <2>1, OwnerInWindow, DivMod
<1>3. TypeOK'
  BY <1>1, <1>2
    DEF TypeOK, PopItem, GoTo, slotVars, localVars, Labels, PushLabels, PopLabels, Pushing, Popping
<1>4. PushInv(t)' /\ PopInv(t)'
  BY <1>1, <1>2, MpmcAssumption
    DEF TypeOK, PopItem, GoTo, slotVars, localVars, PushInv, PopInv, Pushing, Popping,
        PushLabels, PopLabels
<1>5. IF pos[t] >= dequeue_pos THEN Published(pos[t])' \/ BeingPushed(pos[t])'
                               ELSE Released(pos[t])' \/ BeingPopped(pos[t])'
  BY <1>1, <1>2
    DEF TypeOK, PopItem, GoTo, slotVars, localVars, PushInv, PopInv, Pushing, Popping,
        Published, BeingPushed, Released, BeingPopped
<1> QED
  BY <1>1, <1>2, <1>3, <1>4, <1>5, OwnerStep
    DEF PopItem, GoTo, TypeOK, slotVars, localVars

\* The slot is emptied.
LEMMA PopNullStep ==
  ASSUME IInv, NEW t \in Threads, PopNull(t) PROVE IInv'
<1>1. TypeOK /\ PushInv(t) /\ PopInv(t)
  BY DEF IInv
<1>2. Owner(t) /\ Slot(pos[t]) \in Slots
  <2>1. Owner(t)
    BY DEF PopNull, Owner, Pushing, Popping
  <2> QED
    BY <2>1, OwnerInWindow, DivMod
<1>3. TypeOK'
  BY <1>1, <1>2
    DEF TypeOK, PopNull, GoTo, slotVars, localVars, Labels, PushLabels, PopLabels, Pushing, Popping
<1>4. PushInv(t)' /\ PopInv(t)'
  BY <1>1, <1>2, MpmcAssumption
    DEF TypeOK, PopNull, GoTo, slotVars, localVars, PushInv, PopInv, Pushing, Popping,
        PushLabels, PopLabels
<1>5. IF pos[t] >= dequeue_pos THEN Published(pos[t])' \/ BeingPushed(pos[t])'
                               ELSE Released(pos[t])' \/ BeingPopped(pos[t])'
  BY <1>1, <1>2
    DEF TypeOK, PopNull, GoTo, slotVars, localVars, PushInv, PopInv, Pushing, Popping,
        Published, BeingPushed, Released, BeingPopped
<1> QED
  BY <1>1, <1>2, <1>3, <1>4, <1>5, OwnerStep
    DEF PopNull, GoTo, TypeOK, slotVars, localVars

\* The slot is given back for the next lap.
LEMMA PopDoneStep ==
  ASSUME IInv, NEW t \in Threads, PopDone(t) PROVE IInv'
<1>1. TypeOK /\ PushInv(t) /\ PopInv(t)
  BY DEF IInv
<1>2. Owner(t) /\ Slot(pos[t]) \in Slots
  <2>1. Owner(t)
    BY DEF PopDone, Owner, Pushing, Popping
  <2> QED
    BY <2>1, OwnerInWindow, DivMod
<1>3. TypeOK'
  <2>1. pos[t] + Capacity \in Nat
    BY <1>1, CapacityAssumption DEF TypeOK
  <2> QED
    BY <1>1, <1>2, <2>1 DEF TypeOK, PopDone, GoTo, localVars, Labels
<1>4. PushInv(t)' /\ PopInv(t)'
  BY <1>1, <1>2, MpmcAssumption
    DEF TypeOK, PopDone, GoTo, slotVars, localVars, PushInv, PopInv, Pushing, Popping,
        PushLabels, PopLabels
<1>5. IF pos[t] >= dequeue_pos THEN Published(pos[t])' \/ BeingPushed(pos[t])'
                               ELSE Released(pos[t])' \/ BeingPopped(pos[t])'
  BY <1>1, <1>2
    DEF TypeOK, PopDone, GoTo, slotVars, localVars, PushInv, PopInv, Pushing, Popping,
        Published, BeingPushed, Released, BeingPopped
<1> QED
  BY <1>1, <1>2, <1>3, <1>4, <1>5, OwnerStep
    DEF PopDone, GoTo, TypeOK, slotVars, localVars

-----------------------------------------------------------------------------
\* Drawing a position to read: its push has published it.
LEMMA PopCasStep ==
  ASSUME IInv, NEW t \in Threads, PopCas(t) PROVE IInv'
<1> DEFINE last == enqueue_pos - Capacity
<1>1. /\ TypeOK /\ WithinCapacity /\ Len(tickets) = enqueue_pos /\ StageInv /\ OwnersDiffer
      /\ \A u \in Threads : PushInv(u) /\ PopInv(u)
  BY DEF IInv
<1>2. /\ enqueue_pos \in Nat /\ dequeue_pos \in Nat /\ Capacity \in Nat /\ Capacity >= 2
      /\ pos \in [Threads -> Nat] /\ pc \in [Threads -> Labels]
      /\ dequeue_pos <= enqueue_pos /\ enqueue_pos <= dequeue_pos + Capacity
  BY <1>1, CapacityAssumption DEF TypeOK, WithinCapacity
<1>3. pc[t] = "pop_cas" /\ pos[t] = dequeue_pos /\ seq[Slot(dequeue_pos)] = dequeue_pos + 1
  BY <1>1 DEF PopCas, PopInv
<1>4. /\ dequeue_pos' = dequeue_pos + 1 /\ enqueue_pos' = enqueue_pos
      /\ seq' = seq /\ item' = item /\ tickets' = tickets
      /\ pos' = pos /\ arg' = arg /\ got' = got
      /\ pc' = [pc EXCEPT ![t] = "pop_item"]
  BY DEF PopCas, GoTo, slotVars, localVars
<1>5. dequeue_pos < enqueue_pos
  <2>1. SUFFICES ASSUME dequeue_pos = enqueue_pos PROVE FALSE
    BY <1>2
  <2>2. last \in Window /\ last < dequeue_pos /\ Slot(last) = Slot(dequeue_pos)
    BY <1>2, <2>1, SlotShift DEF Window
  <2>3. Released(last) \/ BeingPopped(last)
    BY <1>1, <1>2, <2>2 DEF StageInv
  <2> QED
    BY <1>2, <1>3, <2>1, <2>2, <2>3 DEF Released, BeingPopped
<1>6. item[Slot(dequeue_pos)] = tickets[dequeue_pos + 1]
  <2>1. dequeue_pos \in Window
    BY <1>2, <1>5 DEF Window
  <2>2. Published(dequeue_pos) \/ BeingPushed(dequeue_pos)
    BY <1>1, <1>2, <2>1 DEF StageInv
  <2> QED
    BY <1>2, <1>3, <2>2 DEF Published, BeingPushed
<1>7. \A u \in Threads : /\ Pushing(u)' <=> Pushing(u)
                         /\ Popping(u)' <=> Popping(u) \/ u = t
  BY <1>2, <1>3, <1>4 DEF Pushing, Popping
<1>8. \A u \in Threads : /\ Pushing(u) => pos[u] > dequeue_pos
                         /\ Popping(u) => pos[u] < dequeue_pos
  BY <1>1, <1>2, <1>3 DEF PushInv, PopInv
<1>9. TypeOK'
  BY <1>1, <1>2, <1>3, <1>4 DEF TypeOK, Labels, PopLabels
<1>10. WithinCapacity' /\ Len(tickets') = enqueue_pos'
  BY <1>1, <1>2, <1>4, <1>5 DEF WithinCapacity
<1>11. StageInv'
  <2>1. Window' = Window
    BY <1>4 DEF Window
  <2>2. SUFFICES ASSUME NEW p \in Window
                 PROVE  IF p >= dequeue_pos' THEN Published(p)' \/ BeingPushed(p)'
                                             ELSE Released(p)' \/ BeingPopped(p)'
    BY <2>1 DEF StageInv
  <2>3. CASE p = dequeue_pos
    <3>1. BeingPopped(p)'
      BY <1>3, <1>4, <1>7, <2>3 DEF BeingPopped
    <3> QED
      BY <1>2, <1>4, <2>3, <3>1
  <2>4. CASE p # dequeue_pos
    <3>1. p >= dequeue_pos' <=> p >= dequeue_pos
      BY <1>2, <1>4, <2>4 DEF Window
    <3>2. (BeingPushed(p) => BeingPushed(p)') /\ (BeingPopped(p) => BeingPopped(p)')
      BY <1>4, <1>7 DEF BeingPushed, BeingPopped
    <3>3. (Published(p) => Published(p)') /\ (Released(p) => Released(p)')
      BY <1>4 DEF Published, Released
    <3> QED
      BY <1>1, <3>1, <3>2, <3>3 DEF StageInv
  <2> QED
    BY <2>3, <2>4
<1>12. ASSUME NEW u \in Threads PROVE PushInv(u)' /\ PopInv(u)'
  <2>1. PushInv(u) /\ PopInv(u) /\ pos[u] \in Nat
    BY <1>1, <1>2
  <2>2. CASE u = t
    <3>1. pc'[t] = "pop_item"
      BY <1>2, <1>4
    <3> QED
      BY <1>2, <1>3, <1>4, <1>6, <2>2, <3>1
        DEF PushInv, PopInv, Pushing, Popping, PushLabels
  <2>3. CASE u # t
    <3>1. pc'[u] = pc[u] /\ (Pushing(u)' <=> Pushing(u)) /\ (Popping(u)' <=> Popping(u))
      BY <1>2, <1>4, <1>7, <2>3
    <3>2. PushInv(u)'
      BY <1>2, <1>4, <1>8, <2>1, <3>1 DEF PushInv
    <3>3. pc[u] = "pop_cas" => pos[u] # dequeue_pos'
      BY <1>2, <1>4, <2>1 DEF PopInv, PopLabels
    <3>4. PopInv(u)'
      BY <1>2, <1>4, <2>1, <3>1, <3>3 DEF PopInv
    <3> QED
      BY <3>2, <3>4
  <2> QED
    BY <2>2, <2>3
<1>13. OwnersDiffer'
  BY <1>1, <1>2, <1>3, <1>4, <1>7, <1>8 DEF OwnersDiffer
<1> QED
  BY <1>9, <1>10, <1>11, <1>12, <1>13 DEF IInv

-----------------------------------------------------------------------------
\* Every step of every thread preserves the inductive invariant.
LEMMA NextIInv == IInv /\ [Next]_vars => IInv'
<1> SUFFICES ASSUME IInv, [Next]_vars PROVE IInv'
  OBVIOUS
<1>1. CASE UNCHANGED vars
  BY <1>1
    DEF vars, slotVars, localVars, IInv, TypeOK, WithinCapacity, StageInv, Window, Published,
        BeingPushed, BeingPopped, Released, PushInv, PopInv, OwnersDiffer, Pushing, Popping
<1>2. ASSUME NEW t \in Threads,
             (\E x \in Items : PushCall(t, x)) \/ PopCall(t) \/ Step(t)
      PROVE  IInv'
  <2>1. CASE Local(t)
    BY <2>1, LocalActions
  <2>2. CASE PushCas(t) \/ PopCas(t)
    BY <2>2, PushCasStep, PopCasStep
  <2>3. CASE PushItem(t) \/ PushDone(t)
    BY <2>3, PushItemStep, PushDoneStep
  <2>4. CASE PopItem(t) \/ PopNull(t) \/ PopDone(t)
    BY <2>4, PopItemStep, PopNullStep, PopDoneStep
  <2> QED
    BY <1>2, <2>1, <2>2, <2>3, <2>4 DEF Local, Step, PushStep, PopStep
<1> QED
  BY <1>1, <1>2 DEF Next

\* The inductive invariant holds in every reachable state of emq_mpmc.
THEOREM Invariance == Spec => []IInv
  BY InitIInv, NextIInv, PTL DEF Spec

\* The variables have their types: positions never go negative, a slot holds
\* an item or NULL.
THEOREM TypeCorrect == Spec => []TypeOK
<1>1. IInv => TypeOK
  BY DEF IInv
<1> QED
  BY <1>1, Invariance, PTL

\* No two threads are ever between drawing a position and passing its slot on
\* with the same slot: the plain accesses to slot->item never race.
THEOREM Exclusive == Spec => []SlotExclusive
<1>1. IInv => SlotExclusive
  BY OwnersApart DEF SlotExclusive, Owner
<1> QED
  BY <1>1, Invariance, PTL

\* emq_mpmc_pop hands out the item whose push drew the position it drew.
THEOREM RightItem == Spec => []PopsItsTicket
<1>1. IInv => PopsItsTicket
  <2>1. SUFFICES ASSUME IInv, NEW t \in Threads, pc[t] \in {"pop_null", "pop_done"}
                 PROVE  pos[t] < Len(tickets) /\ got[t] = tickets[pos[t] + 1]
    BY DEF PopsItsTicket
  <2>2. /\ enqueue_pos \in Nat /\ dequeue_pos \in Nat /\ pos[t] \in Nat
        /\ dequeue_pos <= enqueue_pos /\ Len(tickets) = enqueue_pos /\ PopInv(t)
    BY <2>1 DEF IInv, TypeOK, WithinCapacity
  <2> QED
    BY <2>1, <2>2 DEF PopInv, Popping
<1> QED
  BY <1>1, Invariance, PTL

\* At most Capacity positions are drawn for writing and not yet for reading.
THEOREM Bounded == Spec => []WithinCapacity
<1>1. IInv => WithinCapacity
  BY DEF IInv
<1> QED
  BY <1>1, Invariance, PTL

-----------------------------------------------------------------------------
\* Whatever position a thread is looking at, its slot now stands for one
\* position of the ring, a whole number of laps away.
LEMMA SlotInWindow ==
  ASSUME IInv, NEW q \in Nat
  PROVE  \E p \in Window : p \in Int /\ Slot(p) = Slot(q)
<1> DEFINE first == enqueue_pos - Capacity
           laps  == (q - first) \div Capacity
           rest  == Slot(q - first)
           a     == q \div Capacity
<1>1. enqueue_pos \in Nat /\ Capacity \in Nat /\ first \in Int
  BY CapacityAssumption DEF IInv, TypeOK
<1>2. q - first = Capacity * laps + rest /\ laps \in Int /\ rest \in Slots
  BY <1>1, DivMod
<1>3. q = Capacity * a + Slot(q) /\ a \in Int /\ Slot(q) \in Slots
  BY DivMod
<1>4. first + rest \in Window /\ first + rest \in Int
  BY <1>1, <1>2 DEF Window, Slots
<1> HIDE DEF laps, rest, a
<1>5. first + rest = Capacity * (a - laps) + Slot(q)
  BY <1>1, <1>2, <1>3 DEF Slots
<1>6. Slot(first + rest) = Slot(q)
  BY <1>2, <1>3, <1>5, RemainderUnique
<1> QED
  BY <1>4, <1>6

\* What the slot of any position says: the position it stands for, the one
\* after it, or the one a lap later.
LEMMA SeqOfWindow ==
  ASSUME IInv, NEW p \in Window
  PROVE  IF p >= dequeue_pos
         THEN seq[Slot(p)] = p + 1 \/ BeingPushed(p)
         ELSE seq[Slot(p)] = p + Capacity \/ BeingPopped(p)
  BY DEF IInv, StageInv, Published, Released

\* An "empty" answer: were the oldest position published, its slot would say
\* so, and any other slot the thread may be looking at is a lap ahead.
LEMMA EmptyStep ==
  ASSUME IInv, NEW t \in Threads, pc[t] = "pop_seq", seq[Slot(pos[t])] < pos[t] + 1
  PROVE  \/ dequeue_pos = enqueue_pos
         \/ \E u \in Threads : Pushing(u) /\ pos[u] = dequeue_pos
<1>1. /\ enqueue_pos \in Nat /\ dequeue_pos \in Nat /\ pos[t] \in Nat
      /\ Capacity \in Nat /\ Capacity >= 2
      /\ dequeue_pos <= enqueue_pos /\ enqueue_pos <= dequeue_pos + Capacity
      /\ pos[t] <= dequeue_pos
  BY CapacityAssumption DEF IInv, TypeOK, WithinCapacity, PopInv, PopLabels
<1>2. SUFFICES ASSUME dequeue_pos < enqueue_pos PROVE BeingPushed(dequeue_pos)
  BY <1>1 DEF BeingPushed
<1>3. PICK p \in Window : p \in Int /\ Slot(p) = Slot(pos[t])
  BY <1>1, SlotInWindow
<1>4. p <= pos[t]
  BY <1>1, <1>3, SeqOfWindow DEF BeingPushed, BeingPopped
<1>5. p >= enqueue_pos - Capacity
  BY <1>1 DEF Window
<1>6. p = pos[t]
  BY <1>1, <1>2, <1>3, <1>4, <1>5, SlotInjective
<1> QED
  BY <1>1, <1>3, <1>6, SeqOfWindow DEF BeingPushed, BeingPopped

\* A "full" answer: the slot still stands for the position one lap back.
LEMMA FullStep ==
  ASSUME IInv, NEW t \in Threads, pc[t] = "push_seq", seq[Slot(pos[t])] < pos[t]
  PROVE  \/ enqueue_pos = dequeue_pos + Capacity
         \/ \E u \in Threads : Popping(u) /\ pos[u] + Capacity = enqueue_pos
<1>1. /\ enqueue_pos \in Nat /\ dequeue_pos \in Nat /\ pos \in [Threads -> Nat]
      /\ Capacity \in Nat /\ Capacity >= 2
      /\ dequeue_pos <= enqueue_pos /\ enqueue_pos <= dequeue_pos + Capacity
      /\ pos[t] <= enqueue_pos
  BY CapacityAssumption DEF IInv, TypeOK, WithinCapacity, PushInv, PushLabels
<1>2. PICK p \in Window : p \in Int /\ Slot(p) = Slot(pos[t])
  BY <1>1, SlotInWindow
<1>3. p < pos[t] /\ p >= enqueue_pos - Capacity
  BY <1>1, <1>2, SeqOfWindow DEF Window, BeingPushed, BeingPopped
<1>4. p = enqueue_pos - Capacity /\ pos[t] = enqueue_pos
  BY <1>1, <1>2, <1>3, SlotInjective
<1>5. CASE p >= dequeue_pos
  BY <1>1, <1>4, <1>5
<1>6. CASE ~(p >= dequeue_pos)
  <2>1. BeingPopped(p)
    BY <1>1, <1>2, <1>4, <1>6, SeqOfWindow
  <2> QED
    BY <1>1, <1>4, <2>1 DEF BeingPopped
<1> QED
  BY <1>5, <1>6

\* Only PopSeq takes a thread from "pop_seq" to its return, only PushSeq from
\* "push_seq".
LEMMA AnswerSteps ==
  ASSUME TypeOK, [Next]_vars, NEW t \in Threads
  PROVE  /\ pc[t] = "pop_seq" /\ pc'[t] = "idle" => seq[Slot(pos[t])] < pos[t] + 1
         /\ pc[t] = "push_seq" /\ pc'[t] = "idle" => seq[Slot(pos[t])] < pos[t]
<1>1. CASE UNCHANGED vars
  BY <1>1 DEF vars
<1>2. ASSUME NEW u \in Threads, NEW x \in Items, PushCall(u, x)
      PROVE  pc'[t] = "idle" => pc'[t] = pc[t]
  BY <1>2 DEF TypeOK, PushCall, GoTo
<1>3. ASSUME NEW u \in Threads, PopCall(u)
      PROVE  pc'[t] = "idle" => pc'[t] = pc[t]
  BY <1>3 DEF TypeOK, PopCall, GoTo
<1>4. ASSUME NEW u \in Threads, Step(u)
      PROVE  /\ pc[t] = "pop_seq" /\ pc'[t] = "idle" => seq[Slot(pos[t])] < pos[t] + 1
             /\ pc[t] = "push_seq" /\ pc'[t] = "idle" => seq[Slot(pos[t])] < pos[t]
  <2>1. CASE PushSeq(u) \/ PushLoad(u) \/ PushCas(u) \/ PushCasFails(u)
             \/ PushItem(u) \/ PushDone(u)
    BY <2>1
      DEF TypeOK, PushSeq, PushLoad, PushCas, PushCasFails, PushItem, PushDone, GoTo
  <2>2. CASE PopSeq(u) \/ PopLoad(u) \/ PopCas(u) \/ PopCasFails(u)
             \/ PopItem(u) \/ PopNull(u) \/ PopDone(u)
    BY <2>2
      DEF TypeOK, PopSeq, PopLoad, PopCas, PopCasFails, PopItem, PopNull, PopDone, GoTo
  <2> QED
    BY <1>4, <2>1, <2>2 DEF Step, PushStep, PopStep
<1> QED
  BY <1>1, <1>2, <1>3, <1>4 DEF Next

\* emq_mpmc_pop answers "empty" only when the oldest position is not published.
THEOREM EmptyHonest == Spec => EmptyIsHonest
<1>1. IInv /\ [Next]_vars =>
        [\A t \in Threads :
           pc[t] = "pop_seq" /\ pc'[t] = "idle" =>
             \/ dequeue_pos = enqueue_pos
             \/ \E u \in Threads : Pushing(u) /\ pos[u] = dequeue_pos]_vars
  BY AnswerSteps, EmptyStep DEF IInv
<1> QED
  BY <1>1, Invariance, PTL DEF Spec, EmptyIsHonest

\* emq_mpmc_push answers "full" only when every slot is taken.
THEOREM FullHonest == Spec => FullIsHonest
<1>1. IInv /\ [Next]_vars =>
        [\A t \in Threads :
           pc[t] = "push_seq" /\ pc'[t] = "idle" =>
             \/ enqueue_pos = dequeue_pos + Capacity
             \/ \E u \in Threads : Popping(u) /\ pos[u] + Capacity = enqueue_pos]_vars
  BY AnswerSteps, FullStep DEF IInv
<1> QED
  BY <1>1, Invariance, PTL DEF Spec, FullIsHonest

-----------------------------------------------------------------------------
\* The queue implements the bounded FIFO channel.

\* Sequences by index: what SubSeq and Append hold.
LEMMA SubSeqFacts ==
  ASSUME NEW S, NEW s \in Seq(S), NEW m \in Nat, NEW n \in Nat, m <= n, n <= Len(s)
  PROVE  /\ SubSeq(s, m + 1, n) \in Seq(S)
         /\ Len(SubSeq(s, m + 1, n)) = n - m
         /\ \A i \in 1..(n - m) : SubSeq(s, m + 1, n)[i] = s[m + i]
  OBVIOUS

\* A position may be drawn only when the position a lap back has been drawn
\* by a pop: the space check of a push.
LEMMA LapBehind ==
  ASSUME IInv, NEW t \in Threads, PushCas(t)
  PROVE  enqueue_pos - dequeue_pos < Capacity
<1>1. IInv' /\ enqueue_pos' = enqueue_pos + 1 /\ dequeue_pos' = dequeue_pos
  BY PushCasStep DEF PushCas
<1> QED
  BY <1>1, CapacityAssumption DEF IInv, WithinCapacity, TypeOK

\* Drawing a position to write puts its item into the channel.
LEMMA PushPuts ==
  ASSUME IInv, NEW t \in Threads, PushCas(t) PROVE Channel!Put(arg[t])
<1> DEFINE chan  == SubSeq(tickets, dequeue_pos + 1, enqueue_pos)
           taken == SubSeq(tickets, 1, dequeue_pos)
<1>1. /\ enqueue_pos \in Nat /\ dequeue_pos \in Nat /\ tickets \in Seq(Items)
      /\ dequeue_pos <= enqueue_pos /\ Len(tickets) = enqueue_pos /\ arg[t] \in Items
  BY DEF IInv, TypeOK, WithinCapacity, PushInv, PushLabels, PushCas
<1>2. /\ enqueue_pos' = enqueue_pos + 1 /\ dequeue_pos' = dequeue_pos
      /\ tickets' = Append(tickets, arg[t]) /\ tickets' \in Seq(Items)
      /\ Len(tickets') = enqueue_pos + 1
      /\ \A i \in 1..enqueue_pos : tickets'[i] = tickets[i]
      /\ tickets'[enqueue_pos + 1] = arg[t]
  BY <1>1 DEF PushCas
<1>3. Len(chan) < Capacity
  BY <1>1, SubSeqFacts, LapBehind, CapacityAssumption
<1>4. chan' = Append(chan, arg[t])
  BY <1>1, <1>2, SubSeqFacts
<1>5. taken' = taken
  BY <1>1, <1>2, SubSeqFacts
<1> QED
  BY <1>3, <1>4, <1>5 DEF Channel!Put

\* Drawing a position to read takes the oldest entry out of the channel.
LEMMA PopTakes ==
  ASSUME IInv, NEW t \in Threads, PopCas(t) PROVE Channel!Take
<1> DEFINE chan  == SubSeq(tickets, dequeue_pos + 1, enqueue_pos)
           taken == SubSeq(tickets, 1, dequeue_pos)
<1>1. /\ enqueue_pos \in Nat /\ dequeue_pos \in Nat /\ tickets \in Seq(Items)
      /\ Len(tickets) = enqueue_pos
  BY DEF IInv, TypeOK
<1>2. dequeue_pos' = dequeue_pos + 1 /\ enqueue_pos' = enqueue_pos /\ tickets' = tickets
  BY DEF PopCas
<1>3. dequeue_pos + 1 <= enqueue_pos
  <2>1. IInv'
    BY PopCasStep
  <2> QED
    BY <1>2, <2>1 DEF IInv, WithinCapacity
<1>4. chan # <<>> /\ Head(chan) = tickets[dequeue_pos + 1]
  BY <1>1, <1>3, SubSeqFacts
<1>5. chan' = Tail(chan)
  BY <1>1, <1>2, <1>3, SubSeqFacts
<1>6. taken' = Append(taken, Head(chan))
  BY <1>1, <1>2, <1>3, <1>4, SubSeqFacts
<1> QED
  BY <1>4, <1>5, <1>6 DEF Channel!Take

\* Both answers at once: neither "full" nor "empty" is ever a lie.
THEOREM Honest == Spec => AnswersHonest
  BY EmptyHonest, FullHonest DEF AnswersHonest

\* emq_mpmc is a bounded FIFO channel: drawing positions puts items in and
\* takes them out in order, and every other step is invisible.
THEOREM Refinement == Spec => ImplementsChannel
<1>1. Init => Channel!Init
  BY DEF Init, Channel!Init
<1>2. IInv /\ [Next]_vars => [Channel!Next]_(Channel!chanVars)
  <2> SUFFICES ASSUME IInv, [Next]_vars PROVE [Channel!Next]_(Channel!chanVars)
    OBVIOUS
  <2>1. CASE UNCHANGED <<enqueue_pos, dequeue_pos, tickets>>
    BY <2>1 DEF Channel!chanVars
  <2>2. ASSUME NEW t \in Threads, PushCas(t) PROVE Channel!Next
    <3>1. arg[t] \in Items
      BY <2>2 DEF IInv, PushInv, PushLabels, PushCas
    <3> QED
      BY <2>2, <3>1, PushPuts DEF Channel!Next
  <2>3. ASSUME NEW t \in Threads, PopCas(t) PROVE Channel!Next
    BY <2>3, PopTakes DEF Channel!Next
  <2>4. ASSUME NEW t \in Threads,
               (\E x \in Items : PushCall(t, x)) \/ PopCall(t) \/ Step(t),
               ~PushCas(t), ~PopCas(t)
        PROVE  UNCHANGED <<enqueue_pos, dequeue_pos, tickets>>
    BY <2>4
      DEF Step, PushStep, PopStep, PushCall, PushSeq, PushLoad, PushCasFails, PushItem, PushDone,
          PopCall, PopSeq, PopLoad, PopCasFails, PopItem, PopNull, PopDone
  <2> QED
    BY <2>1, <2>2, <2>3, <2>4 DEF Next, vars
<1> QED
  BY <1>1, <1>2, Invariance, PTL DEF Spec, ImplementsChannel, Channel!Spec
=============================================================================
