---------------------------- MODULE DeliveryProofs ----------------------------
(***************************************************************************)
(* No accepted message is lost on its way through the delivery from a log: *)
(* for every policy, both delivery guarantees, any number of messages,     *)
(* redeliveries, seeks and restarts, if the callers' buffers are big       *)
(* enough, entries can be read, and message ids differ.  Under the same    *)
(* conditions, what the in-flight table holds, and that space comes back.  *)
(***************************************************************************)
EXTENDS Delivery, FiniteSetTheorems, TLAPS

-----------------------------------------------------------------------------
\* Least elements.

\* A nonempty set of numbers has a least element: among its initial segments
\* one has no other inside it.
LEMMA LeastFact ==
  ASSUME NEW S, S \subseteq Nat, S # {}
  PROVE  Least(S) \in S /\ \A y \in S : Least(S) <= y
<1>1. PICK n \in S : n \in Nat
  OBVIOUS
<1> DEFINE T == {y \in S : y <= n}
           F == {0..k : k \in T}
           R == StrictSubsetOrdering(0..n)
<1>2. IsWellFoundedOn(R, FiniteSubsetsOf(0..n))
  BY <1>1, FS_Interval, FS_StrictSubsetOrderingWellFounded
<1>3. F \subseteq FiniteSubsetsOf(0..n) /\ F # {}
  <2>1. ASSUME NEW k \in T PROVE IsFiniteSet(0..k) /\ 0..k \subseteq 0..n
    BY <1>1, FS_Interval
  <2>2. n \in T
    BY <1>1
  <2> QED
    BY <2>1, <2>2 DEF FiniteSubsetsOf
<1>4. PICK x \in F : \A y \in F : ~(<<y, x>> \in R)
  <2> HIDE DEF F, R
  <2> QED
    BY <1>2, <1>3, WFMin
<1>5. PICK k \in T : x = 0..k
  OBVIOUS
<1>6. ASSUME NEW j \in T, j < k PROVE FALSE
  <2>1. j \in Nat /\ k \in Nat /\ k <= n
    OBVIOUS
  <2>2. 0..j \subseteq 0..k /\ 0..j # 0..k /\ 0..k \subseteq 0..n
    <3>1. k \in 0..k /\ k \notin 0..j
      BY <1>6, <2>1
    <3> QED
      BY <1>1, <1>6, <2>1, <3>1
  <2>3. <<0..j, 0..k>> \in R
    BY <2>2 DEF StrictSubsetOrdering
  <2> QED
    BY <1>4, <1>5, <2>3
<1>7. k \in S /\ \A y \in S : k <= y
  BY <1>1, <1>6
<1> QED
  BY <1>7 DEF Least

-----------------------------------------------------------------------------
\* The state a call works on.

Kinds == {"plain", "ttl", "delayed"}
Entry == [off : Offsets, shown : BOOLEAN]
Tables == {t \in UNION {[D -> Entry] : D \in SUBSET Nat} : IsFiniteSet(DOMAIN t)}
State == [pos : 0..next, taken : SUBSET Offsets, lo : 0..next, table : Tables]

Offs(table) == {table[s].off : s \in DOMAIN table}

\* What a call may forget: it was settled, has expired, or was forsaken.
Gone == {off \in Offsets : off < forsaken \/ off \in Settled \/ Expired(off)}

\* Nothing is trimmed that is not in G; nothing is behind the read position or
\* consumed that is neither in G nor in flight.
Safe(st, G) ==
  \A off \in Offsets :
    /\ off < st.lo => off \in G
    /\ off < st.pos \/ off \in st.taken => off \in G \cup Offs(st.table)

TypeInv ==
  /\ opts \in Scenario
  /\ next \in Nat /\ Now \in State
  /\ saved \in 0..next /\ consumer_offset \in 0..next /\ forsaken \in Nat
  /\ msg \in Seq([kind : Kinds, prio : Nat]) /\ Len(msg) = next

\* A stream's reader has its own position.
StreamSafe ==
  Policy = "stream" =>
    \A off \in Offsets : off < consumer_offset => off \in Gone \cup ActiveOffs

\* What a restart may trim.
SavedSafe == \A off \in Offsets : off < saved => off \in Gone

IInv == TypeInv /\ Safe(Now, Gone) /\ StreamSafe /\ SavedSafe

\* What the queue is asked to do without.
Sound == ~SmallBuffers /\ ~ReadFails /\ ~SameId

\* NoLoss follows.
LEMMA InvNoLoss == IInv => NoLoss
<1> SUFFICES ASSUME IInv, NEW off \in Offsets, off \notin Gone PROVE Deliverable(off)
  BY DEF NoLoss, Gone
<1>1. off \in Nat /\ start \in Nat /\ read_offset \in Nat /\ consumer_offset \in Nat
  BY DEF IInv, TypeInv, Now, State, Offsets
<1>2. start <= off
  BY <1>1 DEF IInv, Safe, Now
<1>3. off \notin ActiveOffs => read_offset <= off /\ off \notin consumed
  BY <1>1 DEF IInv, Safe, Now, Offs, ActiveOffs
<1>4. off \notin ActiveOffs /\ Policy = "stream" => consumer_offset <= off
  BY <1>1 DEF IInv, StreamSafe
<1> QED
  BY <1>2, <1>3, <1>4 DEF Deliverable, Cursor

-----------------------------------------------------------------------------
\* emq_prim_compact_consumed keeps the state safe: read_offset passes only
\* consumed offsets, and the log is trimmed below everything in flight, to the
\* read position or to the oldest message in flight.
TrimmedTo(st, done) ==
  /\ \/ done.lo = done.pos \/ done.lo \in Offs(st.table)
     \/ done.lo = st.lo /\ (done.pos <= st.lo \/ \E off \in Offs(st.table) : off <= st.lo)
  /\ done.lo = st.lo \/ (done.lo <= done.pos /\ \A off \in Offs(st.table) : done.lo <= off)

LEMMA CompactedSafe ==
  ASSUME next \in Nat, NEW st \in State, NEW G, Safe(st, G), NEW reserved \in BOOLEAN
  PROVE  /\ Compacted(st, reserved) \in State
         /\ Compacted(st, reserved).table = st.table
         /\ reserved => Compacted(st, reserved).lo = st.lo
         /\ ~reserved => TrimmedTo(st, Compacted(st, reserved))
         /\ Compacted(st, reserved).pos \notin st.taken
         /\ st.pos <= Compacted(st, reserved).pos /\ st.lo <= Compacted(st, reserved).lo
         /\ Compacted(st, reserved).taken = st.taken \ (st.pos..(Compacted(st, reserved).pos - 1))
         /\ Safe(Compacted(st, reserved), G)
<1> DEFINE n == Cardinality(st.taken)
           P == {off \in st.pos..(st.pos + n) : off \notin st.taken}
           pos == Least(P)
           K == {pos} \cup {st.table[s].off : s \in DOMAIN st.table}
           keep == Least(K)
           done == Compacted(st, reserved)
<1>1. /\ st.pos \in 0..next /\ st.taken \subseteq Offsets /\ st.lo \in 0..next /\ st.table \in Tables
      /\ Offsets \subseteq Nat
  BY DEF State, Offsets
<1>2. IsFiniteSet(st.taken) /\ n \in Nat
  <2>1. IsFiniteSet(Offsets)
    BY FS_Interval DEF Offsets
  <2>2. IsFiniteSet(st.taken)
    BY <1>1, <2>1, FS_Subset
  <2> QED
    BY <2>2, FS_CardinalityType
<1>3. P \subseteq Nat /\ P # {}
  <2>1. ASSUME P = {} PROVE FALSE
    <3>1. st.pos..(st.pos + n) \subseteq st.taken
      BY <2>1
    <3>2. Cardinality(st.pos..(st.pos + n)) = n + 1
      <4>1. st.pos \in Int /\ st.pos + n \in Int
        BY <1>1, <1>2
      <4>2. Cardinality(st.pos..(st.pos + n)) = IF st.pos > st.pos + n THEN 0 ELSE (st.pos + n) - st.pos + 1
        BY <4>1, FS_Interval
      <4> HIDE DEF n
      <4> QED
        BY <1>1, <1>2, <4>2
    <3>3. Cardinality(st.pos..(st.pos + n)) <= n
      BY <1>2, <3>1, FS_Subset
    <3> QED
      BY <1>2, <3>2, <3>3
  <2>2. P \subseteq Nat
    BY <1>1, <1>2
  <2> QED
    BY <2>1, <2>2
<1>4. pos \in P /\ \A y \in P : pos <= y
  <2> HIDE DEF P
  <2> QED
    BY <1>3, LeastFact
<1>5. /\ pos \in Nat /\ st.pos <= pos /\ pos \notin st.taken
      /\ \A off \in Nat : st.pos <= off /\ off < pos => off \in st.taken
  <2>1. pos \in Nat /\ st.pos <= pos /\ pos <= st.pos + n /\ pos \notin st.taken
    <3>1. pos \in st.pos..(st.pos + n) /\ pos \notin st.taken
      <4> HIDE DEF n, pos
      <4> QED
        BY <1>4
    <3>2. st.pos \in Nat /\ n \in Nat
      BY <1>1, <1>2
    <3> HIDE DEF n, pos
    <3> QED
      BY <3>1, <3>2
  <2>2. ASSUME NEW off \in Nat, st.pos <= off, off < pos PROVE off \in st.taken
    <3>1. off \in st.pos..(st.pos + n)
      <4>1. st.pos \in Nat /\ n \in Nat /\ pos \in Nat /\ pos <= st.pos + n
        BY <1>1, <1>2, <2>1
      <4> HIDE DEF n, pos
      <4> QED
        BY <2>2, <4>1
    <3>2. off \notin P
      <4> HIDE DEF n, P, pos
      <4> QED
        BY <1>4, <2>1, <2>2
    <3> QED
      BY <3>1, <3>2
  <2> QED
    BY <2>1, <2>2
<1> HIDE DEF P, pos
<1>6. pos <= next
  <2>1. CASE pos = st.pos
    BY <1>1, <2>1
  <2>2. CASE pos # st.pos
    <3>1. pos - 1 \in Nat /\ st.pos <= pos - 1 /\ pos - 1 < pos
      BY <1>1, <1>5, <2>2
    <3>2. pos - 1 \in Offsets
      BY <1>1, <1>5, <3>1
    <3> QED
      BY <1>5, <3>2 DEF Offsets
  <2> QED
    BY <2>1, <2>2
<1>7. \A s \in DOMAIN st.table : st.table[s].off \in Offsets
  BY <1>1 DEF Tables, Entry
<1>8. K \subseteq Nat /\ K # {}
  BY <1>1, <1>5, <1>7
<1>9. keep \in K /\ \A y \in K : keep <= y
  <2> HIDE DEF K
  <2> QED
    BY <1>8, LeastFact
<1>10. keep \in Nat /\ keep <= pos /\ \A off \in Offs(st.table) : keep <= off
  BY <1>8, <1>9 DEF Offs
<1>11. keep = pos \/ keep \in Offs(st.table)
  BY <1>9 DEF Offs
<1> HIDE DEF keep, K
<1>12. /\ done.pos = pos /\ done.taken = st.taken \ (st.pos..(pos - 1)) /\ done.table = st.table
       /\ done.lo = IF reserved THEN st.lo ELSE Smaller(next, Larger(st.lo, keep))
       /\ done = [pos |-> done.pos, taken |-> done.taken, lo |-> done.lo, table |-> done.table]
  <2>1. done = [st EXCEPT !.pos = pos, !.taken = st.taken \ (st.pos..(pos - 1)),
                          !.lo = IF reserved THEN st.lo ELSE Smaller(next, Larger(st.lo, keep))]
    BY DEF Compacted, pos, P, keep, K
  <2> HIDE DEF done
  <2> QED
    BY <2>1 DEF State
<1> HIDE DEF done
<1>13. done.lo \in 0..next /\ (done.lo <= st.lo \/ done.lo <= keep)
  BY <1>1, <1>10, <1>12 DEF Smaller, Larger
<1>14. done \in State
  BY <1>1, <1>5, <1>6, <1>12, <1>13 DEF State
<1>15. ASSUME NEW off \in Offsets, off < pos \/ off \in st.taken
       PROVE  off \in G \cup Offs(st.table)
  BY <1>1, <1>5, <1>15 DEF Safe
<1>16. ASSUME NEW off \in Offsets, off < done.lo PROVE off \in G
  <2>1. CASE off < st.lo
    BY <2>1 DEF Safe
  <2>2. CASE off < keep
    BY <1>1, <1>5, <1>10, <1>15, <2>2
  <2> QED
    BY <1>1, <1>10, <1>13, <1>16, <2>1, <2>2
<1>17. Safe(done, G)
  BY <1>12, <1>15, <1>16 DEF Safe
<1>18. /\ st.lo <= done.lo
       /\ ~reserved => IF st.lo > keep THEN done.lo = st.lo ELSE done.lo = keep
  BY <1>1, <1>5, <1>6, <1>10, <1>12 DEF Smaller, Larger
<1>19. ASSUME ~reserved PROVE TrimmedTo(st, done)
  <2>1. CASE st.lo > keep
    <3>1. done.lo = st.lo /\ keep <= st.lo
      BY <1>1, <1>10, <1>18, <1>19, <2>1
    <3> QED
      BY <1>11, <1>12, <3>1 DEF TrimmedTo
  <2>2. CASE ~(st.lo > keep)
    <3>1. done.lo = keep
      BY <1>18, <1>19, <2>2
    <3> QED
      BY <1>10, <1>11, <1>12, <3>1 DEF TrimmedTo
  <2> QED
    BY <2>1, <2>2
<1> QED
  BY <1>5, <1>12, <1>14, <1>17, <1>18, <1>19 DEF done

-----------------------------------------------------------------------------
\* What a pop finds.

\* A key of the elements of a finite set has a greatest value: among the sets
\* of elements with a greater key one has no other inside it.
LEMMA GreatestKey ==
  ASSUME NEW S, IsFiniteSet(S), S # {}, NEW key \in [S -> Nat]
  PROVE  \E x \in S : \A y \in S : key[x] >= key[y]
<1> DEFINE Above(x) == {y \in S : key[y] > key[x]}
           F == {Above(x) : x \in S}
           R == StrictSubsetOrdering(S)
<1>1. IsWellFoundedOn(R, FiniteSubsetsOf(S))
  BY FS_StrictSubsetOrderingWellFounded
<1>2. F \subseteq FiniteSubsetsOf(S) /\ F # {}
  <2>1. ASSUME NEW x \in S PROVE Above(x) \in FiniteSubsetsOf(S)
    <3>1. Above(x) \in SUBSET S
      OBVIOUS
    <3> HIDE DEF Above
    <3>2. IsFiniteSet(Above(x))
      BY <3>1, FS_Subset
    <3> QED
      BY <3>1, <3>2 DEF FiniteSubsetsOf
  <2> HIDE DEF Above
  <2> QED
    BY <2>1
<1>3. PICK least \in F : \A other \in F : ~(<<other, least>> \in R)
  <2> HIDE DEF F, R
  <2> QED
    BY <1>1, <1>2, WFMin
<1>4. PICK x \in S : least = Above(x)
  OBVIOUS
<1>5. ASSUME NEW y \in S, key[y] > key[x] PROVE FALSE
  <2>1. Above(y) \subseteq Above(x) /\ y \in Above(x) /\ y \notin Above(y)
    BY <1>5
  <2>2. <<Above(y), Above(x)>> \in R
    BY <2>1 DEF StrictSubsetOrdering
  <2> QED
    BY <1>3, <1>4, <2>2
<1> QED
  BY <1>5

\* An element of a sequence over a set is in the set.
LEMMA ElementFact ==
  ASSUME NEW S, NEW q \in Seq(S), NEW i \in 1..Len(q)
  PROVE  q[i] \in S
OBVIOUS

\* The best entry is one of those it is chosen from.
LEMMA BestFact ==
  ASSUME TypeInv, NEW order, NEW S, S \subseteq Offsets, S # {}
  PROVE  Best(order, S) \in S
<1>1. Offsets \subseteq Nat /\ IsFiniteSet(S)
  <2>0. next \in Nat
    BY DEF TypeInv
  <2>1. IsFiniteSet(Offsets)
    <3>1. 0 \in Int /\ next - 1 \in Int
      BY <2>0
    <3> QED
      BY <3>1, FS_Interval DEF Offsets
  <2>2. S \in SUBSET Offsets
    OBVIOUS
  <2>3. IsFiniteSet(S)
    BY <2>1, <2>2, FS_Subset
  <2> QED
    BY <2>0, <2>2, <2>3 DEF Offsets
<1>2. CASE order = "lifo"
  <2> DEFINE key == [x \in S |-> x]
  <2>1. key \in [S -> Nat]
    BY <1>1
  <2>2. \E x \in S : \A y \in S : key[x] >= key[y]
    <3> HIDE DEF key
    <3> QED
      BY <1>1, <2>1, GreatestKey
  <2>3. \E x \in S : \A y \in S : x >= y
    BY <2>2
  <2> QED
    BY <1>2, <2>3 DEF Best
<1>3. CASE order = "priority"
  <2> DEFINE key == [x \in S |-> msg[x + 1].prio]
  <2>1. key \in [S -> Nat]
    <3> SUFFICES ASSUME NEW x \in S PROVE msg[x + 1].prio \in Nat
      OBVIOUS
    <3>1. msg \in Seq([kind : Kinds, prio : Nat]) /\ Len(msg) = next /\ next \in Nat
      BY DEF TypeInv
    <3>2. x + 1 \in 1..Len(msg)
      BY <1>1, <3>1 DEF Offsets
    <3>3. msg[x + 1] \in [kind : Kinds, prio : Nat]
      <4> HIDE DEF Kinds
      <4> QED
        BY <3>1, <3>2, ElementFact
    <3> QED
      BY <3>3
  <2>2. PICK top \in S : \A y \in S : key[top] >= key[y]
    <3> HIDE DEF key
    <3> QED
      BY <1>1, <2>1, GreatestKey
  <2> DEFINE T == {x \in S : key[x] = key[top]}
  <2>3. T \subseteq Nat /\ top \in T
    BY <1>1
  <2>4. Least(T) \in T /\ \A y \in T : Least(T) <= y
    <3> HIDE DEF T
    <3> QED
      BY <2>3, LeastFact
  <2>5. PICK x \in T : \A y \in T : x <= y
    BY <2>4
  <2>6. \A y \in S : key[x] > key[y] \/ (key[x] = key[y] /\ x <= y)
    <3> SUFFICES ASSUME NEW y \in S PROVE key[x] > key[y] \/ (key[x] = key[y] /\ x <= y)
      OBVIOUS
    <3>1. key[x] \in Nat /\ key[y] \in Nat /\ key[top] \in Nat
      BY <2>1, <2>5
    <3>2. key[x] = key[top] /\ key[top] >= key[y]
      BY <2>2, <2>5
    <3>3. key[x] = key[y] => x <= y
      BY <2>5, <3>2
    <3>4. key[x] > key[y] \/ key[x] = key[y]
      <4> HIDE DEF key, T
      <4>1. \A a, b, c \in Nat : a = b /\ b >= c => a > c \/ a = c
        OBVIOUS
      <4> QED
        BY <3>1, <3>2, <4>1
    <3> QED
      BY <3>3, <3>4
  <2>7. \E z \in S : \A y \in S :
          \/ msg[z + 1].prio > msg[y + 1].prio
          \/ msg[z + 1].prio = msg[y + 1].prio /\ z <= y
    BY <2>5, <2>6
  <2> DEFINE best == CHOOSE z \in S : \A y \in S :
                       \/ msg[z + 1].prio > msg[y + 1].prio
                       \/ msg[z + 1].prio = msg[y + 1].prio /\ z <= y
  <2>8. best \in S
    BY <2>7
  <2>9. Best("priority", S) = best
    BY Zenon DEF Best
  <2> QED
    BY <1>3, <2>8, <2>9
<1>4. CASE order # "lifo" /\ order # "priority"
  BY <1>1, <1>4, LeastFact DEF Best
<1> QED
  BY <1>2, <1>3, <1>4

\* A scan forward stops at an entry that is alive, and passes none.
LEMMA InOrderSafe ==
  ASSUME TypeInv, NEW st \in State, NEW G, Safe(st, G), NEW from \in 0..next,
         \A off \in Offsets : Expired(off) => off \in G,
         \A off \in Offsets : off < from => off \in G \cup Offs(st.table)
  PROVE  LET f == InOrder(from, st, {})
         IN /\ f.off \in Offsets \cup {-1} /\ f.pos \in 0..next /\ f.taken = st.taken
            /\ \A off \in Offsets : off < f.pos => off \in G \cup {f.off} \cup Offs(st.table)
<1> DEFINE live == {off \in Readable(from, st.lo, {}) : ~Expired(off)}
           stop == IF live = {} THEN Larger(from, next) ELSE Least(live)
           hit == live # {} /\ Due(stop)
           f == InOrder(from, st, {})
<1>1. next \in Nat /\ from \in Nat /\ from <= next /\ st.lo \in Nat
  BY DEF TypeInv, State
<1>2. /\ f.off = (IF hit THEN stop ELSE -1) /\ f.pos = (IF hit THEN stop + 1 ELSE stop)
      /\ f.taken = st.taken
  BY DEF InOrder
<1>3. live \subseteq Offsets /\ \A off \in live : from <= off
  BY <1>1 DEF Readable, Offsets
<1>4. ASSUME NEW off \in Offsets, off \notin live, from <= off PROVE off \in G
  <2>1. off < st.lo \/ Expired(off)
    BY <1>1, <1>4 DEF Readable, Offsets
  <2>2. off < st.lo => off \in G
    BY DEF Safe
  <2> QED
    BY <2>1, <2>2
<1>5. CASE live = {}
  <2>1. stop = next
    BY <1>1, <1>5 DEF Larger
  <2>2. f.off = -1 /\ f.pos = next
    BY <1>2, <1>5, <2>1
  <2> HIDE DEF live, f, stop, hit
  <2>3. ASSUME NEW off \in Offsets PROVE off \in G \cup Offs(st.table)
    <3>1. CASE off < from
      BY <3>1
    <3>2. CASE from <= off
      BY <1>4, <1>5, <3>2
    <3> QED
      BY <1>1, <3>1, <3>2 DEF Offsets
  <2> QED
    BY <1>1, <1>2, <2>2, <2>3 DEF f
<1>6. CASE live # {}
  <2>1. stop \in live /\ \A off \in live : stop <= off
    <3>1. live \subseteq Nat
      BY <1>1, <1>3 DEF Offsets
    <3>2. Least(live) \in live /\ \A off \in live : Least(live) <= off
      <4> HIDE DEF live
      <4> QED
        BY <1>6, <3>1, LeastFact
    <3> QED
      BY <1>6, <3>2
  <2>2. stop \in Offsets /\ stop \in Nat /\ from <= stop /\ stop < next
    BY <1>1, <1>3, <2>1 DEF Offsets
  <2> HIDE DEF live, f, stop
  <2>3. f.off \in {stop, -1} /\ f.pos \in {stop, stop + 1} /\ (f.pos = stop + 1 => f.off = stop)
    BY <1>2, <2>2
  <2>4. ASSUME NEW off \in Offsets, off < f.pos
        PROVE  off \in G \cup {f.off} \cup Offs(st.table)
    <3>1. CASE off < from
      BY <3>1
    <3>2. CASE from <= off /\ off < stop
      <4>1. off \notin live
        BY <1>1, <2>1, <2>2, <3>2 DEF Offsets
      <4> QED
        BY <1>4, <3>2, <4>1
    <3>3. CASE off = stop
      BY <2>2, <2>3, <2>4, <3>3
    <3> QED
      BY <1>1, <2>2, <2>3, <2>4, <3>1, <3>2, <3>3 DEF Offsets
  <2>5. f.pos \in 0..next
    BY <1>1, <2>2, <2>3
  <2> QED
    BY <1>2, <2>2, <2>3, <2>4, <2>5 DEF f
<1> QED
  BY <1>5, <1>6

\* A scan of the whole log consumes only what has expired.
LEMMA ScanSafe ==
  ASSUME TypeInv, NEW st \in State, NEW order
  PROVE  LET f == Scan(order, st, {})
         IN /\ f.off \in Offsets \cup {-1} /\ f.pos = st.pos
            /\ f.taken \in SUBSET Offsets
            /\ f = [off |-> f.off, pos |-> f.pos, taken |-> f.taken, bare |-> f.bare]
            /\ \A off \in f.taken : off \in st.taken \/ Expired(off)
<1> DEFINE taken == st.taken \cup {st.table[s].off : s \in DOMAIN st.table}
           fresh == Readable(st.pos, st.lo, {}) \ taken
           fit == {off \in fresh : ~Expired(off) /\ Due(off)}
           best == IF fit = {} THEN -1 ELSE Best(order, fit)
           dead == {off \in fresh : /\ Expired(off)
                                    /\ \/ best = -1 \/ order = "priority"
                                       \/ IF order = "lifo" THEN off > best ELSE off < best}
           f == Scan(order, st, {})
<1>1. /\ f.off = best /\ f.pos = st.pos /\ f.taken = st.taken \cup dead
      /\ f = [off |-> f.off, pos |-> f.pos, taken |-> f.taken, bare |-> f.bare]
  BY DEF Scan
<1>2. fresh \subseteq Offsets /\ st.taken \subseteq Offsets
  BY DEF Readable, Offsets, State, TypeInv
<1> HIDE DEF fresh
<1>3. best \in Offsets \cup {-1}
  <2>1. fit \subseteq Offsets
    BY <1>2
  <2>2. CASE fit = {}
    BY <2>2
  <2>3. CASE fit # {}
    <3>1. Best(order, fit) \in fit
      <4> HIDE DEF fit
      <4> QED
        BY <2>1, <2>3, BestFact
    <3> QED
      BY <2>1, <2>3, <3>1
  <2> QED
    BY <2>2, <2>3
<1> HIDE DEF best
<1>4. dead \subseteq Offsets /\ \A off \in dead : Expired(off)
  BY <1>2
<1> HIDE DEF dead, f
<1> QED
  BY <1>1, <1>2, <1>3, <1>4 DEF f

\* What a pop finds it takes: the read position passes nothing else, and
\* nothing else is consumed that has not expired.
LEMMA FoundSafe ==
  ASSUME TypeInv, NEW st \in State, NEW G, Safe(st, G),
         \A off \in Offsets : Expired(off) => off \in G,
         Policy = "stream" =>
           \A off \in Offsets : off < consumer_offset => off \in G \cup Offs(st.table)
  PROVE  LET found == Found(st, {})
             after == After(st, found)
         IN /\ found.off \in Offsets \cup {-1} /\ found.pos \in 0..next
            /\ after \in State /\ after.table = st.table /\ after.lo = st.lo
            /\ Safe(after, G \cup {found.off})
            /\ Policy = "stream" =>
                 \A off \in Offsets :
                   off < found.pos => off \in G \cup {found.off} \cup Offs(st.table)
<1> DEFINE found == Found(st, {})
           after == After(st, found)
<1>1. /\ next \in Nat /\ consumer_offset \in 0..next
      /\ st.pos \in 0..next /\ st.taken \in SUBSET Offsets /\ st.lo \in 0..next /\ st.table \in Tables
  BY DEF TypeInv, State
<1>2. /\ after.pos = (IF Policy = "stream" THEN st.pos ELSE found.pos)
      /\ after.taken = found.taken /\ after.lo = st.lo /\ after.table = st.table
      /\ after = [pos |-> after.pos, taken |-> after.taken, lo |-> after.lo, table |-> after.table]
  <2> DEFINE pos == IF Policy = "stream" THEN st.pos ELSE found.pos
             taken == found.taken
  <2>1. after = [st EXCEPT !.pos = pos, !.taken = taken]
    BY DEF After
  <2>2. st = [pos |-> st.pos, taken |-> st.taken, lo |-> st.lo, table |-> st.table]
    BY DEF State
  <2> HIDE DEF pos, taken, found, after
  <2>3. after = [pos |-> pos, taken |-> taken, lo |-> st.lo, table |-> st.table]
    BY <2>1, <2>2
  <2> QED
    BY <2>3 DEF pos, taken
<1> HIDE DEF after
<1>3. CASE Policy = "stream"
  <2>1. found = InOrder(consumer_offset, st, {})
    BY <1>3 DEF Found
  <2>2. /\ found.off \in Offsets \cup {-1} /\ found.pos \in 0..next /\ found.taken = st.taken
        /\ \A off \in Offsets :
             off < found.pos => off \in G \cup {found.off} \cup Offs(st.table)
    <3> HIDE DEF found
    <3> QED
      BY <1>1, <1>3, <2>1, InOrderSafe
  <2> HIDE DEF found
  <2>3. after \in State
    BY <1>1, <1>2, <1>3, <2>2 DEF State
  <2>4. Safe(after, G \cup {found.off})
    BY <1>2, <1>3, <2>2 DEF Safe
  <2> QED
    BY <1>2, <2>2, <2>3, <2>4 DEF found, after
<1>4. CASE Policy \in {"fifo", "ring"}
  <2>1. found = InOrder(st.pos, st, {}) /\ Policy # "stream"
    BY <1>4 DEF Found
  <2>2. \A off \in Offsets : off < st.pos => off \in G \cup Offs(st.table)
    BY DEF Safe
  <2>3. /\ found.off \in Offsets \cup {-1} /\ found.pos \in 0..next /\ found.taken = st.taken
        /\ \A off \in Offsets :
             off < found.pos => off \in G \cup {found.off} \cup Offs(st.table)
    <3> HIDE DEF found
    <3> QED
      BY <1>1, <2>1, <2>2, InOrderSafe
  <2> HIDE DEF found
  <2>4. after \in State
    BY <1>1, <1>2, <2>1, <2>3 DEF State
  <2>5. Safe(after, G \cup {found.off})
    BY <1>2, <2>1, <2>3 DEF Safe
  <2> QED
    BY <1>2, <2>1, <2>3, <2>4, <2>5 DEF found, after
<1>5. CASE Policy \notin {"stream", "fifo", "ring"}
  <2> DEFINE f == Scan(Policy, st, {})
  <2>1. /\ f.off \in Offsets \cup {-1} /\ f.pos = st.pos /\ f.taken \in SUBSET Offsets
        /\ \A off \in f.taken : off \in st.taken \/ Expired(off)
        /\ f = [off |-> f.off, pos |-> f.pos, taken |-> f.taken, bare |-> f.bare]
    BY ScanSafe
  <2>2. found = [f EXCEPT !.taken = IF f.off = -1 THEN @ ELSE @ \cup {f.off}]
    BY <1>5 DEF Found
  <2> HIDE DEF f, found
  <2>3. /\ found.off = f.off /\ found.pos = f.pos
        /\ found.taken = (IF f.off = -1 THEN f.taken ELSE f.taken \cup {f.off})
    BY <2>1, <2>2
  <2>4. found.taken \in SUBSET Offsets
    BY <2>1, <2>3
  <2>5. after \in State
    BY <1>1, <1>2, <1>5, <2>1, <2>3, <2>4 DEF State
  <2>6. \A off \in found.taken : off \in st.taken \/ Expired(off) \/ off = found.off
    BY <2>1, <2>3
  <2>7. Safe(after, G \cup {found.off})
    <3> SUFFICES ASSUME NEW off \in Offsets
                 PROVE  /\ off < st.lo => off \in G \cup {found.off}
                        /\ off < st.pos \/ off \in found.taken =>
                             off \in G \cup {found.off} \cup Offs(st.table)
      BY <1>2, <1>5, <2>1, <2>3 DEF Safe
    <3> QED
      BY <2>6 DEF Safe
  <2> QED
    BY <1>1, <1>2, <1>5, <2>1, <2>3, <2>5, <2>7 DEF found, after
<1> QED
  BY <1>3, <1>4, <1>5

-----------------------------------------------------------------------------
\* The table of deliveries in flight.

\* A record that is found again or shown again stays in flight.
LEMMA ShownSafe ==
  ASSUME NEW st \in State, NEW G, Safe(st, G), NEW s \in DOMAIN st.table, NEW b \in BOOLEAN
  PROVE  LET done == [st EXCEPT !.table[s].shown = b]
         IN /\ done \in State /\ Safe(done, G) /\ Offs(done.table) = Offs(st.table)
            /\ done.table = [st.table EXCEPT ![s].shown = b]
<1> DEFINE table == [st.table EXCEPT ![s].shown = b]
           done == [st EXCEPT !.table[s].shown = b]
<1>1. PICK D \in SUBSET Nat : st.table \in [D -> Entry] /\ IsFiniteSet(D)
  BY DEF State, Tables
<1>2. DOMAIN st.table = D /\ \A r \in D : st.table[r] \in Entry
  BY <1>1
<1>3. table \in [D -> Entry] /\ \A r \in D : table[r].off = st.table[r].off
  <2>1. /\ DOMAIN table = D /\ table = [r \in D |-> table[r]]
        /\ \A r \in D : table[r] = IF r = s THEN [st.table[s] EXCEPT !.shown = b] ELSE st.table[r]
    BY <1>1, <1>2
  <2> HIDE DEF table
  <2> QED
    BY <1>2, <2>1 DEF Entry
<1> HIDE DEF table
<1>4. table \in Tables
  BY <1>3, <1>1 DEF Tables
<1>5. Offs(table) = Offs(st.table)
  BY <1>2, <1>3 DEF Offs
<1>6. /\ done.pos = st.pos /\ done.taken = st.taken /\ done.lo = st.lo /\ done.table = table
      /\ done = [pos |-> done.pos, taken |-> done.taken, lo |-> done.lo, table |-> done.table]
  BY DEF State, table
<1> HIDE DEF done
<1>7. done \in State
  BY <1>4, <1>6 DEF State
<1>8. Safe(done, G)
  BY <1>5, <1>6 DEF Safe
<1> QED
  BY <1>5, <1>6, <1>7, <1>8 DEF done, table

\* Records of messages that may be forgotten may go.
LEMMA WithoutSafe ==
  ASSUME NEW slots, NEW G, Now \in State, Safe(Now, G),
         \A s \in DOMAIN active \cap slots : active[s].off \in G
  PROVE  LET st == [Now EXCEPT !.table = Without(slots)]
         IN /\ st \in State /\ Safe(st, G) /\ st.table = Without(slots)
            /\ ActiveOffs \subseteq G \cup Offs(st.table)
<1> DEFINE table == Without(slots)
           st == [Now EXCEPT !.table = table]
<1>1. active \in Tables
  BY DEF State, Now
<1>2. PICK D \in SUBSET Nat : active \in [D -> Entry] /\ IsFiniteSet(D)
  BY <1>1 DEF Tables
<1>3. table \in [D \ slots -> Entry] /\ \A s \in D \ slots : table[s] = active[s]
  BY <1>2 DEF Without
<1>4. IsFiniteSet(D \ slots)
  BY <1>2, FS_Difference
<1> HIDE DEF table
<1>5. table \in Tables
  BY <1>2, <1>3, <1>4 DEF Tables
<1>6. ActiveOffs \subseteq G \cup Offs(table)
  BY <1>2, <1>3 DEF ActiveOffs, Offs
<1>7. /\ st.pos = Now.pos /\ st.taken = Now.taken /\ st.lo = Now.lo /\ st.table = table
      /\ st = [pos |-> st.pos, taken |-> st.taken, lo |-> st.lo, table |-> st.table]
  BY DEF Now
<1>8. Offs(Now.table) = ActiveOffs
  BY DEF Offs, ActiveOffs, Now
<1> HIDE DEF st
<1>9. st \in State
  BY <1>5, <1>7 DEF State
<1>10. Safe(st, G)
  BY <1>6, <1>7, <1>8 DEF Safe
<1> QED
  BY <1>6, <1>7, <1>9, <1>10 DEF st, table

\* A new record takes a free slot: what was in flight stays in flight.
LEMMA WithRecordFact ==
  ASSUME NEW table \in Tables, NEW off \in Offsets
  PROVE  WithRecord(table, off) \in Tables /\ Offs(WithRecord(table, off)) = Offs(table) \cup {off}
<1> DEFINE n == Cardinality(DOMAIN table)
           F == 1..(n + 1) \ DOMAIN table
           new == FreeSlot(table)
           done == WithRecord(table, off)
<1>1. PICK D \in SUBSET Nat : table \in [D -> Entry] /\ IsFiniteSet(D)
  BY DEF Tables
<1>2. DOMAIN table = D /\ n \in Nat
  BY <1>1, FS_CardinalityType
<1>3. F # {}
  <2> SUFFICES ASSUME 1..(n + 1) \subseteq D PROVE FALSE
    BY <1>2
  <2>1. Cardinality(1..(n + 1)) = n + 1
    <3>1. 1 \in Int /\ n + 1 \in Int
      BY <1>2
    <3>2. Cardinality(1..(n + 1)) = IF 1 > n + 1 THEN 0 ELSE (n + 1) - 1 + 1
      BY <3>1, FS_Interval
    <3> HIDE DEF n
    <3> QED
      BY <1>2, <3>2
  <2>2. Cardinality(1..(n + 1)) <= n
    BY <1>1, <1>2, FS_Subset
  <2> QED
    BY <1>2, <2>1, <2>2
<1>4. F \subseteq Nat
  BY <1>2
<1>5. new \in F
  <2>1. Least(F) \in F
    <3> HIDE DEF F
    <3> QED
      BY <1>3, <1>4, LeastFact
  <2> QED
    BY <2>1 DEF FreeSlot
<1>6. new \in Nat /\ new \notin D
  BY <1>2, <1>4, <1>5
<1> HIDE DEF new, F, n
<1>7. /\ DOMAIN done = D \cup {new}
      /\ done \in [D \cup {new} -> Entry]
      /\ done[new].off = off /\ \A s \in D : done[s] = table[s]
  <2>1. done = [s \in D \cup {new} |-> IF s \in D THEN table[s] ELSE [off |-> off, shown |-> FALSE]]
    BY <1>2 DEF WithRecord, new
  <2> HIDE DEF done
  <2> QED
    BY <1>1, <1>6, <2>1 DEF Entry
<1>8. IsFiniteSet(D \cup {new})
  BY <1>1, FS_AddElement
<1> HIDE DEF done
<1>9. done \in Tables
  BY <1>6, <1>7, <1>8 DEF Tables
<1>10. Offs(done) = Offs(table) \cup {off}
  <2>1. ASSUME NEW x \in Offs(table) PROVE x \in Offs(done)
    <3>1. PICK s \in D : x = table[s].off
      BY <1>2 DEF Offs
    <3> QED
      BY <1>7, <3>1 DEF Offs
  <2>2. ASSUME NEW x \in Offs(done) PROVE x \in Offs(table) \cup {off}
    <3>1. PICK s \in D \cup {new} : x = done[s].off
      BY <1>7 DEF Offs
    <3> QED
      BY <1>2, <1>7, <3>1 DEF Offs
  <2>3. off \in Offs(done)
    BY <1>7 DEF Offs
  <2> QED
    BY <2>1, <2>2, <2>3
<1> QED
  BY <1>9, <1>10 DEF done

-----------------------------------------------------------------------------
\* The invariant.

\* A call that adds nothing to the log keeps the invariant if it leaves a safe
\* state behind and forgets nothing it knew was gone.
LEMMA CallKeeps ==
  ASSUME IInv, NEW st \in State, Becomes(st), UNCHANGED <<opts, next, saved, msg>>,
         forsaken' \in Nat, consumer_offset' \in 0..next,
         Gone \subseteq Gone', Safe(st, Gone'),
         Policy = "stream" =>
           \A off \in Offsets : off < consumer_offset' => off \in Gone' \cup Offs(st.table)
  PROVE  IInv'
<1>1. Now' = st /\ Offsets' = Offsets /\ Policy' = Policy
  BY DEF Becomes, Now, State, Offsets, Policy
<1>2. ActiveOffs' = Offs(st.table)
  BY DEF Becomes, ActiveOffs, Offs
<1>3. TypeInv'
  <2>1. State' = State
    BY <1>1 DEF State, Tables, Entry
  <2> QED
    BY <1>1, <2>1 DEF IInv, TypeInv
<1>4. Safe(Now, Gone)'
  BY <1>1 DEF Safe
<1>5. StreamSafe'
  BY <1>1, <1>2 DEF StreamSafe
<1>6. SavedSafe'
  BY <1>1 DEF IInv, SavedSafe
<1> QED
  BY <1>3, <1>4, <1>5, <1>6 DEF IInv

\* A step of the log's histories forgets nothing.
LEMMA GoneGrows ==
  ASSUME IInv, UNCHANGED <<opts, next, msg>>, elapsed \subseteq elapsed',
         acked \subseteq acked', handed \subseteq handed', forsaken' \in Nat, forsaken <= forsaken'
  PROVE  Gone \subseteq Gone'
<1> SUFFICES ASSUME NEW off \in Gone PROVE off \in Gone'
  OBVIOUS
<1>1. off \in Offsets' /\ off \in Nat /\ forsaken \in Nat
  BY DEF Gone, Offsets, IInv, TypeInv
<1>2. off \in Settled => off \in Settled'
  BY DEF Settled, AtLeastOnce
<1>3. Expired(off) => Expired(off)'
  BY DEF Expired, Kind
<1>4. off < forsaken => off < forsaken'
  BY <1>1
<1> QED
  BY <1>1, <1>2, <1>3, <1>4 DEF Gone

\* What redelivery drops on its way may go.
LEMMA DroppedSafe ==
  ASSUME IInv, NEW slots \in SUBSET Spoilt({})
  PROVE  /\ Dropped(slots) \in State /\ Safe(Dropped(slots), Gone)
         /\ Dropped(slots).table = Without(slots)
         /\ ActiveOffs \subseteq Gone \cup Offs(Dropped(slots).table)
<1>0. Now \in State /\ Safe(Now, Gone) /\ next \in Nat /\ active \in Tables /\ start \in 0..next
  BY DEF IInv, TypeInv, State, Now
<1>1. ASSUME NEW s \in DOMAIN active \cap slots PROVE active[s].off \in Gone
  <2>1. active[s].off \in Offsets
    BY <1>0 DEF Tables, Entry
  <2>2. Expired(active[s].off) \/ active[s].off < start
    BY <1>0, <2>1 DEF Spoilt, Readable, Offsets
  <2>3. active[s].off < start => active[s].off \in Gone
    BY <1>0, <2>1 DEF Safe, Now
  <2> QED
    BY <2>1, <2>2, <2>3 DEF Gone
<1> DEFINE st == [Now EXCEPT !.table = Without(slots)]
<1>2. st \in State /\ Safe(st, Gone) /\ st.table = Without(slots)
      /\ ActiveOffs \subseteq Gone \cup Offs(st.table)
  BY <1>0, <1>1, WithoutSafe
<1>3. /\ Compacted(st, FALSE) \in State /\ Compacted(st, FALSE).table = st.table
      /\ Safe(Compacted(st, FALSE), Gone)
  <2> HIDE DEF st
  <2> QED
    BY <1>0, <1>2, CompactedSafe
<1>4. CASE slots = {}
  <2>1. Dropped(slots) = Now /\ Now.table = active
    BY <1>4 DEF Dropped, Now
  <2>2. Without(slots) = active
    BY <1>0, <1>4 DEF Without, Tables
  <2>3. Offs(active) = ActiveOffs
    BY DEF Offs, ActiveOffs
  <2> QED
    BY <1>0, <2>1, <2>2, <2>3
<1>5. CASE slots # {}
  <2>1. Dropped(slots) = Compacted(st, FALSE)
    BY <1>5 DEF Dropped
  <2> HIDE DEF st
  <2> QED
    BY <1>2, <1>3, <2>1
<1> QED
  BY <1>4, <1>5

\* The initial state.
LEMMA InitInv == Init => IInv
<1> SUFFICES ASSUME Init PROVE IInv
  OBVIOUS
<1>1. next = 0 /\ Offsets = {}
  BY DEF Init, Offsets
<1>2. active \in [{} -> Entry] /\ IsFiniteSet({})
  BY FS_EmptySet DEF Init
<1>3. active \in Tables
  <2>1. DOMAIN active = {} /\ {} \in SUBSET Nat
    BY <1>2
  <2> QED
    BY <1>2, <2>1 DEF Tables
<1>4. Now \in State
  BY <1>1, <1>3 DEF Init, Now, State
<1>5. TypeInv
  <2>1. opts \in Scenario
    BY DeliveryAssumption DEF Init, DeliveryAssumption
  <2>2. msg \in Seq([kind : Kinds, prio : Nat]) /\ Len(msg) = next
    BY DEF Init
  <2> QED
    BY <1>1, <1>4, <2>1, <2>2 DEF Init, TypeInv
<1> QED
  BY <1>1, <1>5 DEF IInv, Safe, StreamSafe, SavedSafe

\* emq_prim_pop when it finds something visible again.
LEMMA RedeliverInv ==
  ASSUME IInv, Redeliver({}) PROVE IInv'
<1>1. PICK s \in DOMAIN active \ Spoilt({}), slots \in SUBSET Spoilt({}) :
        /\ Becomes([Dropped(slots) EXCEPT !.table[s].shown = FALSE])
        /\ handed' = handed \cup {active[s].off}
  BY DEF Redeliver
<1>2. UNCHANGED <<opts, next, saved, msg, elapsed, consumer_offset, acked, forsaken>>
  BY DEF Redeliver
<1> DEFINE st == Dropped(slots)
           done == [st EXCEPT !.table[s].shown = FALSE]
<1>3. /\ st \in State /\ Safe(st, Gone) /\ st.table = Without(slots)
      /\ ActiveOffs \subseteq Gone \cup Offs(st.table)
  BY DroppedSafe
<1>4. s \in DOMAIN st.table
  BY <1>1, <1>3 DEF Without
<1> HIDE DEF st
<1>5. done \in State /\ Safe(done, Gone) /\ Offs(done.table) = Offs(st.table)
  BY <1>3, <1>4, ShownSafe
<1>6. Becomes(done)
  BY <1>1 DEF st
<1>7. forsaken \in Nat /\ consumer_offset \in 0..next
  BY DEF IInv, TypeInv
<1>8. Gone \subseteq Gone'
  BY <1>1, <1>2, <1>7, GoneGrows
<1> HIDE DEF done
<1>9. Safe(done, Gone')
  BY <1>5, <1>8 DEF Safe
<1>10. Policy = "stream" =>
         \A off \in Offsets : off < consumer_offset' => off \in Gone' \cup Offs(done.table)
  BY <1>2, <1>3, <1>5, <1>8 DEF IInv, StreamSafe
<1> QED
  BY <1>2, <1>5, <1>6, <1>7, <1>8, <1>9, <1>10, CallKeeps

\* emq_prim_pop when it looks for something new.  At least once, what it takes
\* is put in flight and nothing is trimmed meanwhile; at most once, the caller
\* has it.
LEMMA PopNewInv ==
  ASSUME IInv, PopNew({}, TRUE) PROVE IInv'
<1> DEFINE st == Dropped(IF AtLeastOnce THEN Spoilt({}) ELSE {})
           found == Found(st, {})
           after == After(st, found)
<1>1. UNCHANGED <<opts, next, saved, msg, elapsed, acked, forsaken>>
  BY DEF PopNew
<1>2. consumer_offset' = IF Policy = "stream" THEN found.pos ELSE consumer_offset
  BY DEF PopNew
<1>3. \/ /\ found.off # -1
         /\ Becomes([Compacted(after, AtLeastOnce) EXCEPT !.table =
                       IF AtLeastOnce THEN WithRecord(@, found.off) ELSE @])
         /\ handed' = handed \cup {found.off}
      \/ /\ found.off = -1
         /\ Becomes(IF found.bare /\ ~AtLeastOnce THEN after ELSE Compacted(after, FALSE))
         /\ UNCHANGED handed
  BY DEF PopNew
<1>4. /\ next \in Nat /\ forsaken \in Nat /\ consumer_offset \in 0..next /\ TypeInv
      /\ AtLeastOnce \in BOOLEAN
  BY DEF IInv, TypeInv, AtLeastOnce, Scenario
<1>5. st \in State /\ Safe(st, Gone) /\ ActiveOffs \subseteq Gone \cup Offs(st.table)
  BY DroppedSafe
<1>6. \A off \in Offsets : Expired(off) => off \in Gone
  BY DEF Gone
<1>7. Policy = "stream" =>
        \A off \in Offsets : off < consumer_offset => off \in Gone \cup Offs(st.table)
  BY <1>5 DEF IInv, StreamSafe
<1> HIDE DEF st
<1>8. /\ found.off \in Offsets \cup {-1} /\ found.pos \in 0..next
      /\ after \in State /\ after.table = st.table /\ after.lo = st.lo
      /\ Safe(after, Gone \cup {found.off})
      /\ Policy = "stream" =>
           \A off \in Offsets :
             off < found.pos => off \in Gone \cup {found.off} \cup Offs(st.table)
  BY <1>4, <1>5, <1>6, <1>7, FoundSafe
<1>9. \A off \in Offsets : off < st.lo => off \in Gone
  BY <1>5 DEF Safe
<1> HIDE DEF after, found
<1>10. consumer_offset' \in 0..next
  BY <1>2, <1>4, <1>8
<1>11. Gone \subseteq Gone'
  <2>1. handed \subseteq handed'
    BY <1>3
  <2>2. forsaken <= forsaken'
    BY <1>1, <1>4
  <2> QED
    BY <1>1, <1>4, <2>1, <2>2, GoneGrows
<1>12. Policy = "stream" =>
         \A off \in Offsets :
           off < consumer_offset' => off \in Gone' \cup {found.off} \cup Offs(st.table)
  BY <1>2, <1>8, <1>11
<1>13. \A flag \in BOOLEAN :
         /\ Compacted(after, flag) \in State /\ Compacted(after, flag).table = st.table
         /\ flag => Compacted(after, flag).lo = st.lo
         /\ Safe(Compacted(after, flag), Gone \cup {found.off})
  BY <1>4, <1>8, CompactedSafe
<1>14. CASE found.off # -1 /\ AtLeastOnce
  <2> DEFINE done == Compacted(after, TRUE)
             last == [done EXCEPT !.table = WithRecord(@, found.off)]
  <2>1. Becomes(last)
    BY <1>3, <1>14
  <2>2. done \in State /\ done.table = st.table /\ done.lo = st.lo /\ Safe(done, Gone \cup {found.off})
    BY <1>13
  <2> HIDE DEF done
  <2>3. /\ WithRecord(done.table, found.off) \in Tables
        /\ Offs(WithRecord(done.table, found.off)) = Offs(done.table) \cup {found.off}
    BY <1>8, <1>14, <2>2, WithRecordFact DEF State
  <2>4. /\ last.pos = done.pos /\ last.taken = done.taken /\ last.lo = done.lo
        /\ last.table = WithRecord(done.table, found.off)
        /\ last = [pos |-> last.pos, taken |-> last.taken, lo |-> last.lo, table |-> last.table]
    BY <2>2 DEF State
  <2> HIDE DEF last
  <2>5. last \in State
    BY <2>2, <2>3, <2>4 DEF State
  <2>6. Safe(last, Gone')
    BY <1>9, <1>11, <2>2, <2>3, <2>4 DEF Safe
  <2>7. Policy = "stream" =>
          \A off \in Offsets : off < consumer_offset' => off \in Gone' \cup Offs(last.table)
    BY <1>12, <2>2, <2>3, <2>4
  <2> QED
    BY <1>1, <1>4, <1>10, <1>11, <2>1, <2>5, <2>6, <2>7, CallKeeps
<1>15. CASE found.off # -1 /\ ~AtLeastOnce
  <2> DEFINE done == Compacted(after, FALSE)
  <2>1. done \in State /\ done.table = st.table /\ Safe(done, Gone \cup {found.off})
    BY <1>13
  <2>2. Becomes(done)
    <3>1. AtLeastOnce = FALSE
      BY <1>4, <1>15
    <3>2. Becomes([done EXCEPT !.table = IF FALSE THEN WithRecord(@, found.off) ELSE @])
      BY <1>3, <1>15, <3>1
    <3> HIDE DEF done
    <3>3. [done EXCEPT !.table = IF FALSE THEN WithRecord(@, found.off) ELSE @] = done
      BY <2>1 DEF State
    <3> QED
      BY <3>2, <3>3
  <2> HIDE DEF done
  <2>3. found.off \in Gone'
    <3>1. found.off \in Settled'
      BY <1>1, <1>3, <1>15 DEF Settled, AtLeastOnce
    <3> QED
      BY <1>1, <1>8, <1>15, <3>1 DEF Gone, Offsets
  <2>4. Safe(done, Gone')
    BY <1>11, <2>1, <2>3 DEF Safe
  <2>5. Policy = "stream" =>
          \A off \in Offsets : off < consumer_offset' => off \in Gone' \cup Offs(done.table)
    BY <1>12, <2>1, <2>3
  <2> QED
    BY <1>1, <1>4, <1>10, <1>11, <2>1, <2>2, <2>4, <2>5, CallKeeps
<1>16. CASE found.off = -1
  <2>1. PICK done \in {after, Compacted(after, FALSE)} : Becomes(done)
    BY <1>3, <1>16
  <2>2. done \in State /\ done.table = st.table /\ Safe(done, Gone \cup {-1})
    BY <1>8, <1>13, <1>16, <2>1
  <2>3. -1 \notin Offsets
    BY <1>4 DEF Offsets
  <2>4. Safe(done, Gone')
    BY <1>11, <2>2, <2>3 DEF Safe
  <2>5. Policy = "stream" =>
          \A off \in Offsets : off < consumer_offset' => off \in Gone' \cup Offs(done.table)
    BY <1>12, <1>16, <2>2, <2>3
  <2> QED
    BY <1>1, <1>4, <1>10, <1>11, <2>1, <2>2, <2>4, <2>5, CallKeeps
<1> QED
  BY <1>14, <1>15, <1>16

\* A pop, when entries can be read and the caller's buffer is big enough.
LEMMA PopInv ==
  ASSUME Sound, IInv, Pop PROVE IInv'
<1>1. Redeliver({}) \/ PopNew({}, TRUE)
  BY DEF Sound, Pop, Unread
<1> QED
  BY <1>1, RedeliverInv, PopNewInv

\* emq_peek consumes the expired entries it passes.
LEMMA PeekInv ==
  ASSUME Sound, IInv, Peek PROVE IInv'
<1> DEFINE f == Scan("first", Now, {})
           after == After(Now, f)
           done == Compacted(after, FALSE)
<1>1. Becomes(done)
  BY DEF Sound, Peek, Unread
<1>2. UNCHANGED <<opts, next, saved, msg, elapsed, consumer_offset, handed, acked, forsaken>>
  BY DEF Peek, histVars
<1>3. /\ Now \in State /\ Safe(Now, Gone) /\ TypeInv /\ next \in Nat
      /\ forsaken \in Nat /\ consumer_offset \in 0..next
  BY DEF IInv, TypeInv
<1>4. /\ f.pos = read_offset /\ f.taken \in SUBSET Offsets
      /\ \A off \in f.taken : off \in consumed \/ Expired(off)
  <2>1. Now.pos = read_offset /\ Now.taken = consumed
    BY DEF Now
  <2> QED
    BY <1>3, <2>1, ScanSafe
<1> HIDE DEF f
<1>5. after = [pos |-> read_offset, taken |-> f.taken, lo |-> start, table |-> active]
  <2> DEFINE pos == IF Policy = "stream" THEN Now.pos ELSE f.pos
  <2>1. after = [Now EXCEPT !.pos = pos, !.taken = f.taken]
    BY DEF After
  <2>2. pos = read_offset
    BY <1>4 DEF Now
  <2> HIDE DEF pos, after
  <2> QED
    BY <2>1, <2>2 DEF Now
<1>6. after \in State
  BY <1>3, <1>4, <1>5 DEF State, Now
<1>7. Safe(after, Gone)
  <2> SUFFICES ASSUME NEW off \in Offsets
               PROVE  /\ off < start => off \in Gone
                      /\ off < read_offset \/ off \in f.taken => off \in Gone \cup Offs(active)
    BY <1>5 DEF Safe
  <2>1. /\ off < start => off \in Gone
        /\ off < read_offset \/ off \in consumed => off \in Gone \cup Offs(active)
    BY <1>3 DEF Safe, Now
  <2>2. Expired(off) => off \in Gone
    BY DEF Gone
  <2> QED
    BY <1>4, <2>1, <2>2
<1> HIDE DEF after
<1>8. done \in State /\ done.table = active /\ Safe(done, Gone)
  BY <1>3, <1>5, <1>6, <1>7, CompactedSafe
<1> HIDE DEF done
<1>9. Gone \subseteq Gone'
  BY <1>2, <1>3, GoneGrows
<1>10. Safe(done, Gone')
  BY <1>8, <1>9 DEF Safe
<1>11. Policy = "stream" =>
         \A off \in Offsets : off < consumer_offset' => off \in Gone' \cup Offs(done.table)
  BY <1>2, <1>8, <1>9 DEF IInv, StreamSafe, Offs, ActiveOffs
<1> QED
  BY <1>1, <1>2, <1>3, <1>8, <1>9, <1>10, <1>11, CallKeeps

\* emq_ack and emq_ack_batch, when message ids differ: the records that go are
\* of the messages acknowledged.
LEMMA AckInv ==
  ASSUME Sound, IInv, NEW offs, Ack(offs) PROVE IInv'
<1>1. PICK slots \in SUBSET DOMAIN active :
        /\ {Id(active[s].off) : s \in slots} = {Id(off) : off \in offs}
        /\ Becomes(Compacted([Now EXCEPT !.table = Without(slots)], FALSE))
  BY DEF Ack
<1>2. /\ offs \subseteq handed /\ acked' = acked \cup offs
      /\ UNCHANGED <<opts, next, saved, msg, elapsed, consumer_offset, handed, forsaken>>
  BY DEF Ack
<1>3. /\ Now \in State /\ Safe(Now, Gone) /\ next \in Nat /\ active \in Tables
      /\ forsaken \in Nat /\ consumer_offset \in 0..next
  BY DEF IInv, TypeInv, State, Now
<1>4. ASSUME NEW s \in DOMAIN active \cap slots PROVE active[s].off \in Gone'
  <2>1. active[s].off \in offs
    <3>1. Id(active[s].off) \in {Id(off) : off \in offs}
      BY <1>1
    <3> QED
      BY <3>1 DEF Id, Sound
  <2>2. active[s].off \in Settled'
    BY <1>2, <2>1 DEF Settled
  <2>3. PICK D \in SUBSET Nat : active \in [D -> Entry]
    BY <1>3 DEF Tables
  <2>4. active[s].off \in Offsets /\ Offsets' = Offsets
    BY <1>2, <2>3 DEF Entry, Offsets
  <2> QED
    BY <2>2, <2>4 DEF Gone
<1>5. Gone \subseteq Gone'
  <2>1. forsaken <= forsaken' /\ forsaken' \in Nat
    BY <1>2, <1>3
  <2> QED
    BY <1>2, <2>1, GoneGrows
<1>6. Safe(Now, Gone')
  BY <1>3, <1>5 DEF Safe
<1> DEFINE st == [Now EXCEPT !.table = Without(slots)]
           done == Compacted(st, FALSE)
<1>7. st \in State /\ Safe(st, Gone') /\ ActiveOffs \subseteq Gone' \cup Offs(st.table)
  BY <1>3, <1>4, <1>6, WithoutSafe
<1>8. Becomes(done)
  BY <1>1
<1> HIDE DEF st
<1>9. done \in State /\ done.table = st.table /\ Safe(done, Gone')
  BY <1>3, <1>7, CompactedSafe
<1> HIDE DEF done
<1>10. Policy = "stream" =>
         \A off \in Offsets : off < consumer_offset' => off \in Gone' \cup Offs(done.table)
  BY <1>2, <1>5, <1>7, <1>9 DEF IInv, StreamSafe
<1> QED
  BY <1>2, <1>3, <1>5, <1>8, <1>9, <1>10, CallKeeps

\* emq_nack, and a visibility timeout: the record stays in flight.
LEMMA ShowInv ==
  ASSUME IInv, NEW s \in DOMAIN active, NEW b \in BOOLEAN,
         active' = [active EXCEPT ![s].shown = b],
         UNCHANGED <<opts, logVars, elapsed, posVars, consumed, histVars>>
  PROVE  IInv'
<1> DEFINE done == [Now EXCEPT !.table[s].shown = b]
<1>1. UNCHANGED <<opts, start, next, saved, msg, elapsed, read_offset, consumer_offset,
                  consumed, handed, acked, forsaken>>
  BY DEF logVars, posVars, histVars
<1>2. /\ Now \in State /\ Safe(Now, Gone) /\ forsaken \in Nat /\ consumer_offset \in 0..next
      /\ s \in DOMAIN Now.table /\ Offs(Now.table) = ActiveOffs
  BY DEF IInv, TypeInv, Now, Offs, ActiveOffs
<1>3. /\ done \in State /\ Safe(done, Gone) /\ Offs(done.table) = ActiveOffs
      /\ done.table = [active EXCEPT ![s].shown = b]
  <2>1. /\ done \in State /\ Safe(done, Gone) /\ Offs(done.table) = Offs(Now.table)
        /\ done.table = [Now.table EXCEPT ![s].shown = b]
    BY <1>2, ShownSafe, SMTT(30)
  <2>2. Now.table = active
    BY DEF Now
  <2> QED
    BY <1>2, <2>1, <2>2
<1>4. Becomes(done)
  <2>1. done.pos = read_offset /\ done.taken = consumed /\ done.lo = start
    BY DEF Now
  <2> QED
    BY <1>1, <1>3, <2>1 DEF Becomes
<1> HIDE DEF done
<1>5. Gone \subseteq Gone'
  <2>1. forsaken <= forsaken' /\ forsaken' \in Nat
    BY <1>1, <1>2
  <2> QED
    BY <1>1, <2>1, GoneGrows
<1>6. Safe(done, Gone')
  BY <1>3, <1>5 DEF Safe
<1>7. Policy = "stream" =>
        \A off \in Offsets : off < consumer_offset' => off \in Gone' \cup Offs(done.table)
  BY <1>1, <1>3, <1>5 DEF IInv, StreamSafe
<1> QED
  BY <1>1, <1>2, <1>3, <1>4, <1>5, <1>6, <1>7, CallKeeps

\* A time to live runs out, or a delivery time comes.
LEMMA ElapseInv ==
  ASSUME IInv, NEW off \in Offsets, Elapse(off) PROVE IInv'
<1>1. /\ elapsed \subseteq elapsed'
      /\ UNCHANGED <<opts, start, next, saved, msg, read_offset, consumer_offset, active,
                     consumed, handed, acked, forsaken>>
  BY DEF Elapse, logVars, posVars, histVars
<1>2. /\ Now \in State /\ Safe(Now, Gone) /\ forsaken \in Nat /\ consumer_offset \in 0..next
      /\ Offs(Now.table) = ActiveOffs
  BY DEF IInv, TypeInv, Now, Offs, ActiveOffs
<1>3. Becomes(Now)
  BY <1>1 DEF Becomes, Now
<1>4. Gone \subseteq Gone'
  <2>1. forsaken <= forsaken' /\ forsaken' \in Nat
    BY <1>1, <1>2
  <2> QED
    BY <1>1, <2>1, GoneGrows
<1>5. Safe(Now, Gone')
  BY <1>2, <1>4 DEF Safe
<1>6. Policy = "stream" =>
        \A x \in Offsets : x < consumer_offset' => x \in Gone' \cup Offs(Now.table)
  BY <1>1, <1>2, <1>4 DEF IInv, StreamSafe
<1> QED
  BY <1>1, <1>2, <1>3, <1>4, <1>5, <1>6, CallKeeps

\* emq_seek forsakes what it passes over.
LEMMA SeekInv ==
  ASSUME IInv, NEW off \in 0..next, Seek(off) PROVE IInv'
<1> DEFINE st == [Now EXCEPT !.pos = off]
<1>1. /\ read_offset' = off /\ consumer_offset' = off /\ forsaken' = Larger(forsaken, off)
      /\ UNCHANGED <<opts, start, next, saved, msg, elapsed, active, consumed, handed, acked>>
  BY DEF Seek, logVars
<1>2. /\ Now \in State /\ Safe(Now, Gone) /\ forsaken \in Nat /\ next \in Nat
      /\ Now = [pos |-> read_offset, taken |-> consumed, lo |-> start, table |-> active]
  BY DEF IInv, TypeInv, Now
<1>3. st = [pos |-> off, taken |-> consumed, lo |-> start, table |-> active]
  BY <1>2
<1>4. st \in State
  BY <1>2, <1>3 DEF State
<1>5. Becomes(st)
  BY <1>1, <1>3 DEF Becomes
<1>6. forsaken' \in Nat /\ forsaken <= forsaken' /\ off <= forsaken'
  BY <1>1, <1>2 DEF Larger
<1>7. Gone \subseteq Gone'
  BY <1>1, <1>6, GoneGrows
<1>8. \A x \in Offsets : x < off => x \in Gone'
  BY <1>1, <1>2, <1>6 DEF Gone, Offsets
<1>9. Safe(st, Gone')
  BY <1>2, <1>3, <1>7, <1>8 DEF Safe
<1> HIDE DEF st
<1>10. consumer_offset' \in 0..next
  BY <1>1
<1>11. Policy = "stream" =>
         \A x \in Offsets : x < consumer_offset' => x \in Gone' \cup Offs(st.table)
  BY <1>1, <1>8
<1> QED
  BY <1>1, <1>4, <1>5, <1>6, <1>7, <1>9, <1>10, <1>11, CallKeeps

\* emq_queue_snapshot saves a trim offset below which all is gone.
LEMMA SnapshotInv ==
  ASSUME IInv, Snapshot PROVE IInv'
<1>1. /\ saved' = start
      /\ UNCHANGED <<opts, start, next, msg, elapsed, read_offset, consumer_offset, active,
                     consumed, handed, acked, forsaken>>
  BY DEF Snapshot, posVars, histVars
<1>2. Gone' = Gone /\ Offsets' = Offsets /\ Now' = Now /\ State' = State /\ ActiveOffs' = ActiveOffs
  BY <1>1 DEF Gone, Settled, AtLeastOnce, Expired, Kind, Offsets, Now, State, Tables, Entry, ActiveOffs
<1>3. start \in 0..next /\ \A off \in Offsets : off < start => off \in Gone
  BY DEF IInv, TypeInv, Now, State, Safe
<1>4. TypeInv'
  BY <1>1, <1>2, <1>3 DEF IInv, TypeInv
<1>5. Safe(Now, Gone)'
  BY <1>2 DEF IInv, Safe
<1>6. StreamSafe'
  BY <1>1, <1>2 DEF IInv, StreamSafe, Policy
<1>7. SavedSafe'
  BY <1>1, <1>2, <1>3 DEF SavedSafe
<1> QED
  BY <1>4, <1>5, <1>6, <1>7 DEF IInv

\* After a restart the queue starts over from the saved trim offset: what was
\* acknowledged past it will be delivered again.
LEMMA RestartInv ==
  ASSUME IInv, Restart PROVE IInv'
<1>1. /\ start' = saved /\ read_offset' = 0 /\ consumer_offset' = 0
      /\ active' = Without(DOMAIN active) /\ consumed' = {}
      /\ handed' = {off \in handed : off < saved} /\ acked' = {off \in acked : off < saved}
      /\ UNCHANGED <<opts, next, saved, msg, elapsed, forsaken>>
  BY DEF Restart
<1>2. next \in Nat /\ saved \in 0..next /\ Offsets' = Offsets
  BY <1>1 DEF IInv, TypeInv, Offsets
<1>3. ASSUME NEW off \in Offsets, off < saved PROVE off \in Gone'
  <2>1. off \in Gone
    BY <1>3 DEF IInv, SavedSafe
  <2>2. off \in Settled => off \in Settled'
    BY <1>1, <1>3 DEF Settled, AtLeastOnce
  <2>3. Expired(off) => Expired(off)'
    BY <1>1 DEF Expired, Kind
  <2> QED
    BY <1>1, <1>2, <2>1, <2>2, <2>3 DEF Gone
<1>4. active' \in Tables
  <2>1. active' \in [{} -> Entry] /\ DOMAIN active' = {}
    BY <1>1 DEF Without
  <2>2. IsFiniteSet({}) /\ {} \in SUBSET Nat
    BY FS_EmptySet
  <2> QED
    BY <2>1, <2>2 DEF Tables
<1>5. Now' \in State
  BY <1>1, <1>2, <1>4 DEF Now, State
<1>6. TypeInv'
  <2>1. State' = State
    BY <1>1, <1>2 DEF State, Tables, Entry
  <2> QED
    BY <1>1, <1>2, <1>5, <2>1 DEF IInv, TypeInv
<1>7. Safe(Now, Gone)'
  BY <1>1, <1>2, <1>3 DEF Safe, Now, Offsets
<1>8. StreamSafe'
  BY <1>1, <1>2 DEF StreamSafe, Offsets
<1>9. SavedSafe'
  BY <1>1, <1>2, <1>3 DEF SavedSafe
<1> QED
  BY <1>6, <1>7, <1>8, <1>9 DEF IInv

\* A push adds an entry at the end, which nothing has passed yet.  A ring may
\* overwrite its oldest entry: what it gives up is forsaken.
LEMMA PushInv ==
  ASSUME IInv, NEW kind \in opts.kinds, NEW prio \in opts.prios, Push(kind, prio) PROVE IInv'
<1> DEFINE full == Policy = "ring" /\ next - start >= RingSize
           first == IF full THEN start + 1 ELSE start
           entry == [kind |-> kind, prio |-> prio]
<1>1. /\ start' = first /\ next' = next + 1 /\ msg' = Append(msg, entry)
      /\ UNCHANGED <<opts, saved, elapsed, handed, acked>>
  BY DEF Push
<1>2. /\ opts \in Scenario /\ next \in Nat /\ start \in 0..next /\ forsaken \in Nat
      /\ read_offset \in 0..next /\ consumer_offset \in 0..next /\ saved \in 0..next
      /\ consumed \subseteq Offsets /\ active \in Tables
      /\ msg \in Seq([kind : Kinds, prio : Nat]) /\ Len(msg) = next
  BY DEF IInv, TypeInv, Now, State
<1>3. PICK D \in SUBSET Nat : active \in [D -> Entry] /\ IsFiniteSet(D)
  BY <1>2 DEF Tables
<1>4. first \in 0..next' /\ start <= first /\ (first = start \/ (full /\ first = start + 1))
  <2>1. full => start < next
    BY <1>2, DeliveryAssumption DEF DeliveryAssumption
  <2> QED
    BY <1>1, <1>2, <2>1
<1>5. /\ msg' \in Seq([kind : Kinds, prio : Nat]) /\ Len(msg') = next'
      /\ \A off \in Offsets : msg'[off + 1] = msg[off + 1]
  <2>1. kind \in Kinds /\ prio \in Nat
    BY <1>2 DEF Scenario, Kinds
  <2>2. entry \in [kind : Kinds, prio : Nat]
    BY <2>1
  <2> HIDE DEF entry
  <2>3. msg' \in Seq([kind : Kinds, prio : Nat]) /\ Len(msg') = next'
    BY <1>1, <1>2, <2>2
  <2>4. ASSUME NEW off \in Offsets PROVE msg'[off + 1] = msg[off + 1]
    <3>1. off + 1 \in 1..Len(msg)
      BY <1>2 DEF Offsets
    <3> QED
      BY <1>1, <1>2, <2>2, <3>1
  <2> QED
    BY <2>3, <2>4
<1>6. /\ Offsets \subseteq Offsets' /\ Offsets' = Offsets \cup {next} /\ next \notin Offsets
      /\ Offsets \subseteq Nat
  BY <1>1, <1>2 DEF Offsets
<1> HIDE DEF entry
<1>7. /\ forsaken' \in Nat /\ forsaken <= forsaken'
      /\ first = start \/ first <= forsaken'
  <2>1. CASE Policy = "ring"
    <3>1. forsaken' = IF full THEN Larger(forsaken, first) ELSE forsaken
      BY <2>1 DEF Push
    <3> QED
      BY <1>2, <1>4, <3>1 DEF Larger
  <2>2. CASE Policy # "ring"
    <3>1. forsaken' = forsaken /\ ~full
      BY <2>2 DEF Push
    <3> QED
      BY <1>2, <3>1
  <2> QED
    BY <2>1, <2>2
<1>8. Gone \subseteq Gone'
  <2> SUFFICES ASSUME NEW off \in Gone PROVE off \in Gone'
    OBVIOUS
  <2>1. off \in Offsets /\ off \in Offsets' /\ off \in Nat
    BY <1>6 DEF Gone
  <2>2. off \in Settled => off \in Settled'
    BY <1>1 DEF Settled, AtLeastOnce
  <2>3. Expired(off) => Expired(off)'
    BY <1>1, <1>5, <2>1 DEF Expired, Kind
  <2>4. off < forsaken => off < forsaken'
    BY <1>2, <1>7, <2>1
  <2> QED
    BY <2>1, <2>2, <2>3, <2>4 DEF Gone
<1>9. ASSUME NEW off \in Offsets PROVE off < first => off \in Gone'
  <2>1. off < start => off \in Gone'
    BY <1>8 DEF IInv, Safe, Now
  <2>2. first <= forsaken' /\ off < first => off \in Gone'
    BY <1>2, <1>4, <1>6, <1>7 DEF Gone
  <2> QED
    BY <1>7, <2>1, <2>2
<1>10. /\ consumed' \subseteq consumed
       /\ read_offset' \in 0..next' /\ (read_offset' = read_offset \/ read_offset' = first)
       /\ consumer_offset' \in 0..next' /\ (consumer_offset' = consumer_offset \/ consumer_offset' = first)
       /\ read_offset' <= next /\ consumer_offset' <= next
  <2>1. CASE Policy = "ring"
    <3>1. /\ consumed' = {off \in consumed : off >= first}
          /\ read_offset' = Larger(read_offset, first)
          /\ consumer_offset' = Larger(consumer_offset, first)
      BY <2>1 DEF Push
    <3>2. first <= next
      BY <1>2, <1>4, DeliveryAssumption DEF DeliveryAssumption
    <3> HIDE DEF first
    <3> QED
      BY <1>1, <1>2, <1>4, <3>1, <3>2 DEF Larger
  <2>2. CASE Policy # "ring"
    <3>1. consumed' = consumed /\ read_offset' = read_offset /\ consumer_offset' = consumer_offset
      BY <2>2 DEF Push, posVars
    <3> QED
      BY <1>1, <1>2, <3>1
  <2> QED
    BY <2>1, <2>2
<1>11. active' \in Tables' /\ ActiveOffs \subseteq ActiveOffs' \cup Gone'
  <2>1. PICK slots : /\ active' = Without(slots)
                     /\ \A s \in D \cap slots : active[s].off < first
    <3>1. CASE Policy = "ring"
      <4>1. active' = Without({s \in DOMAIN active : active[s].off < first})
        BY <3>1 DEF Push
      <4> QED
        BY <4>1
    <3>2. CASE Policy # "ring"
      <4>1. active' = Without({})
        BY <1>3, <3>2 DEF Push, Without
      <4> QED
        BY <4>1
    <3> QED
      BY <3>1, <3>2
  <2>2. active' \in [D \ slots -> Entry] /\ \A s \in D \ slots : active'[s] = active[s]
    BY <1>3, <2>1 DEF Without
  <2>3. IsFiniteSet(D \ slots) /\ D \ slots \in SUBSET Nat
    BY <1>3, FS_Difference
  <2>4. active' \in [D \ slots -> Entry']
    BY <1>6, <2>2 DEF Entry
  <2>5. active' \in Tables'
    BY <2>3, <2>4 DEF Tables
  <2>6. ASSUME NEW s \in D PROVE active[s].off \in ActiveOffs' \cup Gone'
    <3>1. active[s].off \in Offsets
      BY <1>3 DEF Entry
    <3>2. CASE s \in slots
      BY <1>9, <2>1, <3>1, <3>2
    <3>3. CASE s \notin slots
      BY <2>2, <3>3 DEF ActiveOffs
    <3> QED
      BY <3>2, <3>3
  <2>7. ActiveOffs = {active[s].off : s \in D}
    BY <1>3 DEF ActiveOffs
  <2> QED
    BY <2>5, <2>6, <2>7
<1> HIDE DEF first, full
<1>12. TypeInv'
  <2>1. Now' \in State'
    BY <1>1, <1>2, <1>4, <1>6, <1>10, <1>11 DEF Now, State
  <2>2. saved \in 0..next'
    BY <1>1, <1>2
  <2> QED
    BY <1>1, <1>2, <1>5, <1>7, <1>10, <2>1, <2>2 DEF TypeInv
<1>13. Safe(Now, Gone)'
  <2> SUFFICES ASSUME NEW off \in Offsets'
               PROVE  /\ off < start' => off \in Gone'
                      /\ off < read_offset' \/ off \in consumed' => off \in Gone' \cup ActiveOffs'
    BY DEF Safe, Now, Offs, ActiveOffs
  <2>1. CASE off = next
    BY <1>1, <1>2, <1>4, <1>6, <1>10, <2>1, DeliveryAssumption DEF full, DeliveryAssumption
  <2>2. CASE off \in Offsets
    <3>1. off < read_offset \/ off \in consumed => off \in Gone \cup ActiveOffs
      BY <2>2 DEF IInv, Safe, Now, Offs, ActiveOffs
    <3>2. off < first => off \in Gone'
      BY <1>9, <2>2
    <3> QED
      BY <1>1, <1>8, <1>10, <1>11, <3>1, <3>2
  <2> QED
    BY <1>6, <2>1, <2>2
<1>14. StreamSafe'
  <2> SUFFICES ASSUME Policy = "stream", NEW off \in Offsets', off < consumer_offset'
               PROVE  off \in Gone' \cup ActiveOffs'
    BY <1>1 DEF StreamSafe, Policy
  <2>1. consumer_offset' = consumer_offset
    BY DEF Push, posVars
  <2>2. off # next
    BY <1>2, <2>1
  <2>3. off \in Gone \cup ActiveOffs
    BY <1>6, <2>1, <2>2 DEF IInv, StreamSafe
  <2> QED
    BY <1>8, <1>11, <2>3
<1>15. SavedSafe'
  <2> SUFFICES ASSUME NEW off \in Offsets', off < saved PROVE off \in Gone'
    BY <1>1 DEF SavedSafe
  <2>1. off # next
    BY <1>2
  <2> QED
    BY <1>6, <1>8, <2>1 DEF IInv, SavedSafe
<1> QED
  BY <1>12, <1>13, <1>14, <1>15 DEF IInv

-----------------------------------------------------------------------------
\* The theorems.

\* Every reachable state is safe, if callers' buffers are big enough
\* (emq_pop_into), entries can be read, and no two messages share a msg_id.
THEOREM DeliveryInvariance == Sound => (Spec => []IInv)
<1> SUFFICES ASSUME Sound PROVE Spec => []IInv
  OBVIOUS
<1>1. Init => IInv
  BY InitInv
<1>2. IInv /\ [Next]_vars => IInv'
  <2> SUFFICES ASSUME IInv, [Next]_vars PROVE IInv'
    OBVIOUS
  <2>1. ASSUME NEW kind \in opts.kinds, NEW prio \in opts.prios, Push(kind, prio) PROVE IInv'
    BY <2>1, PushInv
  <2>2. CASE Pop
    BY <2>2, PopInv
  <2>3. CASE Peek
    BY <2>3, PeekInv
  <2>4. ASSUME NEW a \in handed, NEW b \in handed, Ack({a, b}) PROVE IInv'
    BY <2>4, AckInv
  <2>5. ASSUME NEW off \in Offsets, NEW d \in BOOLEAN, Nack(off, d) PROVE IInv'
    <3>1. PICK s \in DOMAIN active : active' = [active EXCEPT ![s].shown = ~d]
      BY <2>5 DEF Nack
    <3>2. UNCHANGED <<opts, logVars, elapsed, posVars, consumed, histVars>>
      BY <2>5 DEF Nack
    <3> QED
      BY <3>1, <3>2, ShowInv
  <2>6. ASSUME NEW off \in Offsets, Elapse(off) PROVE IInv'
    BY <2>6, ElapseInv
  <2>7. ASSUME NEW off \in 0..next, Seek(off) PROVE IInv'
    BY <2>7, SeekInv
  <2>8. ASSUME NEW s \in DOMAIN active, Lapse(s) PROVE IInv'
    <3>1. active' = [active EXCEPT ![s].shown = TRUE]
      BY <2>8 DEF Lapse
    <3>2. UNCHANGED <<opts, logVars, elapsed, posVars, consumed, histVars>>
      BY <2>8 DEF Lapse
    <3> QED
      BY <3>1, <3>2, ShowInv
  <2>9. CASE Snapshot
    BY <2>9, SnapshotInv
  <2>10. CASE Restart
    BY <2>10, RestartInv
  <2>11. CASE UNCHANGED vars
    BY <2>11 DEF vars, logVars, posVars, histVars, IInv, TypeInv, Safe, StreamSafe, SavedSafe,
                 Now, State, Tables, Entry, Offs, ActiveOffs, Gone, Settled, Expired, Kind,
                 Offsets, Policy, AtLeastOnce
  <2> QED
    BY <2>1, <2>2, <2>3, <2>4, <2>5, <2>6, <2>7, <2>8, <2>9, <2>10, <2>11 DEF Next
<1> QED
  BY <1>1, <1>2, PTL DEF Spec

\* No accepted message is lost, for every policy and both guarantees, whatever
\* the order of pushes, pops, acknowledgements, time-outs, seeks, snapshots
\* and restarts, under the same conditions.
THEOREM NothingAcceptedIsLost == Sound => (Spec => []NoLoss)
BY DeliveryInvariance, InvNoLoss, PTL
-----------------------------------------------------------------------------
(***************************************************************************)
(* The in-flight table: without a seek, a message has one record in it,    *)
(* and an acknowledged message has none.                                   *)
(***************************************************************************)

\* The invariant.

\* What a pop will not find again: the trimmed, what its position has passed,
\* and, if the policy does not read in order, what is CONSUMED.
Passed(st, at) ==
  {off \in Offsets :
     \/ off < st.lo
     \/ Policy = "stream" /\ off < at
     \/ Policy # "stream" /\ off < st.pos
     \/ Policy \notin {"fifo", "ring", "stream"} /\ off \in st.taken}

\* One record for a message, of messages a pop will not find again, none of
\* them acknowledged.
Tidy(table, passed, done) ==
  /\ \A r, s \in DOMAIN table : table[r].off = table[s].off => r = s
  /\ Offs(table) \subseteq passed /\ done \subseteq passed /\ Offs(table) \cap done = {}

\* The types of what the histories and counters hold.
HistInv ==
  /\ opts \in Scenarios /\ next <= opts.pushes
  /\ msg \in Seq([kind : opts.kinds, prio : opts.prios])
  /\ elapsed \subseteq Offsets /\ handed \subseteq Offsets /\ acked \subseteq Offsets
  /\ retries \in 0..opts.retries /\ seeks \in 0..opts.seeks /\ restarts \in 0..opts.restarts

FlightInv ==
  seeks = 0 => Tidy(active, Passed(Now, consumer_offset), acked)

\* Three properties follow.
LEMMA FlightMeans ==
  ASSUME IInv, HistInv, FlightInv
  PROVE  TypeOK /\ InFlightOnce /\ AckIsFinal
<1>1. /\ Now \in State /\ Now.pos = read_offset /\ Now.taken = consumed /\ Now.lo = start
      /\ Now.table = active /\ next \in Nat
  BY DEF IInv, TypeInv, Now
<1>2. PICK D \in SUBSET Nat : active \in [D -> Entry]
  BY <1>1 DEF State, Tables
<1>3. TypeOK
  <2>1. \A s \in DOMAIN active : active[s] \in [off : Offsets, shown : BOOLEAN]
    BY <1>2 DEF Entry
  <2>2. next \in 0..opts.pushes
    BY <1>1, DeliveryAssumption DEF HistInv, DeliveryAssumption, Scenario
  <2>3. /\ start \in Nat /\ saved \in Nat /\ read_offset \in Nat /\ consumer_offset \in Nat
        /\ consumed \subseteq Offsets /\ forsaken \in Nat /\ Len(msg) = next
    BY <1>1 DEF IInv, TypeInv, State
  <2> QED
    BY <2>1, <2>2, <2>3 DEF TypeOK, HistInv
<1>4. InFlightOnce
  BY DEF InFlightOnce, FlightInv, Tidy
<1>5. AckIsFinal
  BY DEF AckIsFinal, FlightInv, Tidy, Offs, ActiveOffs
<1> QED
  BY <1>3, <1>4, <1>5

-----------------------------------------------------------------------------
\* How the table changes.

\* Fewer records, or records shown, are as tidy.
LEMMA TidyFewer ==
  ASSUME NEW old, NEW new, NEW P, NEW Q, NEW A, Tidy(old, P, A), P \subseteq Q,
         DOMAIN new \subseteq DOMAIN old, \A s \in DOMAIN new : new[s].off = old[s].off
  PROVE  Tidy(new, Q, A)
<1>1. Offs(new) \subseteq Offs(old)
  BY DEF Offs
<1> QED
  BY <1>1 DEF Tidy

\* A record of a message that had not been passed.
LEMMA TidyMore ==
  ASSUME NEW old \in Tables, NEW off \in Offsets, NEW P, NEW Q, NEW A,
         Tidy(old, P, A), P \subseteq Q, off \notin P, off \in Q
  PROVE  Tidy(WithRecord(old, off), Q, A)
<1> DEFINE new == WithRecord(old, off)
<1>1. Offs(new) = Offs(old) \cup {off}
  BY WithRecordFact
<1>2. DOMAIN new = DOMAIN old \cup {FreeSlot(old)}
      /\ (\A s \in DOMAIN old : new[s] = old[s])
      /\ (\A s \in DOMAIN new : s \in DOMAIN old \/ (s = FreeSlot(old) /\ new[s].off = off))
  BY DEF WithRecord
<1>3. \A s \in DOMAIN old : new[s].off # off
  BY <1>2 DEF Tidy, Offs
<1> HIDE DEF new
<1>4. ASSUME NEW r \in DOMAIN new, NEW s \in DOMAIN new, new[r].off = new[s].off PROVE r = s
  BY <1>2, <1>3, <1>4 DEF Tidy
<1> QED
  BY <1>1, <1>4 DEF Tidy, new

\* emq_prim_compact_consumed forgets nothing it passed.
LEMMA CompactedPasses ==
  ASSUME next \in Nat, NEW st \in State, NEW at, NEW reserved \in BOOLEAN
  PROVE  /\ Passed(st, at) \subseteq Passed(Compacted(st, reserved), at)
         /\ Compacted(st, reserved) \in State /\ Compacted(st, reserved).table = st.table
<1> DEFINE done == Compacted(st, reserved)
<1>1. /\ done \in State /\ done.table = st.table
      /\ st.pos <= done.pos /\ st.lo <= done.lo
      /\ done.taken = st.taken \ (st.pos..(done.pos - 1))
  <2>1. Safe(st, Offsets)
    BY DEF Safe
  <2> QED
    BY <2>1, CompactedSafe
<1> HIDE DEF done
<1>2. /\ st.pos \in Nat /\ st.lo \in Nat /\ done.pos \in Nat /\ done.lo \in 0..next
      /\ Offsets \subseteq Nat
  BY <1>1 DEF State, Offsets
<1>3. ASSUME NEW off \in Passed(st, at) PROVE off \in Passed(done, at)
  <2>1. off \in Offsets /\ off \in Nat
    BY <1>2 DEF Passed
  <2>2. off < st.lo => off < done.lo
    BY <1>1, <1>2, <2>1
  <2>3. off < st.pos => off < done.pos
    BY <1>1, <1>2, <2>1
  <2>4. off \in st.taken => off < done.pos \/ off \in done.taken
    BY <1>1, <1>2, <2>1
  <2> QED
    BY <2>1, <2>2, <2>3, <2>4 DEF Passed
<1> QED
  BY <1>1, <1>3 DEF done

\* A pop finds what it had not passed, and then has passed it.
LEMMA FoundPasses ==
  ASSUME TypeInv, NEW st \in State
  PROVE  LET found == Found(st, {})
             after == After(st, found)
         IN /\ after.table = st.table /\ after.lo = st.lo
            /\ Passed(st, consumer_offset) \subseteq Passed(after, found.pos)
            /\ found.off # -1 => /\ found.off \notin Passed(st, consumer_offset)
                                 /\ found.off \in Passed(after, found.pos)
            /\ Policy \in {"fifo", "ring"} => st.lo <= after.pos
            /\ Policy \notin {"fifo", "ring"} => after.pos = st.pos
<1> DEFINE found == Found(st, {})
           after == After(st, found)
<1>1. /\ next \in Nat /\ consumer_offset \in 0..next
      /\ st.pos \in 0..next /\ st.taken \in SUBSET Offsets /\ st.lo \in 0..next
      /\ Offsets \subseteq Nat
  BY DEF TypeInv, State, Offsets
<1>2. /\ after.pos = (IF Policy = "stream" THEN st.pos ELSE found.pos)
      /\ after.taken = found.taken /\ after.lo = st.lo /\ after.table = st.table
      /\ after = [pos |-> after.pos, taken |-> after.taken, lo |-> st.lo, table |-> st.table]
  <2> DEFINE pos == IF Policy = "stream" THEN st.pos ELSE found.pos
             taken == found.taken
  <2>1. after = [st EXCEPT !.pos = pos, !.taken = taken]
    BY DEF After
  <2>2. st = [pos |-> st.pos, taken |-> st.taken, lo |-> st.lo, table |-> st.table]
    BY DEF State
  <2> HIDE DEF pos, taken, found, after
  <2>3. after = [pos |-> pos, taken |-> taken, lo |-> st.lo, table |-> st.table]
    BY <2>1, <2>2
  <2> QED
    BY <2>3 DEF pos, taken
<1> HIDE DEF after
<1>3. CASE Policy \in {"stream", "fifo", "ring"}
  <2> DEFINE from == IF Policy = "stream" THEN consumer_offset ELSE st.pos
  <2>1. found = InOrder(from, st, {})
    BY <1>3 DEF Found
  <2>2. from \in 0..next
    BY <1>1
  <2> DEFINE live == {off \in Readable(from, st.lo, {}) : ~Expired(off)}
             stop == IF live = {} THEN Larger(from, next) ELSE Least(live)
             hit == live # {} /\ Due(stop)
  <2>3. /\ found.off = (IF hit THEN stop ELSE -1) /\ found.pos = (IF hit THEN stop + 1 ELSE stop)
    BY <2>1 DEF InOrder
  <2> HIDE DEF found, from
  <2>4. live \subseteq Offsets /\ \A off \in live : from <= off /\ st.lo <= off
    BY <1>1, <2>2 DEF Readable, Offsets
  <2>5. live # {} => stop \in live
    <3>1. live # {} => Least(live) \in live
      <4> HIDE DEF live
      <4> QED
        BY <1>1, <2>4, LeastFact
    <3> QED
      BY <3>1
  <2>6. live = {} => stop = next
    BY <1>1, <2>2 DEF Larger
  <2>7. hit => live # {}
    OBVIOUS
  <2> HIDE DEF live, stop, hit
  <2>8. from \in Nat /\ from <= next
    BY <1>1, <2>2
  <2>9. /\ from <= found.pos /\ found.pos \in Nat
        /\ found.off # -1 => /\ found.off \in Offsets /\ from <= found.off /\ st.lo <= found.off
                             /\ found.off < found.pos
        /\ st.lo <= found.pos
    <3>1. CASE live = {}
      <4>1. found.off = -1 /\ found.pos = next
        BY <2>3, <2>6, <2>7, <3>1
      <4> QED
        BY <1>1, <2>8, <4>1
    <3>2. CASE live # {}
      <4>1. stop \in Offsets /\ from <= stop /\ st.lo <= stop
        BY <2>4, <2>5, <3>2
      <4>2. stop \in Nat /\ stop # next
        BY <1>1, <4>1 DEF Offsets
      <4>3. CASE hit
        <5>1. found.off = stop /\ found.pos = stop + 1
          BY <2>3, <4>3
        <5>2. st.lo \in Nat /\ st.lo <= stop + 1 /\ from <= stop + 1 /\ stop < stop + 1
          BY <1>1, <2>8, <4>1, <4>2
        <5> QED
          BY <4>1, <4>2, <5>1, <5>2
      <4>4. CASE ~hit
        <5>1. found.off = -1 /\ found.pos = stop
          BY <2>3, <4>4
        <5> QED
          BY <4>1, <4>2, <5>1
      <4> QED
        BY <4>3, <4>4
    <3> QED
      BY <3>1, <3>2
  <2>10. ASSUME NEW off \in Offsets
         PROVE  /\ (off \in Passed(st, consumer_offset)) <=> (off < st.lo \/ off < from)
                /\ (off \in Passed(after, found.pos)) <=> (off < st.lo \/ off < found.pos)
    BY <1>2, <1>3 DEF Passed, from
  <2>11. ASSUME NEW off \in Passed(st, consumer_offset) PROVE off \in Passed(after, found.pos)
    <3>1. off \in Offsets /\ off \in Nat
      BY <1>1 DEF Passed
    <3>2. off < st.lo \/ off < from
      BY <2>10, <3>1
    <3>3. off < from => off < found.pos
      BY <2>8, <2>9, <3>1
    <3> QED
      BY <2>10, <3>1, <3>2, <3>3
  <2>12. ASSUME found.off # -1
         PROVE  found.off \notin Passed(st, consumer_offset) /\ found.off \in Passed(after, found.pos)
    <3>1. /\ found.off \in Offsets /\ from <= found.off /\ st.lo <= found.off
          /\ found.off < found.pos
      BY <2>9, <2>12
    <3>2. found.off \in Nat /\ st.lo \in Nat
      <4>1. found.off \in Nat
        BY <1>1, <3>1, Zenon
      <4>2. st.lo \in Nat
        BY <1>1
      <4> QED
        BY <4>1, <4>2
    <3>3. ~(found.off < st.lo \/ found.off < from)
      BY <2>8, <3>1, <3>2
    <3> QED
      BY <2>10, <3>1, <3>3
  <2>13. /\ Policy \in {"fifo", "ring"} => st.lo <= after.pos
         /\ Policy \notin {"fifo", "ring"} => after.pos = st.pos
    BY <1>2, <1>3, <2>9
  <2> QED
    BY <1>2, <2>11, <2>12, <2>13 DEF found, after
<1>4. CASE Policy \notin {"stream", "fifo", "ring"}
  <2> DEFINE f == Scan(Policy, st, {})
             taken == st.taken \cup {st.table[s].off : s \in DOMAIN st.table}
             fresh == Readable(st.pos, st.lo, {}) \ taken
             fit == {off \in fresh : ~Expired(off) /\ Due(off)}
             best == IF fit = {} THEN -1 ELSE Best(Policy, fit)
             dead == {off \in fresh : /\ Expired(off)
                                      /\ \/ best = -1 \/ Policy = "priority"
                                         \/ IF Policy = "lifo" THEN off > best ELSE off < best}
  <2>1. f = [off |-> best, pos |-> st.pos, taken |-> st.taken \cup dead,
             bare |-> best = -1 /\ Policy = "lifo" /\ dead = {}]
    BY DEF Scan
  <2>2. found = [f EXCEPT !.taken = IF f.off = -1 THEN @ ELSE @ \cup {f.off}]
    BY <1>4 DEF Found
  <2>3. fit \subseteq fresh
    OBVIOUS
  <2> HIDE DEF found, dead, f, fit
  <2>4. /\ found.off = best /\ found.pos = st.pos
        /\ found.taken = (IF best = -1 THEN st.taken \cup dead ELSE st.taken \cup dead \cup {best})
    BY <2>1, <2>2
  <2>5. fresh \subseteq Offsets /\ \A off \in fresh : st.pos <= off /\ st.lo <= off /\ off \notin st.taken
    BY <1>1 DEF Readable, Offsets
  <2> HIDE DEF fresh
  <2>6. fit # {} => Best(Policy, fit) \in fit
    BY <2>3, <2>5, BestFact
  <2>7. best # -1 => best \in fresh
    BY <2>3, <2>6
  <2> HIDE DEF best
  <2>8. Passed(st, consumer_offset) \subseteq Passed(after, found.pos)
    BY <1>2, <1>4, <2>4 DEF Passed
  <2>9. ASSUME found.off # -1
        PROVE  found.off \notin Passed(st, consumer_offset) /\ found.off \in Passed(after, found.pos)
    <3>1. best \in Offsets /\ best \in Nat /\ st.pos <= best /\ st.lo <= best /\ best \notin st.taken
      BY <1>1, <2>4, <2>5, <2>7, <2>9
    <3>2. best \in found.taken
      BY <2>4, <2>9
    <3> QED
      BY <1>1, <1>2, <1>4, <2>4, <3>1, <3>2 DEF Passed
  <2>10. after.pos = st.pos
    BY <1>2, <2>4
  <2> QED
    BY <1>2, <1>4, <2>8, <2>9, <2>10 DEF found, after
<1> QED
  BY <1>3, <1>4

-----------------------------------------------------------------------------
\* Every step keeps it.

\* Redelivery leaves fewer records and passes at least what had been passed.
LEMMA DroppedPasses ==
  ASSUME IInv, NEW slots \in SUBSET Spoilt({}), NEW at
  PROVE  /\ Dropped(slots) \in State /\ Dropped(slots).table = Without(slots)
         /\ Passed(Now, at) \subseteq Passed(Dropped(slots), at)
         /\ slots = {} => Dropped(slots) = Now
<1>1. Dropped(slots) \in State /\ Dropped(slots).table = Without(slots)
  BY DroppedSafe
<1>2. CASE slots = {}
  BY <1>1, <1>2 DEF Dropped
<1>3. CASE slots # {}
  <2> DEFINE st == [Now EXCEPT !.table = Without(slots)]
  <2>1. st.pos = Now.pos /\ st.taken = Now.taken /\ st.lo = Now.lo /\ st.table = Without(slots)
        /\ st = [pos |-> st.pos, taken |-> st.taken, lo |-> st.lo, table |-> st.table]
    BY DEF Now
  <2>2. Dropped(slots) = Compacted(st, FALSE)
    BY <1>3 DEF Dropped
  <2> HIDE DEF st
  <2>3. st \in State
    <3>1. Now \in State
      BY DEF IInv, TypeInv
    <3>2. Without(slots) \in Tables
      BY <1>1 DEF State
    <3> QED
      BY <2>1, <3>1, <3>2 DEF State
  <2>4. next \in Nat
    BY DEF IInv, TypeInv
  <2>5. Passed(Now, at) = Passed(st, at)
    BY <2>1 DEF Passed
  <2>6. Passed(st, at) \subseteq Passed(Compacted(st, FALSE), at)
    BY <2>3, <2>4, CompactedPasses
  <2> QED
    BY <1>1, <1>3, <2>2, <2>5, <2>6
<1> QED
  BY <1>2, <1>3

\* A call that leaves the log's end and the acknowledgements alone.
LEMMA CallTidy ==
  ASSUME NEW st \in State, Becomes(st), UNCHANGED <<opts, next>>, NEW at, consumer_offset' = at,
         seeks' = 0 => Tidy(st.table, Passed(st, at), acked')
  PROVE  FlightInv'
<1>1. Now' = st /\ active' = st.table
  BY DEF Becomes, Now, State
<1>2. Passed(Now, consumer_offset)' = Passed(st, at)
  BY <1>1 DEF Passed, Policy, Offsets
<1> QED
  BY <1>1, <1>2 DEF FlightInv

\* emq_prim_pop when it finds something visible again.
LEMMA RedeliverTidy ==
  ASSUME IInv, FlightInv, Redeliver({}) PROVE FlightInv'
<1>1. PICK s \in DOMAIN active \ Spoilt({}), slots \in SUBSET Spoilt({}) :
        Becomes([Dropped(slots) EXCEPT !.table[s].shown = FALSE])
  BY DEF Redeliver
<1>2. UNCHANGED <<opts, next, consumer_offset, acked, seeks>>
  BY DEF Redeliver, counters
<1> DEFINE st == Dropped(slots)
           done == [st EXCEPT !.table[s].shown = FALSE]
<1>3. /\ st \in State /\ st.table = Without(slots)
      /\ Passed(Now, consumer_offset) \subseteq Passed(st, consumer_offset)
  BY DroppedPasses
<1>4. s \in DOMAIN st.table
  BY <1>1, <1>3 DEF Without
<1>5. Becomes(done)
  BY <1>1
<1> HIDE DEF st
<1>6. done \in State /\ done.table = [st.table EXCEPT ![s].shown = FALSE]
  <2>1. Safe(st, Offsets)
    BY DEF Safe
  <2> QED
    BY <1>3, <1>4, <2>1, ShownSafe
<1>7. done.pos = st.pos /\ done.taken = st.taken /\ done.lo = st.lo
  BY DEF State
<1> HIDE DEF done
<1>8. Passed(done, consumer_offset) = Passed(st, consumer_offset)
  BY <1>7 DEF Passed
<1>9. DOMAIN done.table \subseteq DOMAIN active
      /\ \A r \in DOMAIN done.table : done.table[r].off = active[r].off
  <2>1. active \in Tables
    BY DEF IInv, TypeInv, State, Now
  <2>2. PICK D \in SUBSET Nat : active \in [D -> Entry]
    BY <2>1 DEF Tables
  <2>3. DOMAIN st.table = D \ slots /\ \A r \in D \ slots : st.table[r] = active[r]
    BY <1>3, <2>2 DEF Without
  <2>4. st.table[s] \in Entry
    BY <1>4, <2>2, <2>3
  <2>5. DOMAIN done.table = D \ slots
        /\ \A r \in D \ slots : done.table[r].off = st.table[r].off
    BY <1>6, <2>3, <2>4 DEF Entry
  <2> QED
    BY <2>2, <2>3, <2>5
<1>10. seeks' = 0 => Tidy(done.table, Passed(done, consumer_offset), acked')
  BY <1>2, <1>3, <1>8, <1>9, TidyFewer DEF FlightInv
<1> QED
  BY <1>2, <1>5, <1>6, <1>10, CallTidy

\* emq_prim_pop when it looks for something new.
LEMMA PopNewTidy ==
  ASSUME IInv, FlightInv, PopNew({}, TRUE) PROVE FlightInv'
<1> DEFINE slots == IF AtLeastOnce THEN Spoilt({}) ELSE {}
           st == Dropped(slots)
           found == Found(st, {})
           after == After(st, found)
           at == IF Policy = "stream" THEN found.pos ELSE consumer_offset
<1>1. UNCHANGED <<opts, next, acked, seeks>> /\ consumer_offset' = at
  BY DEF PopNew, counters
<1>2. \/ /\ found.off # -1
         /\ Becomes([Compacted(after, AtLeastOnce) EXCEPT !.table =
                       IF AtLeastOnce THEN WithRecord(@, found.off) ELSE @])
      \/ /\ found.off = -1
         /\ Becomes(IF found.bare /\ ~AtLeastOnce THEN after ELSE Compacted(after, FALSE))
  BY DEF PopNew
<1>3. /\ next \in Nat /\ TypeInv /\ AtLeastOnce \in BOOLEAN /\ active \in Tables
  BY DEF IInv, TypeInv, AtLeastOnce, Scenario, State, Now
<1>4. /\ st \in State /\ st.table = Without(slots)
      /\ Passed(Now, consumer_offset) \subseteq Passed(st, consumer_offset)
      /\ ~AtLeastOnce => st = Now
  BY DroppedPasses
<1> HIDE DEF st
<1>5. /\ after.table = st.table /\ after.lo = st.lo
      /\ Passed(st, consumer_offset) \subseteq Passed(after, found.pos)
      /\ found.off # -1 => /\ found.off \notin Passed(st, consumer_offset)
                           /\ found.off \in Passed(after, found.pos)
  BY <1>3, <1>4, FoundPasses
<1>6. after \in State /\ found.off \in Offsets \cup {-1}
  <2>1. /\ Safe(st, Offsets) /\ \A off \in Offsets : Expired(off) => off \in Offsets
        /\ \A off \in Offsets : off < consumer_offset => off \in Offsets \cup Offs(st.table)
    BY DEF Safe
  <2> QED
    BY <1>3, <1>4, <2>1, FoundSafe
<1> HIDE DEF after, found
<1>8. Passed(after, found.pos) = Passed(after, at)
  BY DEF Passed
<1>9. seeks' = 0 => Tidy(st.table, Passed(st, consumer_offset), acked')
  <2>1. DOMAIN st.table \subseteq DOMAIN active
        /\ \A r \in DOMAIN st.table : st.table[r].off = active[r].off
    <3> HIDE DEF slots
    <3> QED
      BY <1>3, <1>4 DEF Without, Tables
  <2> QED
    BY <1>1, <1>4, <2>1, TidyFewer DEF FlightInv
<1>10. \A flag \in BOOLEAN :
         /\ Compacted(after, flag) \in State /\ Compacted(after, flag).table = st.table
         /\ Passed(after, at) \subseteq Passed(Compacted(after, flag), at)
  BY <1>3, <1>5, <1>6, CompactedPasses
<1>11. \A P \in SUBSET Offsets :
         seeks' = 0 /\ Passed(after, at) \subseteq P => Tidy(st.table, P, acked')
  <2>1. Passed(st, consumer_offset) \subseteq Passed(after, at)
    BY <1>5, <1>8
  <2> QED
    BY <1>9, <2>1 DEF Tidy
<1> HIDE DEF at
<1>12. ASSUME NEW x PROVE Passed(x, at) \in SUBSET Offsets
  BY DEF Passed
<1>13. CASE found.off # -1 /\ AtLeastOnce
  <2> DEFINE done == Compacted(after, TRUE)
             last == [done EXCEPT !.table = WithRecord(@, found.off)]
  <2>1. Becomes(last)
    BY <1>2, <1>13
  <2>2. done \in State /\ done.table = st.table /\ Passed(after, at) \subseteq Passed(done, at)
    BY <1>10
  <2> HIDE DEF done
  <2>3. /\ last.pos = done.pos /\ last.taken = done.taken /\ last.lo = done.lo
        /\ last.table = WithRecord(st.table, found.off)
        /\ last = [pos |-> last.pos, taken |-> last.taken, lo |-> last.lo, table |-> last.table]
    BY <2>2 DEF State
  <2> HIDE DEF last
  <2>4. st.table \in Tables /\ found.off \in Offsets
    BY <1>4, <1>6, <1>13 DEF State
  <2>5. last \in State
    BY <2>2, <2>3, <2>4, WithRecordFact DEF State
  <2>6. Passed(last, at) = Passed(done, at)
    BY <2>3 DEF Passed
  <2>7. seeks' = 0 => Tidy(last.table, Passed(last, at), acked')
    <3>1. Passed(st, consumer_offset) \subseteq Passed(last, at)
      BY <1>5, <1>8, <2>2, <2>6
    <3>2. found.off \notin Passed(st, consumer_offset) /\ found.off \in Passed(last, at)
      BY <1>5, <1>8, <1>13, <2>2, <2>6
    <3> QED
      BY <1>9, <2>3, <2>4, <3>1, <3>2, TidyMore
  <2> QED
    BY <1>1, <2>1, <2>5, <2>7, CallTidy
<1>14. CASE found.off # -1 /\ ~AtLeastOnce
  <2> DEFINE done == Compacted(after, FALSE)
  <2>1. /\ done \in State /\ done.table = st.table /\ Passed(after, at) \subseteq Passed(done, at)
    BY <1>10
  <2>2. Becomes(done)
    <3>1. AtLeastOnce = FALSE
      BY <1>3, <1>14
    <3>2. Becomes([done EXCEPT !.table = IF FALSE THEN WithRecord(@, found.off) ELSE @])
      BY <1>2, <1>14, <3>1
    <3> HIDE DEF done
    <3>3. [done EXCEPT !.table = IF FALSE THEN WithRecord(@, found.off) ELSE @] = done
      BY <2>1 DEF State
    <3> QED
      BY <3>2, <3>3
  <2> HIDE DEF done
  <2>3. seeks' = 0 => Tidy(done.table, Passed(done, at), acked')
    BY <1>11, <1>12, <2>1
  <2> QED
    BY <1>1, <2>1, <2>2, <2>3, CallTidy
<1>15. CASE found.off = -1 /\ ~(found.bare /\ ~AtLeastOnce)
  <2> DEFINE done == Compacted(after, FALSE)
  <2>1. /\ done \in State /\ done.table = st.table /\ Passed(after, at) \subseteq Passed(done, at)
    BY <1>10
  <2>2. Becomes(done)
    BY <1>2, <1>15
  <2> HIDE DEF done
  <2>3. seeks' = 0 => Tidy(done.table, Passed(done, at), acked')
    BY <1>11, <1>12, <2>1
  <2> QED
    BY <1>1, <2>1, <2>2, <2>3, CallTidy
<1>16. CASE found.off = -1 /\ found.bare /\ ~AtLeastOnce
  <2>1. Becomes(after)
    BY <1>2, <1>16
  <2>2. seeks' = 0 => Tidy(after.table, Passed(after, at), acked')
    BY <1>5, <1>11, <1>12
  <2> QED
    BY <1>1, <1>6, <2>1, <2>2, CallTidy
<1> QED
  BY <1>2, <1>13, <1>14, <1>15, <1>16

\* emq_peek.
LEMMA PeekTidy ==
  ASSUME Sound, IInv, FlightInv, Peek PROVE FlightInv'
<1> DEFINE f == Scan("first", Now, {})
           after == After(Now, f)
           done == Compacted(after, FALSE)
<1>1. Becomes(done)
  BY DEF Sound, Peek, Unread
<1>2. UNCHANGED <<opts, next, consumer_offset, acked, seeks>>
  BY DEF Peek, histVars, counters
<1>3. /\ Now \in State /\ TypeInv /\ next \in Nat
      /\ Now = [pos |-> read_offset, taken |-> consumed, lo |-> start, table |-> active]
  BY DEF IInv, TypeInv, Now
<1>4. f.pos = read_offset /\ f.taken \in SUBSET Offsets /\ consumed \subseteq f.taken
  <2>1. Now.pos = read_offset /\ Now.taken = consumed
    BY <1>3
  <2>2. f.pos = read_offset /\ f.taken \in SUBSET Offsets
    BY <1>3, <2>1, ScanSafe
  <2>3. consumed \subseteq f.taken
    BY <2>1 DEF Scan
  <2> QED
    BY <2>2, <2>3
<1> HIDE DEF f
<1>5. after = [pos |-> read_offset, taken |-> f.taken, lo |-> start, table |-> active]
  <2> DEFINE pos == IF Policy = "stream" THEN Now.pos ELSE f.pos
  <2>1. after = [Now EXCEPT !.pos = pos, !.taken = f.taken]
    BY DEF After
  <2>2. pos = read_offset
    BY <1>3, <1>4
  <2> HIDE DEF pos, after
  <2> QED
    BY <1>3, <2>1, <2>2
<1>6. after \in State
  BY <1>3, <1>4, <1>5 DEF State
<1>7. Passed(Now, consumer_offset) \subseteq Passed(after, consumer_offset)
  BY <1>3, <1>4, <1>5 DEF Passed
<1> HIDE DEF after
<1>8. /\ done \in State /\ done.table = active
      /\ Passed(after, consumer_offset) \subseteq Passed(done, consumer_offset)
  BY <1>3, <1>5, <1>6, CompactedPasses
<1> HIDE DEF done
<1>9. seeks' = 0 => Tidy(done.table, Passed(done, consumer_offset), acked')
  BY <1>2, <1>7, <1>8 DEF FlightInv, Tidy
<1> QED
  BY <1>1, <1>2, <1>8, <1>9, CallTidy

\* emq_ack and emq_ack_batch: the one record of each message goes, and all of
\* them were messages a pop will not find again.
LEMMA AckTidy ==
  ASSUME Sound, IInv, FlightInv, NEW offs, Ack(offs) PROVE FlightInv'
<1>1. PICK slots \in SUBSET DOMAIN active :
        /\ {Id(active[s].off) : s \in slots} = {Id(off) : off \in offs}
        /\ Becomes(Compacted([Now EXCEPT !.table = Without(slots)], FALSE))
  BY DEF Ack
<1>2. acked' = acked \cup offs /\ UNCHANGED <<opts, next, consumer_offset, seeks>>
  BY DEF Ack, counters
<1>3. /\ Now \in State /\ next \in Nat
      /\ Now = [pos |-> read_offset, taken |-> consumed, lo |-> start, table |-> active]
  BY DEF IInv, TypeInv, Now
<1> DEFINE st == [Now EXCEPT !.table = Without(slots)]
           done == Compacted(st, FALSE)
<1>4. {active[s].off : s \in slots} = offs
  BY <1>1 DEF Id, Sound
<1>5. st \in State /\ st.table = Without(slots)
  <2>1. Safe(Now, Offsets) /\ \A s \in DOMAIN active \cap slots : active[s].off \in Offsets
    <3>1. active \in Tables
      BY <1>3 DEF State
    <3>2. PICK D \in SUBSET Nat : active \in [D -> Entry]
      BY <3>1 DEF Tables
    <3> QED
      BY <3>2 DEF Entry, Safe
  <2> QED
    BY <1>3, <2>1, WithoutSafe
<1>6. st.pos = Now.pos /\ st.taken = Now.taken /\ st.lo = Now.lo
  BY <1>3
<1>7. Becomes(done)
  BY <1>1
<1> HIDE DEF st
<1>8. Passed(Now, consumer_offset) = Passed(st, consumer_offset)
  BY <1>6 DEF Passed
<1>9. /\ done \in State /\ done.table = st.table
      /\ Passed(st, consumer_offset) \subseteq Passed(done, consumer_offset)
  BY <1>3, <1>5, CompactedPasses
<1> HIDE DEF done
<1>10. DOMAIN st.table = DOMAIN active \ slots /\ \A s \in DOMAIN active \ slots : st.table[s] = active[s]
  BY <1>5 DEF Without
<1>11. ASSUME seeks' = 0 PROVE Tidy(done.table, Passed(done, consumer_offset), acked')
  <2>1. Tidy(active, Passed(Now, consumer_offset), acked)
    BY <1>2, <1>11 DEF FlightInv
  <2>2. Tidy(st.table, Passed(done, consumer_offset), acked)
    BY <1>8, <1>9, <1>10, <2>1, TidyFewer
  <2>3. offs \subseteq Passed(done, consumer_offset)
    BY <1>4, <1>8, <1>9, <2>1 DEF Tidy, Offs
  <2>4. ASSUME NEW s \in DOMAIN active \ slots PROVE active[s].off \notin offs
    BY <1>4, <2>1 DEF Tidy
  <2>5. Offs(st.table) \cap offs = {}
    BY <1>10, <2>4 DEF Offs
  <2> QED
    BY <1>2, <1>9, <2>2, <2>3, <2>5 DEF Tidy
<1> QED
  BY <1>2, <1>7, <1>9, <1>11, CallTidy

\* emq_nack and a visibility timeout change no more than what is shown; a
\* deadline and a snapshot change nothing of it.
LEMMA ShownTidy ==
  ASSUME IInv, FlightInv, UNCHANGED <<opts, start, next, read_offset, consumer_offset, consumed, acked, seeks>>,
         active' = active \/ \E s \in DOMAIN active, b \in BOOLEAN : active' = [active EXCEPT ![s].shown = b]
  PROVE  FlightInv'
<1>1. active \in Tables
  BY DEF IInv, TypeInv, State, Now
<1>2. PICK D \in SUBSET Nat : active \in [D -> Entry]
  BY <1>1 DEF Tables
<1>3. DOMAIN active' = DOMAIN active /\ \A r \in DOMAIN active' : active'[r].off = active[r].off
  BY <1>2 DEF Entry
<1>4. Passed(Now, consumer_offset)' = Passed(Now, consumer_offset)
  BY DEF Passed, Now, Policy, Offsets
<1>5. seeks' = 0 => Tidy(active', Passed(Now, consumer_offset), acked)
  BY <1>3, TidyFewer DEF FlightInv
<1> QED
  BY <1>4, <1>5 DEF FlightInv

\* A push: what a ring overwrites it has passed.
LEMMA PushTidy ==
  ASSUME IInv, FlightInv, NEW kind, NEW prio, Push(kind, prio) PROVE FlightInv'
<1> DEFINE full == Policy = "ring" /\ next - start >= RingSize
           first == IF full THEN start + 1 ELSE start
<1>1. start' = first /\ next' = next + 1 /\ UNCHANGED <<opts, acked, seeks>>
  BY DEF Push, counters
<1>2. /\ next \in Nat /\ start \in 0..next /\ read_offset \in 0..next /\ consumer_offset \in 0..next
      /\ active \in Tables
  BY DEF IInv, TypeInv, Now, State
<1>3. first \in Nat /\ start <= first /\ first <= next
  BY <1>2, DeliveryAssumption DEF DeliveryAssumption
<1>4. /\ read_offset' \in Nat /\ read_offset <= read_offset' /\ read_offset' <= next
      /\ consumer_offset' \in Nat /\ consumer_offset <= consumer_offset'
      /\ \A off \in consumed : off \in consumed' \/ ~(off >= first)
  <2>1. CASE Policy = "ring"
    <3>1. /\ consumed' = {off \in consumed : off >= first}
          /\ read_offset' = Larger(read_offset, first)
          /\ consumer_offset' = Larger(consumer_offset, first)
      BY <2>1 DEF Push
    <3> HIDE DEF first
    <3> QED
      BY <1>2, <1>3, <3>1 DEF Larger
  <2>2. CASE Policy # "ring"
    <3>1. consumed' = consumed /\ read_offset' = read_offset /\ consumer_offset' = consumer_offset
      BY <2>2 DEF Push, posVars
    <3> QED
      BY <1>2, <3>1
  <2> QED
    BY <2>1, <2>2
<1>5. /\ DOMAIN active' \subseteq DOMAIN active
      /\ \A r \in DOMAIN active' : active'[r].off = active[r].off
  <2>1. active' = active \/ \E slots : active' = Without(slots)
    BY DEF Push
  <2> QED
    BY <2>1 DEF Without
<1> HIDE DEF first, full
<1>6. ASSUME NEW off \in Passed(Now, consumer_offset) PROVE off \in Passed(Now, consumer_offset)'
  <2>1. off \in Offsets /\ off \in Nat /\ off \in Offsets'
    BY <1>1, <1>2 DEF Passed, Offsets
  <2>2. off < start => off < start'
    BY <1>1, <1>2, <1>3, <2>1
  <2>3. off < read_offset => off < read_offset'
    BY <1>2, <1>4, <2>1
  <2>4. off < consumer_offset => off < consumer_offset'
    BY <1>2, <1>4, <2>1
  <2>5. off \in consumed => off \in consumed' \/ off < start'
    BY <1>1, <1>3, <1>4, <2>1
  <2>6. Policy' = Policy
    BY <1>1 DEF Policy
  <2> QED
    BY <2>1, <2>2, <2>3, <2>4, <2>5, <2>6 DEF Passed, Now
<1>7. seeks' = 0 => Tidy(active', Passed(Now, consumer_offset)', acked)
  BY <1>1, <1>5, <1>6, TidyFewer DEF FlightInv
<1> QED
  BY <1>1, <1>7 DEF FlightInv

\* After a restart nothing is in flight, and what is still acknowledged is
\* below the saved trim offset.
LEMMA RestartTidy ==
  ASSUME IInv, HistInv, Restart PROVE FlightInv'
<1>1. /\ start' = saved /\ read_offset' = 0 /\ active' = Without(DOMAIN active)
      /\ acked' = {off \in acked : off < saved} /\ next' = next
  BY DEF Restart
<1>2. DOMAIN active' = {} /\ Offs(active') = {}
  BY <1>1 DEF Without, Offs
<1>3. acked' \subseteq Passed(Now, consumer_offset)'
  BY <1>1 DEF HistInv, Passed, Now, Offsets
<1> QED
  BY <1>2, <1>3 DEF FlightInv, Tidy

\* What a pop hands out was pushed.
LEMMA HandedFact ==
  ASSUME Sound, IInv, Pop PROVE handed' \subseteq handed \cup Offsets
<1>1. CASE Redeliver({})
  <2>1. PICK s \in DOMAIN active : handed' = handed \cup {active[s].off}
    BY <1>1 DEF Redeliver
  <2>2. active \in Tables
    BY DEF IInv, TypeInv, State, Now
  <2>3. PICK D \in SUBSET Nat : active \in [D -> Entry]
    BY <2>2 DEF Tables
  <2> QED
    BY <2>1, <2>3 DEF Entry
<1>2. CASE PopNew({}, TRUE)
  <2> DEFINE st == Dropped(IF AtLeastOnce THEN Spoilt({}) ELSE {})
             found == Found(st, {})
  <2>1. \/ found.off # -1 /\ handed' = handed \cup {found.off}
        \/ handed' = handed
    BY <1>2 DEF PopNew
  <2>2. st \in State
    BY DroppedSafe
  <2> HIDE DEF st
  <2>3. TypeInv /\ Safe(st, Offsets) /\ (\A off \in Offsets : Expired(off) => off \in Offsets)
        /\ \A off \in Offsets : off < consumer_offset => off \in Offsets \cup Offs(st.table)
    BY DEF Safe, IInv
  <2>4. found.off \in Offsets \cup {-1}
    BY <2>2, <2>3, FoundSafe
  <2> HIDE DEF found
  <2> QED
    BY <2>1, <2>4
<1> QED
  BY <1>1, <1>2 DEF Sound, Pop, Unread

\* The histories and the counters keep their types.
LEMMA HistStep ==
  ASSUME Sound, IInv, HistInv, [Next]_vars PROVE HistInv'
<1>1. /\ next \in Nat /\ opts \in Scenario /\ Len(msg) = next
      /\ opts.retries \in Nat /\ opts.seeks \in Nat /\ opts.restarts \in Nat /\ opts.pushes \in Nat
  BY DeliveryAssumption DEF IInv, TypeInv, Scenario, DeliveryAssumption
<1>2. ASSUME NEW kind \in opts.kinds, NEW prio \in opts.prios, Push(kind, prio) PROVE HistInv'
  <2>1. /\ next' = next + 1 /\ next < opts.pushes /\ msg' = Append(msg, [kind |-> kind, prio |-> prio])
        /\ UNCHANGED <<opts, elapsed, handed, acked, retries, seeks, restarts>>
    BY <1>2 DEF Push, counters
  <2>2. Offsets \subseteq Offsets'
    BY <1>1, <2>1 DEF Offsets
  <2>3. next' <= opts.pushes
    BY <1>1, <2>1
  <2>4. msg' \in Seq([kind : opts.kinds, prio : opts.prios])
    <3>1. [kind |-> kind, prio |-> prio] \in [kind : opts.kinds, prio : opts.prios]
      OBVIOUS
    <3> QED
      BY <2>1, <3>1 DEF HistInv
  <2> QED
    BY <2>1, <2>2, <2>3, <2>4 DEF HistInv
<1>3. CASE Pop
  <2>1. UNCHANGED <<opts, next, msg, elapsed, acked, retries, seeks, restarts>>
    BY <1>3 DEF Pop, Redeliver, PopNew, counters
  <2> QED
    BY <1>3, <2>1, HandedFact DEF HistInv, Offsets
<1>4. CASE Peek
  <2>1. UNCHANGED <<opts, next, msg, elapsed, handed, acked, retries, seeks, restarts>>
    BY <1>4 DEF Peek, histVars, counters
  <2> QED
    BY <2>1 DEF HistInv, Offsets
<1>5. ASSUME NEW a \in handed, NEW b \in handed, Ack({a, b}) PROVE HistInv'
  <2>1. /\ acked' = acked \cup {a, b}
        /\ UNCHANGED <<opts, next, msg, elapsed, handed, retries, seeks, restarts>>
    BY <1>5 DEF Ack, counters
  <2> QED
    BY <2>1 DEF HistInv, Offsets
<1>6. ASSUME NEW off \in Offsets, NEW d \in BOOLEAN, Nack(off, d) PROVE HistInv'
  <2>1. /\ retries' = retries + 1 /\ retries < opts.retries
        /\ UNCHANGED <<opts, next, msg, elapsed, handed, acked, seeks, restarts>>
    BY <1>6 DEF Nack, logVars, histVars
  <2>2. retries' \in 0..opts.retries
    BY <1>1, <2>1 DEF HistInv
  <2> QED
    BY <2>1, <2>2 DEF HistInv, Offsets
<1>7. ASSUME NEW off \in Offsets, Elapse(off) PROVE HistInv'
  <2>1. /\ elapsed' = elapsed \cup {off}
        /\ UNCHANGED <<opts, next, msg, handed, acked, retries, seeks, restarts>>
    BY <1>7 DEF Elapse, logVars, histVars, counters
  <2> QED
    BY <2>1 DEF HistInv, Offsets
<1>8. ASSUME NEW off \in 0..next, Seek(off) PROVE HistInv'
  <2>1. /\ seeks' = seeks + 1 /\ seeks < opts.seeks
        /\ UNCHANGED <<opts, next, msg, elapsed, handed, acked, retries, restarts>>
    BY <1>8 DEF Seek, logVars
  <2>2. seeks' \in 0..opts.seeks
    BY <1>1, <2>1 DEF HistInv
  <2> QED
    BY <2>1, <2>2 DEF HistInv, Offsets
<1>9. ASSUME NEW s \in DOMAIN active, Lapse(s) PROVE HistInv'
  <2>1. /\ retries' = retries + 1 /\ retries < opts.retries
        /\ UNCHANGED <<opts, next, msg, elapsed, handed, acked, seeks, restarts>>
    BY <1>9 DEF Lapse, logVars, histVars
  <2>2. retries' \in 0..opts.retries
    BY <1>1, <2>1 DEF HistInv
  <2> QED
    BY <2>1, <2>2 DEF HistInv, Offsets
<1>10. CASE Snapshot
  <2>1. UNCHANGED <<opts, next, msg, elapsed, handed, acked, retries, seeks, restarts>>
    BY <1>10 DEF Snapshot, histVars, counters
  <2> QED
    BY <2>1 DEF HistInv, Offsets
<1>11. CASE Restart
  <2>1. /\ restarts' = restarts + 1 /\ restarts < opts.restarts
        /\ handed' \subseteq handed /\ acked' \subseteq acked
        /\ UNCHANGED <<opts, next, msg, elapsed, retries, seeks>>
    BY <1>11 DEF Restart
  <2>2. restarts' \in 0..opts.restarts
    BY <1>1, <2>1 DEF HistInv
  <2> QED
    BY <2>1, <2>2 DEF HistInv, Offsets
<1>12. CASE UNCHANGED vars
  BY <1>12 DEF vars, logVars, histVars, counters, HistInv, Offsets
<1> QED
  BY <1>2, <1>3, <1>4, <1>5, <1>6, <1>7, <1>8, <1>9, <1>10, <1>11, <1>12 DEF Next

\* The table keeps tidy.
LEMMA FlightStep ==
  ASSUME Sound, IInv, HistInv, FlightInv, [Next]_vars PROVE FlightInv'
<1>1. ASSUME NEW kind \in opts.kinds, NEW prio \in opts.prios, Push(kind, prio) PROVE FlightInv'
  BY <1>1, PushTidy
<1>2. CASE Pop
  BY <1>2, RedeliverTidy, PopNewTidy DEF Sound, Pop, Unread
<1>3. CASE Peek
  BY <1>3, PeekTidy
<1>4. ASSUME NEW a \in handed, NEW b \in handed, Ack({a, b}) PROVE FlightInv'
  BY <1>4, AckTidy
<1>5. ASSUME NEW off \in Offsets, NEW d \in BOOLEAN, Nack(off, d) PROVE FlightInv'
  <2>1. PICK s \in DOMAIN active : active' = [active EXCEPT ![s].shown = ~d]
    BY <1>5 DEF Nack
  <2>2. UNCHANGED <<opts, start, next, read_offset, consumer_offset, consumed, acked, seeks>>
    BY <1>5 DEF Nack, logVars, posVars, histVars
  <2>3. (~d) \in BOOLEAN
    OBVIOUS
  <2> QED
    BY <2>1, <2>2, <2>3, ShownTidy
<1>6. ASSUME NEW off \in Offsets, Elapse(off) PROVE FlightInv'
  <2>1. UNCHANGED <<opts, start, next, read_offset, consumer_offset, consumed, acked, seeks, active>>
    BY <1>6 DEF Elapse, logVars, posVars, histVars, counters
  <2> QED
    BY <2>1, ShownTidy
<1>7. ASSUME NEW off \in 0..next, Seek(off) PROVE FlightInv'
  <2>1. seeks' = seeks + 1 /\ seeks \in Nat
    BY <1>7 DEF Seek, HistInv
  <2>2. seeks' # 0
    BY <2>1
  <2> QED
    BY <2>2 DEF FlightInv
<1>8. ASSUME NEW s \in DOMAIN active, Lapse(s) PROVE FlightInv'
  <2>1. active' = [active EXCEPT ![s].shown = TRUE]
    BY <1>8 DEF Lapse
  <2>2. UNCHANGED <<opts, start, next, read_offset, consumer_offset, consumed, acked, seeks>>
    BY <1>8 DEF Lapse, logVars, posVars, histVars
  <2> QED
    BY <2>1, <2>2, ShownTidy
<1>9. CASE Snapshot
  <2>1. UNCHANGED <<opts, start, next, read_offset, consumer_offset, consumed, acked, seeks, active>>
    BY <1>9 DEF Snapshot, posVars, histVars, counters
  <2> QED
    BY <2>1, ShownTidy
<1>10. CASE Restart
  BY <1>10, RestartTidy
<1>11. CASE UNCHANGED vars
  <2>1. UNCHANGED <<opts, start, next, read_offset, consumer_offset, consumed, acked, seeks, active>>
    BY <1>11 DEF vars, logVars, posVars, histVars, counters
  <2> QED
    BY <2>1, ShownTidy
<1> QED
  BY <1>1, <1>2, <1>3, <1>4, <1>5, <1>6, <1>7, <1>8, <1>9, <1>10, <1>11 DEF Next

-----------------------------------------------------------------------------
\* The theorems.

\* The invariant holds, if callers' buffers are big enough, entries can be
\* read, and no two messages share a msg_id.
THEOREM FlightInvariance == Sound => (Spec => [](IInv /\ HistInv /\ FlightInv))
<1> SUFFICES ASSUME Sound PROVE Spec => [](IInv /\ HistInv /\ FlightInv)
  OBVIOUS
<1>1. Spec => []IInv
  BY DeliveryInvariance
<1>2. Init => HistInv /\ FlightInv
  <2> SUFFICES ASSUME Init PROVE HistInv /\ FlightInv
    OBVIOUS
  <2>1. opts \in Scenario
    BY DeliveryAssumption DEF Init, DeliveryAssumption
  <2>2. HistInv
    <3>1. opts.pushes \in Nat /\ opts.retries \in Nat /\ opts.seeks \in Nat /\ opts.restarts \in Nat
      BY <2>1, DeliveryAssumption DEF Scenario, DeliveryAssumption
    <3> QED
      BY <3>1 DEF Init, HistInv, Offsets
  <2>3. Tidy(active, Passed(Now, consumer_offset), acked)
    BY DEF Init, Tidy, Offs
  <2> QED
    BY <2>2, <2>3 DEF FlightInv
<1>3. IInv /\ HistInv /\ FlightInv /\ [Next]_vars => (HistInv /\ FlightInv)'
  BY HistStep, FlightStep
<1> QED
  BY <1>1, <1>2, <1>3, PTL DEF Spec

\* The variables keep their types.
THEOREM DeliveryTypes == Sound => (Spec => []TypeOK)
BY FlightInvariance, FlightMeans, PTL

\* Without a seek the in-flight table has one record for a message.
THEOREM OneRecordEach == Sound => (Spec => []InFlightOnce)
BY FlightInvariance, FlightMeans, PTL

\* Without a seek an acknowledged message is not in flight again, unless a
\* restart undoes the acknowledgement.
THEOREM AcknowledgedIsDone == Sound => (Spec => []AckIsFinal)
BY FlightInvariance, FlightMeans, PTL


-----------------------------------------------------------------------------
(***************************************************************************)
(* Space comes back: where the queue reclaims, the oldest message in the   *)
(* log is not a settled one.  The invariant says more of the front of the  *)
(* log: nothing in flight is below it, and the read position is not,       *)
(* except for a queue in order that starts over with nothing in flight.    *)
(***************************************************************************)

Abreast(st) == st.lo <= st.pos \/ (Policy = "fifo" /\ DOMAIN st.table = {})
Front(st, S) ==
  /\ st.lo \notin S
  /\ \A off \in Offs(st.table) : st.lo <= off
  /\ Abreast(st)

\* At most once, what was handed out a pop will not find again.
HandedOnce(st, at, hist) == DOMAIN st.table = {} /\ hist \subseteq Passed(st, at)

FrontInv ==
  Reclaiming =>
    /\ ~AtLeastOnce => HandedOnce(Now, consumer_offset, handed)
    /\ Front(Now, Settled)

\* Reclaimed follows.
LEMMA FrontMeans == FrontInv => Reclaimed
BY DEF FrontInv, Front, Reclaimed, Now

\* The policies that reclaim.
LEMMA ReclaimingFact ==
  ASSUME IInv, Reclaiming
  PROVE  /\ seeks = 0 /\ Policy \in {"fifo", "lifo", "priority", "delay"}
         /\ Policy # "fifo" => restarts = 0
BY DEF Reclaiming

\* The table is tidy with respect to what is settled.
LEMMA SettledTidy ==
  ASSUME FlightInv, FrontInv, Reclaiming
  PROVE  Tidy(active, Passed(Now, consumer_offset), Settled)
<1>1. CASE AtLeastOnce
  BY <1>1 DEF FlightInv, Reclaiming, Settled
<1>2. CASE ~AtLeastOnce
  BY <1>2 DEF FrontInv, HandedOnce, Now, Settled, Tidy, Offs
<1> QED
  BY <1>1, <1>2

\* emq_prim_compact_consumed leaves an unsettled message at the front of the
\* log, if the front was unsettled or the read position has come that far.
LEMMA CompactedFront ==
  ASSUME next \in Nat, NEW st \in State, NEW at, NEW S, Policy # "stream",
         Tidy(st.table, Passed(st, at), S), \A off \in Offs(st.table) : st.lo <= off,
         Abreast(st), st.lo \notin S \/ st.lo <= st.pos
  PROVE  Front(Compacted(st, FALSE), S)
<1> DEFINE done == Compacted(st, FALSE)
<1>1. /\ done \in State /\ done.table = st.table /\ TrimmedTo(st, done)
      /\ done.pos \notin st.taken /\ st.pos <= done.pos /\ st.lo <= done.lo
  <2>1. Safe(st, Offsets)
    BY DEF Safe
  <2> QED
    BY <2>1, CompactedSafe
<1> HIDE DEF done
<1>2. /\ st.pos \in Nat /\ st.lo \in Nat /\ done.pos \in Nat /\ done.lo \in Nat
      /\ Offsets \subseteq Nat /\ st.table \in Tables
  BY <1>1 DEF State, Offsets
<1>3. Offs(st.table) \subseteq Nat /\ Offs(st.table) \cap S = {}
  <2>1. PICK D \in SUBSET Nat : st.table \in [D -> Entry]
    BY <1>2 DEF Tables
  <2>2. Offs(st.table) \subseteq Offsets
    BY <2>1 DEF Offs, Entry
  <2> QED
    BY <1>2, <2>2 DEF Tidy
<1>4. st.lo <= done.pos => done.pos \notin S
  <2> SUFFICES ASSUME st.lo <= done.pos PROVE done.pos \notin Passed(st, at)
    BY DEF Tidy
  <2> QED
    BY <1>1, <1>2 DEF Passed
<1>5. done.lo # st.lo => done.lo <= done.pos /\ \A off \in Offs(st.table) : done.lo <= off
  BY <1>1 DEF TrimmedTo
<1>6. \A off \in Offs(done.table) : done.lo <= off
  BY <1>1, <1>5
<1>7. Abreast(done)
  <2>1. st.lo <= st.pos => st.lo <= done.pos
    BY <1>1, <1>2
  <2> QED
    BY <1>1, <1>5, <2>1 DEF Abreast
<1>8. done.lo \notin S
  <2>1. CASE done.lo # st.lo
    <3>1. done.lo = done.pos \/ done.lo \in Offs(st.table)
      BY <1>1, <2>1 DEF TrimmedTo
    <3>2. done.lo = done.pos => st.lo <= done.pos
      BY <1>1
    <3> QED
      BY <1>3, <1>4, <3>1, <3>2
  <2>2. CASE done.lo = st.lo /\ st.lo \in S
    <3>1. st.lo <= st.pos
      BY <2>2
    <3>2. st.lo <= done.pos
      BY <1>1, <1>2, <3>1
    <3>3. \/ done.lo = done.pos \/ done.lo \in Offs(st.table)
          \/ done.pos <= st.lo \/ \E off \in Offs(st.table) : off <= st.lo
      BY <1>1 DEF TrimmedTo
    <3>4. done.pos <= st.lo => done.pos = st.lo
      BY <1>2, <3>2
    <3>5. ASSUME NEW off \in Offs(st.table), off <= st.lo PROVE st.lo \in Offs(st.table)
      <4>1. st.lo <= off /\ off \in Nat
        BY <1>3
      <4> QED
        BY <1>2, <3>5, <4>1
    <3> QED
      BY <1>3, <1>4, <2>2, <3>2, <3>3, <3>4, <3>5
  <2> QED
    BY <2>1, <2>2
<1> QED
  BY <1>6, <1>7, <1>8 DEF Front, done

\* A call that leaves the log's end alone.
LEMMA CallFront ==
  ASSUME NEW st \in State, Becomes(st), UNCHANGED <<opts, next, seeks, restarts>>,
         NEW at, consumer_offset' = at,
         Reclaiming => /\ ~AtLeastOnce => HandedOnce(st, at, handed')
                       /\ Front(st, Settled')
  PROVE  FrontInv'
<1>1. Now' = st
  BY DEF Becomes, Now, State
<1>2. /\ Policy' = Policy /\ AtLeastOnce' = AtLeastOnce /\ Reclaiming' = Reclaiming
      /\ Offsets' = Offsets
  BY DEF Policy, AtLeastOnce, Reclaiming, Offsets
<1>3. Passed(Now, consumer_offset)' = Passed(st, at)
  BY <1>1, <1>2 DEF Passed
<1>4. Front(Now, Settled)' <=> Front(st, Settled')
  BY <1>1, <1>2 DEF Front, Abreast
<1>5. HandedOnce(Now, consumer_offset, handed)' <=> HandedOnce(st, at, handed')
  BY <1>1, <1>3 DEF HandedOnce
<1> QED
  BY <1>2, <1>4, <1>5 DEF FrontInv

\* Redelivery that drops records leaves the front in order.
LEMMA DroppedFront ==
  ASSUME IInv, FlightInv, FrontInv, Reclaiming, NEW slots \in SUBSET Spoilt({})
  PROVE  /\ Front(Dropped(slots), Settled)
         /\ Tidy(Dropped(slots).table, Passed(Dropped(slots), consumer_offset), Settled)
<1>1. /\ Now \in State /\ next \in Nat /\ active \in Tables
      /\ Now = [pos |-> read_offset, taken |-> consumed, lo |-> start, table |-> active]
  BY DEF IInv, TypeInv, Now, State
<1>2. Tidy(active, Passed(Now, consumer_offset), Settled) /\ Front(Now, Settled)
  BY SettledTidy DEF FrontInv
<1>3. /\ Dropped(slots) \in State /\ Dropped(slots).table = Without(slots)
      /\ Passed(Now, consumer_offset) \subseteq Passed(Dropped(slots), consumer_offset)
  BY DroppedPasses
<1>4. /\ DOMAIN Without(slots) \subseteq DOMAIN active
      /\ \A s \in DOMAIN Without(slots) : Without(slots)[s].off = active[s].off
  BY DEF Without
<1>5. Tidy(Without(slots), Passed(Dropped(slots), consumer_offset), Settled)
  BY <1>2, <1>3, <1>4, TidyFewer
<1>6. Front(Dropped(slots), Settled)
  <2>1. CASE slots = {}
    BY <1>2, <2>1 DEF Dropped
  <2>2. CASE slots # {}
    <3> DEFINE st == [Now EXCEPT !.table = Without(slots)]
    <3>1. Dropped(slots) = Compacted(st, FALSE)
      BY <2>2 DEF Dropped
    <3>2. /\ st.pos = read_offset /\ st.taken = consumed /\ st.lo = start
          /\ st.table = Without(slots)
          /\ st = [pos |-> st.pos, taken |-> st.taken, lo |-> st.lo, table |-> st.table]
      BY <1>1
    <3> HIDE DEF st
    <3>3. st \in State
      BY <1>1, <1>3, <3>2 DEF State
    <3>4. Passed(st, consumer_offset) = Passed(Now, consumer_offset)
      BY <1>1, <3>2 DEF Passed
    <3>5. Tidy(st.table, Passed(st, consumer_offset), Settled)
      BY <1>2, <1>4, <3>2, <3>4, TidyFewer
    <3>6. /\ \A off \in Offs(st.table) : st.lo <= off
          /\ Abreast(st) /\ st.lo \notin Settled
      <4>1. Offs(st.table) \subseteq Offs(active)
        BY <1>4, <3>2 DEF Offs
      <4>2. DOMAIN active = {} => DOMAIN st.table = {}
        BY <1>4, <3>2
      <4> QED
        BY <1>1, <1>2, <3>2, <4>1, <4>2 DEF Front, Abreast
    <3>7. Policy # "stream"
      BY ReclaimingFact
    <3> QED
      BY <1>1, <3>1, <3>3, <3>5, <3>6, <3>7, CompactedFront
  <2> QED
    BY <2>1, <2>2
<1> QED
  BY <1>3, <1>5, <1>6

\* emq_prim_pop when it finds something visible again.
LEMMA RedeliverFront ==
  ASSUME IInv, FlightInv, FrontInv, Redeliver({}) PROVE FrontInv'
<1>1. PICK s \in DOMAIN active \ Spoilt({}), slots \in SUBSET Spoilt({}) :
        Becomes([Dropped(slots) EXCEPT !.table[s].shown = FALSE])
  BY DEF Redeliver
<1>2. AtLeastOnce /\ UNCHANGED <<opts, next, consumer_offset, acked, seeks, restarts>>
  BY DEF Redeliver, counters
<1> DEFINE st == Dropped(slots)
           done == [st EXCEPT !.table[s].shown = FALSE]
<1>3. st \in State /\ st.table = Without(slots)
  BY DroppedPasses
<1>4. s \in DOMAIN st.table
  BY <1>1, <1>3 DEF Without
<1>5. Reclaiming => Front(st, Settled)
  BY DroppedFront
<1>6. Becomes(done)
  BY <1>1
<1> HIDE DEF st
<1>7. done \in State /\ done.table = [st.table EXCEPT ![s].shown = FALSE]
  <2>1. Safe(st, Offsets)
    BY DEF Safe
  <2> QED
    BY <1>3, <1>4, <2>1, ShownSafe
<1>8. done.pos = st.pos /\ done.lo = st.lo
  BY DEF State
<1> HIDE DEF done
<1>9. DOMAIN done.table = DOMAIN st.table /\ Offs(done.table) = Offs(st.table)
  <2>1. st.table \in Tables
    BY <1>3 DEF State
  <2>2. PICK D \in SUBSET Nat : st.table \in [D -> Entry]
    BY <2>1 DEF Tables
  <2>3. DOMAIN done.table = D /\ \A r \in D : done.table[r].off = st.table[r].off
    BY <1>4, <1>7, <2>2 DEF Entry
  <2> QED
    BY <2>2, <2>3 DEF Offs
<1>10. Settled' = Settled
  BY <1>2 DEF Settled, AtLeastOnce
<1>11. Reclaiming => Front(done, Settled')
  BY <1>5, <1>8, <1>9, <1>10 DEF Front, Abreast
<1> QED
  BY <1>2, <1>6, <1>7, <1>11, CallFront

\* emq_prim_pop when it looks for something new: at least once the new record
\* is of a message not passed before; at most once what it hands out is passed.
LEMMA PopNewFront ==
  ASSUME IInv, FlightInv, FrontInv, PopNew({}, TRUE) PROVE FrontInv'
<1> DEFINE slots == IF AtLeastOnce THEN Spoilt({}) ELSE {}
           st == Dropped(slots)
           found == Found(st, {})
           after == After(st, found)
           at == IF Policy = "stream" THEN found.pos ELSE consumer_offset
<1>1. UNCHANGED <<opts, next, acked, seeks, restarts>> /\ consumer_offset' = at
  BY DEF PopNew, counters
<1>2. \/ /\ found.off # -1 /\ handed' = handed \cup {found.off}
         /\ Becomes([Compacted(after, AtLeastOnce) EXCEPT !.table =
                       IF AtLeastOnce THEN WithRecord(@, found.off) ELSE @])
      \/ /\ found.off = -1 /\ handed' = handed
         /\ Becomes(IF found.bare /\ ~AtLeastOnce THEN after ELSE Compacted(after, FALSE))
  BY DEF PopNew
<1>3. next \in Nat /\ TypeInv /\ AtLeastOnce \in BOOLEAN
  BY DEF IInv, TypeInv, AtLeastOnce, Scenario
<1>4. st \in State /\ slots \in SUBSET Spoilt({})
      /\ (Reclaiming => /\ Front(st, Settled)
                        /\ Tidy(st.table, Passed(st, consumer_offset), Settled))
  BY DroppedPasses, DroppedFront
<1>5. ~AtLeastOnce => st = Now
  BY DEF Dropped
<1> HIDE DEF st, slots
<1>6. /\ after.table = st.table /\ after.lo = st.lo
      /\ Passed(st, consumer_offset) \subseteq Passed(after, found.pos)
      /\ found.off # -1 => /\ found.off \notin Passed(st, consumer_offset)
                           /\ found.off \in Passed(after, found.pos)
      /\ Policy \in {"fifo", "ring"} => st.lo <= after.pos
      /\ Policy \notin {"fifo", "ring"} => after.pos = st.pos
  BY <1>3, <1>4, FoundPasses
<1>7. after \in State /\ found.off \in Offsets \cup {-1}
  <2>1. /\ Safe(st, Offsets) /\ \A off \in Offsets : Expired(off) => off \in Offsets
        /\ \A off \in Offsets : off < consumer_offset => off \in Offsets \cup Offs(st.table)
    BY DEF Safe
  <2> QED
    BY <1>3, <1>4, <2>1, FoundSafe
<1> HIDE DEF after, found
<1>8. ASSUME Reclaiming
      PROVE  /\ Policy # "stream" /\ at = consumer_offset
             /\ Passed(after, found.pos) = Passed(after, consumer_offset)
  <2>1. Policy # "stream"
    BY <1>8, ReclaimingFact
  <2> QED
    BY <2>1 DEF Passed
<1> HIDE DEF at
<1>9. ASSUME Reclaiming
      PROVE  /\ Front(after, Settled) /\ after.lo <= after.pos
             /\ Tidy(after.table, Passed(after, consumer_offset), Settled)
  <2>1. after.lo <= after.pos
    BY <1>4, <1>6, <1>9, ReclaimingFact DEF Front, Abreast
  <2>2. Front(after, Settled)
    BY <1>4, <1>6, <1>9, <2>1 DEF Front, Abreast
  <2>3. Tidy(after.table, Passed(after, consumer_offset), Settled)
    BY <1>4, <1>6, <1>8, <1>9 DEF Tidy
  <2> QED
    BY <2>1, <2>2, <2>3
<1>10. ASSUME Reclaiming, ~AtLeastOnce
       PROVE  DOMAIN after.table = {} /\ handed \subseteq Passed(after, consumer_offset)
  <2>1. HandedOnce(st, consumer_offset, handed)
    BY <1>5, <1>10 DEF FrontInv
  <2> QED
    BY <1>6, <1>8, <1>10, <2>1 DEF HandedOnce
<1>11. CASE found.off # -1 /\ AtLeastOnce
  <2> DEFINE done == Compacted(after, TRUE)
             last == [done EXCEPT !.table = WithRecord(@, found.off)]
  <2>1. Becomes(last)
    BY <1>2, <1>11
  <2>2. /\ done \in State /\ done.table = after.table /\ done.lo = after.lo
        /\ after.pos <= done.pos
    <3>1. Safe(after, Offsets)
      BY DEF Safe
    <3> QED
      BY <1>3, <1>7, <3>1, CompactedSafe
  <2> HIDE DEF done
  <2>3. /\ last.pos = done.pos /\ last.taken = done.taken /\ last.lo = done.lo
        /\ last.table = WithRecord(after.table, found.off)
        /\ last = [pos |-> last.pos, taken |-> last.taken, lo |-> last.lo, table |-> last.table]
    BY <2>2 DEF State
  <2> HIDE DEF last
  <2>4. after.table \in Tables /\ found.off \in Offsets
    BY <1>7, <1>11 DEF State
  <2>5. last \in State /\ Offs(last.table) = Offs(after.table) \cup {found.off}
    BY <2>2, <2>3, <2>4, WithRecordFact DEF State
  <2>6. ASSUME Reclaiming PROVE Front(last, Settled)
    <3>1. after.lo \in Nat /\ after.pos \in Nat /\ done.pos \in Nat /\ found.off \in Nat
      BY <1>3, <1>7, <2>2, <2>4 DEF State, Offsets
    <3>2. after.lo <= found.off
      <4>1. ~(found.off < st.lo)
        BY <1>6, <1>11, <2>4 DEF Passed
      <4> QED
        BY <1>6, <3>1, <4>1
    <3>3. after.lo <= done.pos
      BY <1>9, <2>2, <2>6, <3>1
    <3> QED
      BY <1>9, <2>2, <2>3, <2>5, <2>6, <3>2, <3>3 DEF Front, Abreast
  <2>7. Settled' = Settled
    BY <1>1, <1>11 DEF Settled, AtLeastOnce
  <2> QED
    BY <1>1, <1>11, <2>1, <2>5, <2>6, <2>7, CallFront
<1>12. CASE ~(found.off # -1 /\ AtLeastOnce) /\ ~(found.off = -1 /\ found.bare /\ ~AtLeastOnce)
  <2> DEFINE done == Compacted(after, FALSE)
  <2>1. /\ done \in State /\ done.table = after.table
        /\ Passed(after, consumer_offset) \subseteq Passed(done, consumer_offset)
    BY <1>3, <1>7, CompactedPasses
  <2>2. Becomes(done)
    <3>1. CASE found.off = -1
      BY <1>2, <1>12, <3>1
    <3>2. CASE found.off # -1
      <4>1. AtLeastOnce = FALSE
        BY <1>3, <1>12, <3>2
      <4>2. Becomes([done EXCEPT !.table = IF FALSE THEN WithRecord(@, found.off) ELSE @])
        BY <1>2, <3>2, <4>1
      <4> HIDE DEF done
      <4>3. [done EXCEPT !.table = IF FALSE THEN WithRecord(@, found.off) ELSE @] = done
        BY <2>1 DEF State
      <4> QED
        BY <4>2, <4>3
    <3> QED
      BY <3>1, <3>2
  <2>3. ASSUME Reclaiming
        PROVE  /\ Tidy(after.table, Passed(after, consumer_offset), Settled')
               /\ ~AtLeastOnce => handed' \subseteq Passed(after, consumer_offset)
    <3>1. CASE AtLeastOnce
      <4>1. Settled' = Settled
        BY <1>1, <3>1 DEF Settled, AtLeastOnce
      <4> QED
        BY <1>9, <2>3, <3>1, <4>1
    <3>2. CASE ~AtLeastOnce
      <4>1. Settled' = handed'
        BY <1>1, <3>2 DEF Settled, AtLeastOnce
      <4>2. handed' \subseteq Passed(after, consumer_offset)
        BY <1>2, <1>6, <1>8, <1>10, <2>3, <3>2
      <4> QED
        BY <1>10, <2>3, <3>2, <4>1, <4>2 DEF Tidy, Offs
    <3> QED
      BY <3>1, <3>2
  <2>4. ASSUME Reclaiming PROVE Front(done, Settled')
    <3>1. /\ \A off \in Offs(after.table) : after.lo <= off
          /\ Abreast(after) /\ after.lo <= after.pos /\ Policy # "stream"
      BY <1>8, <1>9, <2>4 DEF Front
    <3> QED
      BY <1>3, <1>7, <2>3, <2>4, <3>1, CompactedFront
  <2> HIDE DEF done
  <2>5. Reclaiming /\ ~AtLeastOnce => HandedOnce(done, consumer_offset, handed')
    BY <1>10, <2>1, <2>3 DEF HandedOnce
  <2>6. Reclaiming /\ ~AtLeastOnce => HandedOnce(done, at, handed')
    BY <1>8, <2>5
  <2> QED
    BY <1>1, <2>1, <2>2, <2>4, <2>6, CallFront
<1>13. CASE found.off = -1 /\ found.bare /\ ~AtLeastOnce
  <2>1. Becomes(after) /\ handed' = handed
    BY <1>2, <1>13
  <2>2. Settled' = Settled
    BY <1>1, <2>1 DEF Settled, AtLeastOnce
  <2>3. Reclaiming => Front(after, Settled')
    BY <1>9, <2>2
  <2>4. Reclaiming => HandedOnce(after, at, handed')
    BY <1>8, <1>10, <1>13, <2>1 DEF HandedOnce
  <2> QED
    BY <1>1, <1>7, <2>1, <2>3, <2>4, CallFront
<1> QED
  BY <1>12, <1>11, <1>13

\* emq_peek.
LEMMA PeekFront ==
  ASSUME Sound, IInv, FlightInv, FrontInv, Peek PROVE FrontInv'
<1> DEFINE f == Scan("first", Now, {})
           after == After(Now, f)
           done == Compacted(after, FALSE)
<1>1. Becomes(done)
  BY DEF Sound, Peek, Unread
<1>2. UNCHANGED <<opts, next, consumer_offset, handed, acked, seeks, restarts>>
  BY DEF Peek, histVars, counters
<1>3. /\ Now \in State /\ TypeInv /\ next \in Nat
      /\ Now = [pos |-> read_offset, taken |-> consumed, lo |-> start, table |-> active]
  BY DEF IInv, TypeInv, Now
<1>4. f.pos = read_offset /\ f.taken \in SUBSET Offsets /\ consumed \subseteq f.taken
  <2>1. Now.pos = read_offset /\ Now.taken = consumed
    BY <1>3
  <2>2. f.pos = read_offset /\ f.taken \in SUBSET Offsets
    BY <1>3, <2>1, ScanSafe
  <2>3. consumed \subseteq f.taken
    BY <2>1 DEF Scan
  <2> QED
    BY <2>2, <2>3
<1> HIDE DEF f
<1>5. after = [pos |-> read_offset, taken |-> f.taken, lo |-> start, table |-> active]
  <2> DEFINE pos == IF Policy = "stream" THEN Now.pos ELSE f.pos
  <2>1. after = [Now EXCEPT !.pos = pos, !.taken = f.taken]
    BY DEF After
  <2>2. pos = read_offset
    BY <1>3, <1>4
  <2> HIDE DEF pos, after
  <2> QED
    BY <1>3, <2>1, <2>2
<1>6. after \in State
  BY <1>3, <1>4, <1>5 DEF State
<1>7. Passed(Now, consumer_offset) \subseteq Passed(after, consumer_offset)
  BY <1>3, <1>4, <1>5 DEF Passed
<1> HIDE DEF after
<1>8. /\ done \in State /\ done.table = active
      /\ Passed(after, consumer_offset) \subseteq Passed(done, consumer_offset)
  BY <1>3, <1>5, <1>6, CompactedPasses
<1>9. Settled' = Settled
  BY <1>2 DEF Settled, AtLeastOnce
<1>10. ASSUME Reclaiming
       PROVE  /\ Front(done, Settled')
              /\ ~AtLeastOnce => HandedOnce(done, consumer_offset, handed')
  <2>1. /\ Front(Now, Settled) /\ Tidy(active, Passed(Now, consumer_offset), Settled)
        /\ ~AtLeastOnce => HandedOnce(Now, consumer_offset, handed)
    BY <1>10, SettledTidy DEF FrontInv
  <2>2. Tidy(after.table, Passed(after, consumer_offset), Settled)
    BY <1>5, <1>7, <2>1 DEF Tidy
  <2>3. /\ \A off \in Offs(after.table) : after.lo <= off
        /\ Abreast(after) /\ after.lo \notin Settled
    BY <1>3, <1>5, <2>1 DEF Front, Abreast
  <2>4. Front(done, Settled)
    BY <1>3, <1>6, <1>10, <2>2, <2>3, ReclaimingFact, CompactedFront
  <2> HIDE DEF done
  <2>5. ~AtLeastOnce => HandedOnce(done, consumer_offset, handed')
    BY <1>2, <1>3, <1>7, <1>8, <2>1 DEF HandedOnce
  <2> QED
    BY <1>9, <2>4, <2>5
<1> HIDE DEF done
<1> QED
  BY <1>1, <1>2, <1>8, <1>10, CallFront

\* emq_ack and emq_ack_batch: what is settled now was in flight, so the front
\* of the log was not above the read position, and is trimmed.
LEMMA AckFront ==
  ASSUME Sound, IInv, FlightInv, FrontInv, NEW offs, offs # {}, Ack(offs) PROVE FrontInv'
<1>1. PICK slots \in SUBSET DOMAIN active :
        /\ {Id(active[s].off) : s \in slots} = {Id(off) : off \in offs}
        /\ Becomes(Compacted([Now EXCEPT !.table = Without(slots)], FALSE))
  BY DEF Ack
<1>2. acked' = acked \cup offs
      /\ UNCHANGED <<opts, next, consumer_offset, handed, seeks, restarts>>
  BY DEF Ack, counters
<1>3. /\ Now \in State /\ next \in Nat
      /\ Now = [pos |-> read_offset, taken |-> consumed, lo |-> start, table |-> active]
  BY DEF IInv, TypeInv, Now
<1> DEFINE st == [Now EXCEPT !.table = Without(slots)]
           done == Compacted(st, FALSE)
<1>4. {active[s].off : s \in slots} = offs
  BY <1>1 DEF Id, Sound
<1>5. st \in State /\ st.table = Without(slots)
  <2>1. Safe(Now, Offsets) /\ \A s \in DOMAIN active \cap slots : active[s].off \in Offsets
    <3>1. active \in Tables
      BY <1>3 DEF State
    <3>2. PICK D \in SUBSET Nat : active \in [D -> Entry]
      BY <3>1 DEF Tables
    <3> QED
      BY <3>2 DEF Entry, Safe
  <2> QED
    BY <1>3, <2>1, WithoutSafe
<1>6. st.pos = read_offset /\ st.taken = consumed /\ st.lo = start
  BY <1>3
<1>7. Becomes(done)
  BY <1>1
<1> HIDE DEF st
<1>8. Passed(Now, consumer_offset) = Passed(st, consumer_offset)
  BY <1>3, <1>6 DEF Passed
<1>9. done \in State
  BY <1>3, <1>5, CompactedPasses
<1>10. DOMAIN st.table = DOMAIN active \ slots /\ \A s \in DOMAIN active \ slots : st.table[s] = active[s]
  BY <1>5 DEF Without
<1>11. slots # {} /\ DOMAIN active # {}
  BY <1>4
<1>12. ASSUME Reclaiming
       PROVE  Front(done, Settled') /\ AtLeastOnce
  <2>1. AtLeastOnce /\ seeks = 0
    BY <1>3, <1>11, <1>12, ReclaimingFact DEF FrontInv, HandedOnce
  <2>2. Settled' = acked \cup offs /\ Front(Now, acked)
    BY <1>2, <1>12, <2>1 DEF Settled, AtLeastOnce, FrontInv
  <2>3. Tidy(active, Passed(Now, consumer_offset), acked)
    BY <2>1 DEF FlightInv
  <2>4. Tidy(st.table, Passed(st, consumer_offset), acked)
    BY <1>8, <1>10, <2>3, TidyFewer
  <2>5. offs \subseteq Passed(st, consumer_offset)
    BY <1>4, <1>8, <2>3 DEF Tidy, Offs
  <2>6. ASSUME NEW s \in DOMAIN active \ slots PROVE active[s].off \notin offs
    BY <1>4, <2>3 DEF Tidy
  <2>7. Offs(st.table) \cap offs = {}
    BY <1>10, <2>6 DEF Offs
  <2>8. Tidy(st.table, Passed(st, consumer_offset), acked \cup offs)
    BY <2>4, <2>5, <2>7 DEF Tidy
  <2>9. /\ \A off \in Offs(st.table) : st.lo <= off
        /\ st.lo <= st.pos
    BY <1>3, <1>6, <1>10, <1>11, <2>2 DEF Front, Abreast, Offs
  <2>10. Policy # "stream"
    BY <1>12, ReclaimingFact
  <2> QED
    BY <1>3, <1>5, <2>1, <2>2, <2>8, <2>9, <2>10, CompactedFront DEF Abreast
<1> HIDE DEF done
<1> QED
  BY <1>2, <1>7, <1>9, <1>12, CallFront

\* A push where the queue reclaims only makes the log longer.
LEMMA PushFront ==
  ASSUME IInv, FrontInv, NEW kind, NEW prio, Push(kind, prio) PROVE FrontInv'
<1>1. next' = next + 1 /\ UNCHANGED <<opts, handed, acked, seeks, restarts>>
  BY DEF Push, counters
<1>2. Reclaiming' = Reclaiming /\ Policy' = Policy /\ AtLeastOnce' = AtLeastOnce /\ Settled' = Settled
  BY <1>1 DEF Reclaiming, Policy, AtLeastOnce, Settled
<1>3. next \in Nat
  BY DEF IInv, TypeInv
<1>4. Offsets \subseteq Offsets'
  BY <1>1, <1>3 DEF Offsets
<1>5. ASSUME Reclaiming PROVE UNCHANGED <<start, active, consumed, read_offset, consumer_offset>>
  BY <1>5, ReclaimingFact DEF Push, posVars
<1>6. ASSUME Reclaiming
      PROVE  Now' = Now /\ Passed(Now, consumer_offset) \subseteq Passed(Now, consumer_offset)'
  BY <1>2, <1>4, <1>5, <1>6 DEF Now, Passed
<1> QED
  BY <1>1, <1>2, <1>6 DEF FrontInv, Front, Abreast, HandedOnce

\* After a restart nothing is in flight, and what is still settled is below
\* the saved trim offset.
LEMMA RestartFront ==
  ASSUME IInv, HistInv, Restart PROVE FrontInv'
<1>1. /\ start' = saved /\ active' = Without(DOMAIN active)
      /\ handed' = {off \in handed : off < saved} /\ acked' = {off \in acked : off < saved}
      /\ restarts' = restarts + 1 /\ UNCHANGED <<opts, next, seeks>>
  BY DEF Restart
<1>2. DOMAIN active' = {} /\ Offs(active') = {}
  BY <1>1 DEF Without, Offs
<1>3. saved \in Nat /\ restarts \in Nat /\ restarts' # 0
  BY <1>1 DEF IInv, TypeInv, HistInv
<1>4. handed' \subseteq Passed(Now, consumer_offset)'
  BY <1>1 DEF HistInv, Passed, Now, Offsets
<1>5. start' \notin Settled'
  <2>1. ~(saved < saved)
    BY <1>3
  <2> QED
    BY <1>1, <2>1 DEF Settled, AtLeastOnce
<1>6. Now'.table = active' /\ Now'.lo = start'
  BY DEF Now
<1>7. Reclaiming' => Policy' = "fifo"
  BY <1>3 DEF Reclaiming
<1> QED
  BY <1>2, <1>4, <1>5, <1>6, <1>7 DEF FrontInv, Front, Abreast, HandedOnce

\* emq_nack, a visibility timeout, a deadline, a snapshot.
LEMMA ShownFront ==
  ASSUME IInv, FrontInv,
         UNCHANGED <<opts, start, next, read_offset, consumer_offset, consumed, handed, acked,
                     seeks, restarts>>,
         active' = active \/ \E s \in DOMAIN active, b \in BOOLEAN : active' = [active EXCEPT ![s].shown = b]
  PROVE  FrontInv'
<1>1. active \in Tables
  BY DEF IInv, TypeInv, State, Now
<1>2. PICK D \in SUBSET Nat : active \in [D -> Entry]
  BY <1>1 DEF Tables
<1>3. DOMAIN active' = DOMAIN active /\ \A r \in DOMAIN active' : active'[r].off = active[r].off
  BY <1>2 DEF Entry
<1>4. Offs(active') = Offs(active)
  BY <1>3 DEF Offs
<1>5. Passed(Now, consumer_offset)' = Passed(Now, consumer_offset)
  BY DEF Passed, Now, Policy, Offsets
<1>6. Reclaiming' = Reclaiming /\ Policy' = Policy /\ AtLeastOnce' = AtLeastOnce /\ Settled' = Settled
  BY DEF Reclaiming, Policy, AtLeastOnce, Settled
<1>7. /\ Now'.lo = Now.lo /\ Now'.pos = Now.pos /\ Now.table = active /\ Now'.table = active'
  BY DEF Now
<1> QED
  BY <1>3, <1>4, <1>5, <1>6, <1>7 DEF FrontInv, Front, Abreast, HandedOnce

\* The front keeps in order.
LEMMA FrontStep ==
  ASSUME Sound, IInv, HistInv, FlightInv, FrontInv, [Next]_vars PROVE FrontInv'
<1>1. ASSUME NEW kind \in opts.kinds, NEW prio \in opts.prios, Push(kind, prio) PROVE FrontInv'
  BY <1>1, PushFront
<1>2. CASE Pop
  BY <1>2, RedeliverFront, PopNewFront DEF Sound, Pop, Unread
<1>3. CASE Peek
  BY <1>3, PeekFront
<1>4. ASSUME NEW a \in handed, NEW b \in handed, Ack({a, b}) PROVE FrontInv'
  BY <1>4, AckFront
<1>5. ASSUME NEW off \in Offsets, NEW d \in BOOLEAN, Nack(off, d) PROVE FrontInv'
  <2>1. PICK s \in DOMAIN active : active' = [active EXCEPT ![s].shown = ~d]
    BY <1>5 DEF Nack
  <2>2. UNCHANGED <<opts, start, next, read_offset, consumer_offset, consumed, handed, acked,
                    seeks, restarts>>
    BY <1>5 DEF Nack, logVars, posVars, histVars
  <2>3. (~d) \in BOOLEAN
    OBVIOUS
  <2> QED
    BY <2>1, <2>2, <2>3, ShownFront
<1>6. ASSUME NEW off \in Offsets, Elapse(off) PROVE FrontInv'
  <2>1. UNCHANGED <<opts, start, next, read_offset, consumer_offset, consumed, handed, acked,
                    seeks, restarts, active>>
    BY <1>6 DEF Elapse, logVars, posVars, histVars, counters
  <2> QED
    BY <2>1, ShownFront
<1>7. ASSUME NEW off \in 0..next, Seek(off) PROVE FrontInv'
  <2>1. seeks' = seeks + 1 /\ seeks \in Nat
    BY <1>7 DEF Seek, HistInv
  <2>2. seeks' # 0
    BY <2>1
  <2> QED
    BY <2>2 DEF FrontInv, Reclaiming
<1>8. ASSUME NEW s \in DOMAIN active, Lapse(s) PROVE FrontInv'
  <2>1. active' = [active EXCEPT ![s].shown = TRUE]
    BY <1>8 DEF Lapse
  <2>2. UNCHANGED <<opts, start, next, read_offset, consumer_offset, consumed, handed, acked,
                    seeks, restarts>>
    BY <1>8 DEF Lapse, logVars, posVars, histVars
  <2> QED
    BY <2>1, <2>2, ShownFront
<1>9. CASE Snapshot
  <2>1. UNCHANGED <<opts, start, next, read_offset, consumer_offset, consumed, handed, acked,
                    seeks, restarts, active>>
    BY <1>9 DEF Snapshot, posVars, histVars, counters
  <2> QED
    BY <2>1, ShownFront
<1>10. CASE Restart
  BY <1>10, RestartFront
<1>11. CASE UNCHANGED vars
  <2>1. UNCHANGED <<opts, start, next, read_offset, consumer_offset, consumed, handed, acked,
                    seeks, restarts, active>>
    BY <1>11 DEF vars, logVars, posVars, histVars, counters
  <2> QED
    BY <2>1, ShownFront
<1> QED
  BY <1>1, <1>2, <1>3, <1>4, <1>5, <1>6, <1>7, <1>8, <1>9, <1>10, <1>11 DEF Next

\* Where the queue reclaims (in order, or by key before a restart, and without
\* a seek), no settled message stays at the front of the log.
THEOREM SpaceComesBack == Sound => (Spec => []Reclaimed)
<1> SUFFICES ASSUME Sound PROVE Spec => []Reclaimed
  OBVIOUS
<1>1. Spec => [](IInv /\ HistInv /\ FlightInv)
  BY FlightInvariance
<1>2. Init => FrontInv
  <2> SUFFICES ASSUME Init PROVE FrontInv
    OBVIOUS
  <2>1. /\ DOMAIN active = {} /\ Offs(active) = {} /\ handed = {} /\ Settled = {}
        /\ Now.lo = 0 /\ Now.pos = 0 /\ Now.table = active
    BY DEF Init, Offs, Settled, Now
  <2> QED
    BY <2>1 DEF FrontInv, Front, Abreast, HandedOnce
<1>3. IInv /\ HistInv /\ FlightInv /\ FrontInv /\ [Next]_vars => FrontInv'
  BY FrontStep
<1>4. FrontInv => Reclaimed
  BY FrontMeans
<1> QED
  BY <1>1, <1>2, <1>3, <1>4, PTL DEF Spec
=============================================================================
