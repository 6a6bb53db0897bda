------------------------------ MODULE LfqProofs -------------------------------
(***************************************************************************)
(* Proofs about LfqRing: the types of its variables, the room and the      *)
(* limit it keeps, the reading of written frames only, the message count,  *)
(* the claims, and that the ring implements the FIFO channel.              *)
(*                                                                         *)
(* The proofs need the offset of every frame reserved so far.  The state   *)
(* does not keep the frames that were released, so the invariant says that *)
(* there is a sequence at of offsets, one for each message of sent, that   *)
(* the buffer agrees with: Layout(at).                                     *)
(***************************************************************************)
EXTENDS LfqRing, FiniteSetTheorems, SequenceTheorems, TLAPS

-----------------------------------------------------------------------------
\* The inductive invariant.

\* What the ring is meant for: one thread or frames of one size, and drop_old
\* only with one thread and without claims.  The other uses are those of the
\* run lfq_mixed, which shows the ring go wrong.
Sound(s) ==
  /\ s.one_thread \/ \A y, z \in s.sizes : y = z
  /\ s.backpressure = "drop_old" => s.one_thread /\ ~s.claims

\* The length of frame i, and the offset behind it.
Total(i) == FrameTotal(sent[i].size)
EndOf(at, i) == IF i = 0 THEN 0 ELSE at[i] + Total(i)

Frames == 1..Len(sent)
Unread == Len(out) + 1 .. Len(sent)

\* The frame's stores are all done, or padding lies in front of the next one.
Written(i) == i < Len(sent) \/ ppc # "fill"
Padded(at, i) == at[i + 1] # EndOf(at, i)

ReaderPc == {"idle", "index", "status", "length", "skip", "copy",
             "hold", "clear", "advance", "count"}

TypeInv ==
  /\ opts \in Scenarios /\ Sound(opts)
  /\ head \in Nat /\ tail \in Nat /\ depth \in Int
  /\ mem \in [0..(Capacity - 1) -> [len : Int, st : {EMPTY, COMMITTED, opts.payload}]]
  /\ ppc \in {"idle", "load", "publish", "fill", "count"}
  /\ rpc \in [Readers -> ReaderPc]
  /\ DOMAIN pl = {"msg", "pad", "off", "todo"} /\ pl.pad \in Nat /\ pl.off \in Nat
  /\ DOMAIN rl = Readers
  /\ \A p \in Readers : /\ DOMAIN rl[p] = {"mode", "cap", "h", "len", "msg"}
                        /\ rl[p].mode \in {"peek", "take", "claim"}

\* Every message a scenario can push.
AllMessages ==
  {Message(id, z) : id \in 1..MaxMsgs, z \in UNION {s.sizes : s \in Scenarios}}

\* The messages are numbered, fit the buffer and come out as they were sent.
MessageInv ==
  /\ sent \in Seq(AllMessages) /\ out \in Seq(AllMessages)
  /\ Len(sent) <= opts.pushes /\ Len(out) <= Len(sent)
  /\ \A i \in Frames : /\ sent[i].size \in opts.sizes /\ Total(i) <= Capacity
                       /\ sent[i] = Message(i, sent[i].size)
  /\ \A i \in 1..Len(out) : out[i] = sent[i]

\* Which calls are in progress at once, and what the producer has decided.
PcInv ==
  /\ rpc["prod"] # "idle" =>
       ppc = "load" /\ opts.backpressure = "drop_old" /\ rpc["cons"] = "idle"
  /\ opts.one_thread => ppc = "idle" \/ rpc["cons"] \in {"idle", "hold"}
  /\ rpc["cons"] = "hold" \/ rl["cons"].mode = "claim" => opts.claims
  /\ rpc["prod"] # "hold" /\ rl["prod"].mode # "claim"
  /\ ppc \in {"load", "publish"} =>
       \E z \in opts.sizes : /\ pl.msg = Message(Len(sent) + 1, z)
                             /\ Len(sent) < opts.pushes /\ FrameTotal(z) <= Capacity
  /\ ppc = "publish" =>
       /\ pl.pad = Padding(FrameTotal(pl.msg.size))
       /\ tail + pl.pad + FrameTotal(pl.msg.size) <= head + Capacity

\* The count lags behind the producer by one message and the consumer by one.
One(b) == IF b THEN 1 ELSE 0
DepthInv ==
  depth = Len(sent) - Len(out) - One(ppc \in {"fill", "count"})
            + One(rpc["cons"] = "count") + One(rpc["prod"] = "count")

\* The frames lie in order, each in one piece, right behind one another or
\* after padding to the end of the buffer; head is at a frame or the padding
\* before it, tail behind the last.
Places(at) ==
  /\ at \in [Frames -> Nat]
  /\ \A i \in Frames : Idx(at[i]) + Total(i) <= Capacity
  /\ \A i \in 0..(Len(sent) - 1) :
       \/ at[i + 1] = EndOf(at, i)
       \/ /\ at[i + 1] = EndOf(at, i) + (Capacity - Idx(EndOf(at, i)))
          /\ Idx(EndOf(at, i)) + Total(i + 1) > Capacity
  /\ \A i, j \in Frames : i < j => at[i] + Total(i) <= at[j]
  /\ tail = EndOf(at, Len(sent))
  /\ head = EndOf(at, Len(out)) \/ (Len(out) < Len(sent) /\ head = at[Len(out) + 1])
  /\ head <= tail /\ tail <= head + Capacity

\* Every frame takes the smallest frame's length at least.
Apart(at) ==
  \A i, j \in Frames : i < j => at[i] + (j - i) * FrameTotal(Min(opts.sizes)) <= at[j]

\* What divides the length of every frame divides every place in the buffer.
Multiples(at) ==
  \A g \in 1..Capacity : (\A z \in opts.sizes : (FrameTotal(z) % g) = 0) =>
    /\ (Idx(tail) % g) = 0
    /\ \A i \in Frames : (Idx(at[i]) % g) = 0

\* What is in the buffer for frame i: its length, its number and payload.
HasLength(at, i) == mem[Idx(at[i])].len = sent[i].size
HasBody(at, i) ==
  /\ mem[Idx(at[i]) + 1].len = i
  /\ \A d \in 1..sent[i].size : mem[Idx(at[i]) + (HdrCells + d - 1)].len = i

\* Every unread frame that is written is there, its status set, unless a pop
\* of it is past the clearing of the status.
Advancing == \E p \in Readers : rpc[p] = "advance"
FramesInv(at) ==
  \A i \in Unread : Written(i) =>
    /\ HasLength(at, i) /\ HasBody(at, i)
    /\ mem[Idx(at[i])].st = COMMITTED \/ (i = Len(out) + 1 /\ Advancing)

\* The frame being written: what is stored is there, and for a second thread
\* to see, its status is EMPTY until the last store.
FillInv(at) ==
  ppc = "fill" =>
    /\ Len(out) < Len(sent) /\ pl.msg = sent[Len(sent)] /\ pl.off = at[Len(sent)]
    /\ pl.todo \in {{"length", "body", "status"}, {"body", "status"}, {"status"}}
    /\ "length" \notin pl.todo => HasLength(at, Len(sent))
    /\ "body" \notin pl.todo => HasBody(at, Len(sent))
    /\ ~opts.one_thread => mem[Idx(at[Len(sent)])].st = EMPTY

\* Padding that was not skipped yet is marked.
PadsInv(at) ==
  \A i \in Len(out)..(Len(sent) - 1) :
    head <= EndOf(at, i) /\ Padded(at, i) =>
      mem[Idx(EndOf(at, i))] = PadWord(Capacity - Idx(EndOf(at, i)))

\* With two threads every place a frame may begin at, and none unread does,
\* has an EMPTY status: a frame of one size lies where others lay before.
SlotsInv(at) ==
  ~opts.one_thread =>
    \A z \in opts.sizes : \A c \in 0..(Capacity - FrameTotal(z)) :
      (c % FrameTotal(z)) = 0 /\ (\A i \in Unread : Idx(at[i]) # c) => mem[c].st = EMPTY

\* A reader inside a pop is at head, which is at padding or at the oldest
\* frame, and knows its length, later its message.
AtPadding(at) == head = EndOf(at, Len(out)) /\ Padded(at, Len(out))
AtFrame(at) == head = at[Len(out) + 1] /\ Written(Len(out) + 1)

ReaderOK(at, p) ==
  /\ rpc[p] \in {"status", "length", "skip", "copy", "hold", "clear", "advance"} =>
       rl[p].h = head /\ head < tail
  /\ rpc[p] = "length" => AtPadding(at) \/ AtFrame(at)
  /\ rpc[p] = "skip" => AtPadding(at) /\ rl[p].len = Idx(head) - Capacity
  /\ rpc[p] \in {"copy", "hold", "clear", "advance"} =>
       AtFrame(at) /\ rl[p].len = sent[Len(out) + 1].size
  /\ rpc[p] \in {"hold", "clear", "advance"} => rl[p].msg = sent[Len(out) + 1]
  /\ rpc[p] = "advance" => mem[Idx(head)].st = EMPTY

ReaderInv(at) == \A p \in Readers : ReaderOK(at, p)

Layout(at) ==
  /\ Places(at) /\ Apart(at) /\ Multiples(at)
  /\ FramesInv(at) /\ FillInv(at) /\ PadsInv(at) /\ SlotsInv(at) /\ ReaderInv(at)

Basics == TypeInv /\ MessageInv /\ PcInv /\ DepthInv

Inv(at) == Basics /\ Layout(at)

IInv == \E at : Inv(at)

-----------------------------------------------------------------------------
\* Arithmetic of the index into the buffer.

\* Quotient and remainder.
LEMMA DivMod ==
  ASSUME NEW C \in Nat \ {0}, NEW x \in Int
  PROVE  /\ x = C * (x \div C) + (x % C)
         /\ x \div C \in Int /\ (x % C) \in 0 .. C - 1
  OBVIOUS

\* The remainder is determined by any decomposition.
LEMMA RemainderUnique ==
  ASSUME NEW C \in Nat \ {0}, NEW a \in Int, NEW r \in 0 .. C - 1
  PROVE  ((C * a + r) % C) = r
  OBVIOUS

\* A positive number of turns is at least one turn.
LEMMA TurnsPositive ==
  ASSUME NEW C \in Nat \ {0}, NEW a \in Int, a >= 1 PROVE C * a >= C
  OBVIOUS

\* Two offsets less than a turn apart are at different places.
LEMMA SameWindow ==
  ASSUME NEW C \in Nat \ {0}, NEW x \in Int, NEW y \in Int, x < y, y < x + C
  PROVE  (x % C) # (y % C)
<1> DEFINE a == x \div C
           b == y \div C
<1>1. /\ x = C * a + (x % C) /\ y = C * b + (y % C)
      /\ a \in Int /\ b \in Int /\ (x % C) \in Int /\ (y % C) \in Int
  BY DivMod
<1> HIDE DEF a, b
<1>2. (x % C) = (y % C) => y - x = C * (b - a) /\ x - y = C * (a - b)
  BY <1>1
<1>3. ~(b - a >= 1 /\ (x % C) = (y % C))
  BY <1>1, <1>2, TurnsPositive
<1>4. ~(a - b >= 0 /\ (x % C) = (y % C))
  <2> SUFFICES ASSUME a - b >= 0, (x % C) = (y % C) PROVE FALSE
    OBVIOUS
  <2>1. C * (a - b) >= 0
    BY <1>1
  <2> QED
    BY <1>2, <2>1
<1> QED
  BY <1>1, <1>3, <1>4

\* What does not cross the end of the buffer is in one piece.
LEMMA InOnePiece ==
  ASSUME NEW C \in Nat \ {0}, NEW x \in Nat, NEW d \in Nat, (x % C) + d < C
  PROVE  ((x + d) % C) = (x % C) + d
<1> DEFINE a == x \div C
<1>1. x = C * a + (x % C) /\ a \in Int /\ (x % C) \in 0 .. C - 1
  BY DivMod
<1> HIDE DEF a
<1>2. x + d = C * a + ((x % C) + d) /\ (x % C) + d \in 0 .. C - 1
  BY <1>1
<1> QED
  BY <1>1, <1>2, RemainderUnique

\* The end of the buffer is its start.
LEMMA RoundTheEnd ==
  ASSUME NEW C \in Nat \ {0}, NEW x \in Nat
  PROVE  ((x + C - (x % C)) % C) = 0 /\ x + C - (x % C) \in Nat /\ x + C - (x % C) > x
<1> DEFINE a == x \div C
<1>1. x = C * a + (x % C) /\ a \in Int /\ (x % C) \in 0 .. C - 1
  BY DivMod
<1> HIDE DEF a
<1>2. x + C - (x % C) = C * (a + 1) + 0
  BY <1>1
<1>3. x + C - (x % C) \in Nat /\ x + C - (x % C) > x
  BY <1>1
<1>4. ((C * (a + 1) + 0) % C) = 0
  <2>1. a + 1 \in Int /\ 0 \in 0 .. C - 1
    BY <1>1
  <2> QED
    BY <2>1, RemainderUnique
<1>5. ((x + C - (x % C)) % C) = 0
  BY <1>2, <1>4
<1> QED
  BY <1>3, <1>5

\* Sums and differences of multiples.
LEMMA Multiple ==
  ASSUME NEW g \in Nat \ {0}, NEW x \in Nat, NEW y \in Nat, (x % g) = 0
  PROVE  ((x + y) % g) = (y % g)
<1> DEFINE a == x \div g
           b == y \div g
<1>1. x = g * a + (x % g) /\ y = g * b + (y % g) /\ a \in Int /\ b \in Int /\ (y % g) \in 0 .. g - 1
  BY DivMod
<1> HIDE DEF a, b
<1>2. x + y = g * (a + b) + (y % g)
  <2>1. g * (a + b) = g * a + g * b /\ g * a \in Int /\ g * b \in Int
    BY <1>1
  <2>2. x = g * a
    <3>1. x = g * a + 0
      BY <1>1
    <3> QED
      BY <2>1, <3>1
  <2>3. y = g * b + (y % g) /\ (y % g) \in Int
    BY <1>1
  <2> HIDE <1>1
  <2> QED
    BY <2>1, <2>2, <2>3
<1>3. ((g * (a + b) + (y % g)) % g) = (y % g)
  <2>1. a + b \in Int
    BY <1>1
  <2> QED
    BY <1>1, <2>1, RemainderUnique
<1> QED
  BY <1>2, <1>3

\* A multiple above zero is at least one.
LEMMA MultipleAtLeast ==
  ASSUME NEW g \in Nat \ {0}, NEW x \in Nat, (x % g) = 0, x > 0 PROVE x >= g
<1> DEFINE a == x \div g
<1>1. x = g * a + (x % g) /\ a \in Int
  BY DivMod
<1> HIDE DEF a
<1>2. ~(a <= 0)
  BY <1>1
<1>3. g * a >= g
  BY <1>1, <1>2, TurnsPositive
<1> QED
  BY <1>1, <1>3

\* Different multiples are at least one apart.
LEMMA MultiplesApart ==
  ASSUME NEW g \in Nat \ {0}, NEW x \in Nat, NEW y \in Nat, (x % g) = 0, (y % g) = 0, x < y
  PROVE  x + g <= y
<1>1. y - x \in Nat /\ x + (y - x) = y /\ y - x > 0
  OBVIOUS
<1> DEFINE d == y - x
<1>2. d \in Nat /\ x + d = y /\ d > 0 /\ y = x + d
  BY <1>1
<1> HIDE DEF d
<1>3. (d % g) = 0
  <2>1. ((x + d) % g) = (d % g)
    BY <1>2, Multiple
  <2> QED
    BY <1>2, <2>1
<1>4. d >= g
  BY <1>2, <1>3, MultipleAtLeast
<1> QED
  BY <1>2, <1>4


-----------------------------------------------------------------------------
\* What the invariant says of the numbers it speaks of.

\* The scenario in use.
LEMMA InUse ==
  ASSUME TypeInv
  PROVE  /\ Capacity \in Nat \ {0} /\ HdrCells \in Nat /\ HdrCells >= 2 /\ HdrCells <= Capacity
         /\ opts.sizes \in SUBSET Nat /\ opts.payload \in 0..2 /\ opts.pushes \in 0..MaxMsgs
         /\ MaxMsgs \in Nat /\ opts.trash \in Nat
  BY RingAssumption DEF TypeInv, Scenario, Capacity

\* An offset's place in the buffer.
LEMMA IdxIn ==
  ASSUME TypeInv, NEW x \in Nat PROVE Idx(x) \in 0..(Capacity - 1)
<1>1. Capacity \in Nat \ {0} /\ x \in Int
  BY InUse
<1>2. (x % Capacity) \in 0..(Capacity - 1)
  BY <1>1, DivMod
<1> QED
  BY <1>2 DEF Idx

\* The places do not move.
LEMMA IdxStays ==
  ASSUME opts' = opts PROVE Capacity' = Capacity /\ \A x : Idx(x)' = Idx(x)
  BY DEF Idx, Capacity

\* Inside one piece, the place moves with the offset.
LEMMA IdxPlus ==
  ASSUME TypeInv, NEW x \in Nat, NEW d \in Nat, Idx(x) + d < Capacity
  PROVE  Idx(x + d) = Idx(x) + d
  BY InUse, InOnePiece DEF Idx

\* Padding is a number of cells: none or what is left of the buffer.
LEMMA PaddingIn ==
  ASSUME TypeInv, NEW need
  PROVE  Padding(need) \in Nat
<1>1. Idx(tail) \in 0..(Capacity - 1) /\ Capacity \in Nat
  BY IdxIn, InUse DEF TypeInv
<1>2. Capacity - Idx(tail) \in Nat
  BY <1>1
<1> QED
  BY <1>2 DEF Padding

\* Pieces that follow one another within one turn have no cell in common.
LEMMA Clash ==
  ASSUME TypeInv, NEW x \in Nat, NEW y \in Nat, NEW n \in Nat, NEW m \in Nat,
         Idx(x) + n <= Capacity, Idx(y) + m <= Capacity, x + n <= y, y + m <= x + Capacity,
         NEW d \in 0..(n - 1), NEW e \in 0..(m - 1)
  PROVE  Idx(x) + d # Idx(y) + e
<1>1. Capacity \in Nat \ {0} /\ Idx(x) \in Nat /\ Idx(y) \in Nat
  BY InUse, IdxIn
<1>2. Idx(x + d) = Idx(x) + d /\ Idx(y + e) = Idx(y) + e
  BY <1>1, IdxPlus
<1>3. x + d \in Int /\ y + e \in Int /\ x + d < y + e /\ y + e < (x + d) + Capacity
  BY <1>1
<1>4. Idx(x + d) # Idx(y + e)
  BY <1>1, <1>3, SameWindow DEF Idx
<1> QED
  BY <1>2, <1>4

\* A frame has a header and fits the buffer.
LEMMA TotalIn ==
  ASSUME TypeInv, MessageInv, NEW i \in Frames
  PROVE  /\ sent[i].size \in Nat /\ sent[i].size \in opts.sizes
         /\ Total(i) = HdrCells + sent[i].size /\ Total(i) \in Nat
         /\ Total(i) >= 2 /\ Total(i) <= Capacity
  BY InUse DEF MessageInv, Total, FrameTotal

\* The numbers of messages.
LEMMA Lengths ==
  ASSUME MessageInv
  PROVE  /\ Len(sent) \in Nat /\ Len(out) \in Nat /\ Len(out) <= Len(sent)
         /\ Frames = 1..Len(sent) /\ Unread \subseteq Frames
  BY DEF MessageInv, Frames, Unread

\* Where the unread frames lie: between head and tail.
LEMMA Window ==
  ASSUME TypeInv, MessageInv, NEW at, Places(at), NEW i \in Unread
  PROVE  /\ i \in Frames /\ at[i] \in Nat
         /\ head <= at[i] /\ at[i] + Total(i) <= tail /\ tail <= head + Capacity
         /\ Idx(at[i]) + Total(i) <= Capacity /\ Idx(at[i]) \in 0..(Capacity - 1)
<1>1. /\ i \in Frames /\ Len(sent) \in Nat /\ Len(out) \in Nat
      /\ i \in 1..Len(sent) /\ i > Len(out) /\ Frames = 1..Len(sent) /\ Len(sent) \in Frames
      /\ Len(out) <= Len(sent)
  BY Lengths DEF Unread
<1>2. \A j \in Frames : at[j] \in Nat /\ Total(j) \in Nat
  BY TotalIn DEF Places
<1>3. at[i] + Total(i) <= tail
  <2>1. tail = at[Len(sent)] + Total(Len(sent))
    BY <1>1 DEF Places, EndOf
  <2>2. i # Len(sent) => at[i] + Total(i) <= at[Len(sent)]
    BY <1>1 DEF Places
  <2>3. CASE i = Len(sent)
    BY <2>1, <2>3
  <2>4. CASE i # Len(sent)
    <3>1. at[i] + Total(i) <= at[Len(sent)]
      BY <2>2, <2>4
    <3>2. /\ at[i] \in Nat /\ Total(i) \in Nat
          /\ at[Len(sent)] \in Nat /\ Total(Len(sent)) \in Nat
      BY <1>1, <1>2
    <3> QED
      BY <2>1, <3>1, <3>2
  <2> QED
    BY <2>3, <2>4
<1>4. EndOf(at, Len(out)) <= at[i]
  <2>1. CASE Len(out) = 0
    BY <1>1, <1>2, <2>1 DEF EndOf
  <2>2. CASE Len(out) # 0
    <3>1. Len(out) \in Frames /\ Len(out) < i
      BY <1>1, <2>2
    <3> QED
      BY <1>1, <2>2, <3>1 DEF EndOf, Places
  <2> QED
    BY <2>1, <2>2
<1>5. head <= at[i]
  <2>1. CASE head = EndOf(at, Len(out))
    BY <1>4, <2>1
  <2>2. CASE Len(out) < Len(sent) /\ head = at[Len(out) + 1]
    <3>1. Len(out) + 1 \in Frames
      BY <1>1
    <3>2. i = Len(out) + 1 \/ Len(out) + 1 < i
      BY <1>1
    <3>3. Len(out) + 1 < i => at[Len(out) + 1] + Total(Len(out) + 1) <= at[i]
      BY <1>1, <3>1 DEF Places
    <3> QED
      BY <1>1, <1>2, <2>2, <3>1, <3>2, <3>3
  <2> QED
    BY <2>1, <2>2 DEF Places
<1> QED
  BY <1>1, <1>2, <1>3, <1>5, IdxIn DEF Places

\* Two unread frames have no cell in common.
LEMMA Disjoint ==
  ASSUME TypeInv, MessageInv, NEW at, Places(at), NEW i \in Unread, NEW j \in Unread, i # j,
         NEW d \in 0..(Total(i) - 1), NEW e \in 0..(Total(j) - 1)
  PROVE  Idx(at[i]) + d # Idx(at[j]) + e
<1>1. \A k \in Unread :
        /\ k \in Frames /\ at[k] \in Nat /\ Total(k) \in Nat
        /\ head <= at[k] /\ at[k] + Total(k) <= tail /\ tail <= head + Capacity
        /\ Idx(at[k]) + Total(k) <= Capacity
  BY Window, TotalIn
<1>2. head \in Nat /\ tail \in Nat /\ Capacity \in Nat
  BY InUse DEF TypeInv
<1>3. i \in Int /\ j \in Int
  BY Lengths DEF Unread
<1>4. CASE i < j
  <2>1. at[i] + Total(i) <= at[j]
    BY <1>1, <1>4 DEF Places
  <2>2. at[j] + Total(j) <= at[i] + Capacity
    BY <1>1, <1>2
  <2> QED
    BY <1>1, <2>1, <2>2, Clash
<1>5. CASE j < i
  <2>1. at[j] + Total(j) <= at[i]
    BY <1>1, <1>5 DEF Places
  <2>2. at[i] + Total(i) <= at[j] + Capacity
    BY <1>1, <1>2
  <2>3. Idx(at[j]) + e # Idx(at[i]) + d
    BY <1>1, <2>1, <2>2, Clash
  <2> QED
    BY <2>3
<1> QED
  BY <1>3, <1>4, <1>5

\* Where a padding lies: between two frames, inside the window.
LEMMA PadWindow ==
  ASSUME TypeInv, MessageInv, NEW at, Places(at),
         NEW i \in Len(out)..(Len(sent) - 1), Padded(at, i)
  PROVE  /\ EndOf(at, i) \in Nat /\ Idx(EndOf(at, i)) \in 0..(Capacity - 1)
         /\ at[i + 1] = EndOf(at, i) + (Capacity - Idx(EndOf(at, i)))
         /\ EndOf(at, i) < at[i + 1] /\ at[i + 1] < tail
         /\ \A j \in Unread : /\ j <= i => at[j] + Total(j) <= EndOf(at, i)
                              /\ j > i => EndOf(at, i) + 1 <= at[j]
<1>1. /\ Len(sent) \in Nat /\ Len(out) \in Nat /\ i \in 0..(Len(sent) - 1)
      /\ i + 1 \in Unread /\ i + 1 \in Frames /\ Frames = 1..Len(sent) /\ Unread \subseteq Frames
  BY Lengths DEF Unread
<1>2. \A j \in Frames : at[j] \in Nat /\ Total(j) \in Nat /\ Total(j) >= 2
  BY TotalIn DEF Places
<1>3. EndOf(at, i) \in Nat
  BY <1>1, <1>2 DEF EndOf
<1>4. Idx(EndOf(at, i)) \in 0..(Capacity - 1) /\ Capacity \in Nat
  BY <1>3, IdxIn, InUse
<1>5. at[i + 1] = EndOf(at, i) + (Capacity - Idx(EndOf(at, i)))
  BY <1>1 DEF Places, Padded
<1>6. EndOf(at, i) < at[i + 1]
  BY <1>3, <1>4, <1>5
<1>7. at[i + 1] < tail
  <2>1. at[i + 1] + Total(i + 1) <= tail
    BY <1>1, Window
  <2>2. tail \in Nat
    BY DEF TypeInv
  <2> QED
    BY <1>1, <1>2, <2>1, <2>2
<1>8. ASSUME NEW j \in Unread, j <= i PROVE at[j] + Total(j) <= EndOf(at, i)
  <2>1. j \in Frames /\ i \in Frames /\ i # 0 /\ j \in Int /\ i \in Int
    BY <1>1, <1>8
  <2>2. EndOf(at, i) = at[i] + Total(i)
    BY <2>1 DEF EndOf
  <2>3. j < i => at[j] + Total(j) <= at[i]
    BY <2>1 DEF Places
  <2> QED
    BY <1>2, <1>8, <2>1, <2>2, <2>3, SMTT(40)
<1>9. ASSUME NEW j \in Unread, j > i PROVE EndOf(at, i) + 1 <= at[j]
  <2>1. j \in Frames /\ j \in Int /\ i \in Int
    BY <1>1
  <2>2. i + 1 < j => at[i + 1] + Total(i + 1) <= at[j]
    BY <1>1, <2>1 DEF Places
  <2>3. i + 1 = j \/ i + 1 < j
    BY <1>9, <2>1
  <2> QED
    BY <1>1, <1>2, <1>3, <1>6, <2>1, <2>2, <2>3, SMTT(40)
<1> QED
  BY <1>3, <1>4, <1>5, <1>6, <1>7, <1>8, <1>9

\* A padding's mark is in no unread frame.
LEMMA PadApart ==
  ASSUME TypeInv, MessageInv, NEW at, Places(at),
         NEW i \in Len(out)..(Len(sent) - 1), head <= EndOf(at, i), Padded(at, i),
         NEW j \in Unread, NEW d \in 0..(Total(j) - 1)
  PROVE  Idx(at[j]) + d # Idx(EndOf(at, i))
<1> DEFINE x == EndOf(at, i)
<1>1. /\ j \in Frames /\ at[j] \in Nat /\ Total(j) \in Nat
      /\ head <= at[j] /\ at[j] + Total(j) <= tail /\ tail <= head + Capacity
      /\ Idx(at[j]) + Total(j) <= Capacity
  BY Window, TotalIn
<1>2. head \in Nat /\ tail \in Nat /\ Capacity \in Nat /\ i \in Int /\ j \in Int
  BY InUse, Lengths DEF TypeInv, Unread
<1>3. /\ x \in Nat /\ Idx(x) \in 0..(Capacity - 1) /\ x < at[i + 1] /\ at[i + 1] < tail
      /\ j <= i => at[j] + Total(j) <= x
      /\ j > i => x + 1 <= at[j]
  BY PadWindow
<1>4. at[i + 1] \in Nat
  BY PadWindow, <1>2, SMTT(40)
<1>5. head <= x
  OBVIOUS
<1> HIDE DEF x
<1>6. Idx(x) + 1 <= Capacity /\ 0 \in 0..(1 - 1) /\ 1 \in Nat /\ Idx(x) + 0 = Idx(x)
  BY <1>2, <1>3
<1>7. CASE j <= i
  <2>1. x + 1 <= at[j] + Capacity
    <3>1. x + 1 <= tail
      BY <1>2, <1>3, <1>4
    <3>2. tail <= at[j] + Capacity
      BY <1>1, <1>2
    <3>3. at[j] + Capacity \in Nat
      BY <1>1, <1>2
    <3> QED
      BY <1>2, <1>3, <3>1, <3>2, <3>3
  <2>2. Idx(at[j]) + d # Idx(x) + 0
    BY <1>1, <1>3, <1>6, <1>7, <2>1, Clash, SMTT(40)
  <2> QED
    BY <1>6, <2>2 DEF x
<1>8. CASE j > i
  <2>1. at[j] + Total(j) <= x + Capacity
    BY <1>1, <1>2, <1>3, <1>5, SMTT(40)
  <2>2. Idx(x) + 0 # Idx(at[j]) + d
    BY <1>1, <1>3, <1>6, <1>8, <2>1, Clash, SMTT(40)
  <2> QED
    BY <1>6, <2>2 DEF x
<1> QED
  BY <1>2, <1>7, <1>8

-----------------------------------------------------------------------------
\* What a step leaves alone.

\* The distances of the frames do not depend on head and the messages out.
LEMMA DistancesStay ==
  ASSUME NEW at, UNCHANGED <<opts, tail, sent>>, Apart(at), Multiples(at)
  PROVE  Apart(at)' /\ Multiples(at)'
<1>1. Capacity' = Capacity /\ \A x : Idx(x)' = Idx(x)
  BY IdxStays
<1>2. Frames' = Frames
  BY DEF Frames
<1>3. Apart(at)'
  BY <1>1, <1>2 DEF Apart
<1>4. Multiples(at)'
  BY <1>1, <1>2 DEF Multiples
<1> QED
  BY <1>3, <1>4

\* The frames stay where they are.
LEMMA PlacesStay ==
  ASSUME NEW at, UNCHANGED <<opts, head, tail, sent, out>>, Places(at)
  PROVE  Places(at)'
<1>1. Capacity' = Capacity /\ \A x : Idx(x)' = Idx(x)
  BY IdxStays
<1>2. /\ Frames' = Frames
      /\ \A i : Total(i)' = Total(i) /\ EndOf(at, i)' = EndOf(at, i)
  BY DEF Frames, Total, EndOf
<1> QED
  BY <1>1, <1>2 DEF Places

\* The padding and the empty places stay with the buffer.
LEMMA CellsStay ==
  ASSUME NEW at, UNCHANGED <<opts, head, tail, mem, sent, out>>, PadsInv(at), SlotsInv(at)
  PROVE  PadsInv(at)' /\ SlotsInv(at)'
<1>1. Capacity' = Capacity /\ \A x : Idx(x)' = Idx(x)
  BY IdxStays
<1>2. /\ Unread' = Unread
      /\ \A i : EndOf(at, i)' = EndOf(at, i) /\ (Padded(at, i)' <=> Padded(at, i))
  BY DEF Unread, Total, EndOf, Padded
<1>3. PadsInv(at)'
  BY <1>1, <1>2 DEF PadsInv
<1>4. SlotsInv(at)'
  BY <1>1, <1>2 DEF SlotsInv
<1> QED
  BY <1>3, <1>4

\* The contents of the frames stay with the buffer.
LEMMA FramesStay ==
  ASSUME NEW at, UNCHANGED <<opts, mem, sent, out>>, FramesInv(at),
         ppc' = "fill" <=> ppc = "fill", Advancing => Advancing'
  PROVE  FramesInv(at)'
<1>1. \A x : Idx(x)' = Idx(x)
  BY IdxStays
<1>2. Unread' = Unread /\ \A i : Written(i)' <=> Written(i)
  BY DEF Unread, Written
<1>3. \A i : (HasLength(at, i)' <=> HasLength(at, i)) /\ (HasBody(at, i)' <=> HasBody(at, i))
  BY <1>1 DEF HasLength, HasBody
<1> QED
  BY <1>1, <1>2, <1>3 DEF FramesInv

\* The frame being written stays with the buffer.
LEMMA FillStays ==
  ASSUME NEW at, UNCHANGED <<opts, mem, sent, out>>, FillInv(at),
         ppc' = "fill" <=> ppc = "fill", ppc = "fill" => pl' = pl
  PROVE  FillInv(at)'
<1>1. \A x : Idx(x)' = Idx(x)
  BY IdxStays
<1>2. \A i : (HasLength(at, i)' <=> HasLength(at, i)) /\ (HasBody(at, i)' <=> HasBody(at, i))
  BY <1>1 DEF HasLength, HasBody
<1> QED
  BY <1>1, <1>2 DEF FillInv

\* A step that moves neither the ring nor the stores of the producer keeps the
\* layout, if the readers may be where it takes them.
LEMMA ControlStep ==
  ASSUME NEW at, Layout(at), UNCHANGED <<opts, head, tail, mem, sent, out>>,
         ppc' = "fill" <=> ppc = "fill", ppc = "fill" => pl' = pl,
         Advancing => Advancing', ReaderInv(at)'
  PROVE  Layout(at)'
<1>1. Places(at)' /\ Apart(at)' /\ Multiples(at)'
  BY PlacesStay, DistancesStay DEF Layout
<1>2. PadsInv(at)' /\ SlotsInv(at)'
  BY CellsStay DEF Layout
<1>3. FramesInv(at)'
  BY FramesStay DEF Layout
<1>4. FillInv(at)'
  BY FillStays DEF Layout
<1> QED
  BY <1>1, <1>2, <1>3, <1>4 DEF Layout

\* Where head is stays with the ring.
LEMMA HeadStays ==
  ASSUME NEW at, UNCHANGED <<opts, head, tail, mem, sent, out>>, ppc' = "fill" <=> ppc = "fill"
  PROVE  (AtPadding(at)' <=> AtPadding(at)) /\ (AtFrame(at)' <=> AtFrame(at))
<1>1. /\ Written(Len(out) + 1)' <=> Written(Len(out) + 1)
      /\ EndOf(at, Len(out))' = EndOf(at, Len(out))
      /\ Padded(at, Len(out))' <=> Padded(at, Len(out))
  BY DEF Written, EndOf, Total, Padded
<1> QED
  BY <1>1 DEF AtPadding, AtFrame

\* What a reader knows of the ring, a step elsewhere does not change.
LEMMA ReaderStays ==
  ASSUME NEW at, NEW p \in Readers, ReaderOK(at, p), UNCHANGED <<opts, head, tail, mem, sent, out>>,
         rpc'[p] = rpc[p], rl'[p] = rl[p], ppc' = "fill" <=> ppc = "fill"
  PROVE  ReaderOK(at, p)'
<1>1. Capacity' = Capacity /\ \A x : Idx(x)' = Idx(x)
  BY IdxStays
<1>2. (AtPadding(at)' <=> AtPadding(at)) /\ (AtFrame(at)' <=> AtFrame(at))
  BY HeadStays
<1> QED
  BY <1>1, <1>2 DEF ReaderOK

-----------------------------------------------------------------------------
\* The producer's steps that leave the ring alone.

LEMMA PushCallInv ==
  ASSUME NEW at, Inv(at), NEW size \in opts.sizes, PushCall(size) PROVE Inv(at)'
<1> USE DEF Inv, Basics
<1>1. /\ ppc = "idle" /\ ppc' = "load" /\ rpc["prod"] = "idle" /\ rl["prod"].mode # "claim"
      /\ UNCHANGED <<opts, head, tail, mem, depth, sent, out>>
      /\ Len(sent) < opts.pushes /\ FrameTotal(size) <= Capacity
      /\ opts.one_thread => rpc["cons"] \in {"idle", "hold"}
  BY DEF PushCall, PcInv, ringVars, histVars
<1>2. /\ pl' = [pl EXCEPT !.msg = Message(Len(sent) + 1, size)]
      /\ DOMAIN pl' = {"msg", "pad", "off", "todo"}
      /\ pl'.msg = Message(Len(sent) + 1, size) /\ pl'.pad = pl.pad /\ pl'.off = pl.off
  BY DEF PushCall, TypeInv
<1>3. /\ rpc' \in [Readers -> ReaderPc]
      /\ rpc'["cons"] = rpc["cons"] /\ rpc'["prod"] \in {"idle", "index"}
      /\ rpc'["prod"] = "index" => opts.backpressure = "drop_old"
  <2>1. CASE DecideFull(depth) = "drop"
    <3>1. rpc' = [rpc EXCEPT !["prod"] = "index"]
      BY <2>1 DEF PushCall
    <3>2. opts.backpressure = "drop_old"
      BY <2>1 DEF DecideFull
    <3> QED
      BY <3>1, <3>2 DEF TypeInv, Readers, ReaderPc
  <2>2. CASE DecideFull(depth) # "drop"
    BY <1>1, <2>2 DEF PushCall, TypeInv, Readers, readVars
  <2> QED
    BY <2>1, <2>2
<1>4. /\ DOMAIN rl' = Readers /\ rl'["cons"] = rl["cons"]
      /\ DOMAIN rl'["prod"] = {"mode", "cap", "h", "len", "msg"}
      /\ rl'["prod"].mode \in {"peek", "take"}
  <2>0. /\ DOMAIN rl = Readers /\ "prod" \in Readers /\ "cons" \in Readers
        /\ DOMAIN rl["prod"] = {"mode", "cap", "h", "len", "msg"}
        /\ rl["prod"].mode \in {"peek", "take"}
    BY <1>1 DEF TypeInv, Readers
  <2>1. CASE DecideFull(depth) = "drop"
    <3>1. rl' = [rl EXCEPT !["prod"].mode = "take", !["prod"].cap = opts.trash]
      BY <2>1 DEF PushCall
    <3> QED
      BY <2>0, <3>1
  <2>2. CASE DecideFull(depth) # "drop"
    BY <2>0, <2>2 DEF PushCall, readVars
  <2> QED
    BY <2>1, <2>2
<1>5. TypeInv'
  BY <1>1, <1>2, <1>3, <1>4 DEF TypeInv, Readers, Capacity
<1>6. MessageInv'
  BY <1>1 DEF MessageInv, Frames, Total, Capacity
<1>7. PcInv'
  <2>1. rpc'["prod"] = "index" => rpc'["cons"] = "idle"
    BY <1>1, <1>3 DEF TypeInv, Sound, PcInv
  <2>2. \E z \in opts.sizes : /\ pl'.msg = Message(Len(sent) + 1, z)
                              /\ Len(sent) < opts.pushes /\ FrameTotal(z) <= Capacity
    BY <1>1, <1>2
  <2>3. rpc'["cons"] = "hold" \/ rl'["cons"].mode = "claim" => opts.claims
    BY <1>3, <1>4 DEF PcInv
  <2> QED
    BY <1>1, <1>3, <1>4, <2>1, <2>2, <2>3 DEF PcInv, Capacity
<1>8. DepthInv'
  BY <1>1, <1>3 DEF DepthInv, One
<1>9. ReaderInv(at)'
  <2>1. ReaderOK(at, "cons")'
    <3>1. ReaderOK(at, "cons") /\ "cons" \in Readers
      BY DEF Layout, ReaderInv, Readers
    <3> QED
      BY <1>1, <1>3, <1>4, <3>1, ReaderStays
  <2>2. ReaderOK(at, "prod")'
    BY <1>3 DEF ReaderOK
  <2> QED
    BY <2>1, <2>2 DEF ReaderInv, Readers
<1>10. Advancing => Advancing'
  BY <1>1, <1>3 DEF Advancing, Readers
<1>11. Layout(at)'
  BY <1>1, <1>9, <1>10, ControlStep
<1> QED
  BY <1>5, <1>6, <1>7, <1>8, <1>11

LEMMA LoadHeadInv ==
  ASSUME NEW at, Inv(at), LoadHead PROVE Inv(at)'
<1> USE DEF Inv, Basics
<1> DEFINE need == FrameTotal(pl.msg.size)
           pad  == Padding(need)
<1>1. /\ ppc = "load" /\ ppc' \in {"idle", "publish"} /\ rpc["prod"] = "idle"
      /\ UNCHANGED <<opts, head, tail, mem, depth, rpc, rl, sent, out>>
  BY DEF LoadHead, ringVars, readVars, histVars
<1>2. pad \in Nat
  BY PaddingIn
<1>3. PICK z \in opts.sizes : /\ pl.msg = Message(Len(sent) + 1, z)
                              /\ Len(sent) < opts.pushes /\ FrameTotal(z) <= Capacity
  BY <1>1 DEF PcInv
<1>4. need \in Nat
  BY <1>3, InUse DEF Message, FrameTotal
<1>5. /\ DOMAIN pl' = {"msg", "pad", "off", "todo"}
      /\ pl'.msg = pl.msg /\ pl'.off = pl.off /\ pl'.pad \in Nat
      /\ ppc' = "publish" => pl'.pad = pad /\ ~NoRoom(head, pad + need)
  <2>1. CASE NoRoom(head, pad + need)
    BY <1>1, <2>1 DEF LoadHead, TypeInv
  <2>2. CASE ~NoRoom(head, pad + need)
    <3>1. pl' = [pl EXCEPT !.pad = pad]
      BY <2>2 DEF LoadHead
    <3> HIDE DEF pad
    <3> QED
      BY <1>2, <2>2, <3>1 DEF TypeInv
  <2> QED
    BY <2>1, <2>2
<1>6. ppc' = "publish" => tail + pad + need <= head + Capacity
  <2> SUFFICES ASSUME ppc' = "publish" PROVE tail + pad + need <= head + Capacity
    OBVIOUS
  <2>1. ~NoRoom(head, pad + need)
    BY <1>5
  <2>3. pad \in Int /\ need \in Int /\ head \in Int /\ tail \in Int /\ Capacity \in Int
    BY <1>2, <1>4, InUse DEF TypeInv
  <2> HIDE DEF pad, need
  <2>2. tail - head + (pad + need) <= Capacity
    BY <2>1, <2>3 DEF NoRoom
  <2> QED
    BY <2>2, <2>3
<1>7. TypeInv'
  BY <1>1, <1>5 DEF TypeInv, Capacity
<1>8. MessageInv'
  BY <1>1 DEF MessageInv, Frames, Total, Capacity
<1>9. PcInv'
  <2>1. Capacity' = Capacity /\ Idx(tail)' = Idx(tail)
    BY <1>1 DEF Idx, Capacity
  <2>2. ppc' = "publish" =>
          /\ (pl.pad)' = Padding(FrameTotal(pl.msg.size))'
          /\ (tail + pl.pad + FrameTotal(pl.msg.size) <= head + Capacity)'
    <3>1. Padding(FrameTotal(pl.msg.size))' = pad
      BY <1>1, <1>5, <2>1 DEF Padding, FrameTotal
    <3>2. FrameTotal(pl.msg.size)' = need
      BY <1>5 DEF FrameTotal
    <3> QED
      BY <1>1, <1>5, <1>6, <2>1, <3>1, <3>2
  <2>3. (\E y \in opts.sizes : /\ pl.msg = Message(Len(sent) + 1, y)
                               /\ Len(sent) < opts.pushes /\ FrameTotal(y) <= Capacity)'
    BY <1>1, <1>3, <1>5, <2>1 DEF Message, FrameTotal
  <2> QED
    BY <1>1, <2>2, <2>3 DEF PcInv
<1>10. DepthInv'
  BY <1>1 DEF DepthInv, One
<1>11. ReaderInv(at)'
  <2> SUFFICES ASSUME NEW p \in Readers PROVE ReaderOK(at, p)'
    BY DEF ReaderInv
  <2>1. ReaderOK(at, p)
    BY DEF Layout, ReaderInv
  <2> QED
    BY <1>1, <2>1, ReaderStays
<1>12. Advancing => Advancing'
  BY <1>1 DEF Advancing
<1>13. Layout(at)'
  BY <1>1, <1>11, <1>12, ControlStep
<1> QED
  BY <1>7, <1>8, <1>9, <1>10, <1>13

LEMMA CountPushInv ==
  ASSUME NEW at, Inv(at), CountPush PROVE Inv(at)'
<1> USE DEF Inv, Basics
<1>1. /\ ppc = "count" /\ ppc' = "idle" /\ depth' = depth + 1
      /\ UNCHANGED <<opts, head, tail, mem, pl, rpc, rl, sent, out>>
  BY DEF CountPush, ringVars, readVars, histVars
<1>2. TypeInv'
  BY <1>1 DEF TypeInv, Capacity
<1>3. MessageInv'
  BY <1>1 DEF MessageInv, Frames, Total, Capacity
<1>4. PcInv'
  BY <1>1 DEF PcInv
<1>5. DepthInv'
  <2>1. Len(sent) \in Int /\ Len(out) \in Int /\ depth \in Int
    BY Lengths DEF TypeInv
  <2> QED
    BY <1>1, <2>1 DEF DepthInv, One
<1>6. ReaderInv(at)'
  <2> SUFFICES ASSUME NEW p \in Readers PROVE ReaderOK(at, p)'
    BY DEF ReaderInv
  <2>1. ReaderOK(at, p)
    BY DEF Layout, ReaderInv
  <2> QED
    BY <1>1, <2>1, ReaderStays
<1>7. Advancing => Advancing'
  BY <1>1 DEF Advancing
<1>8. Layout(at)'
  BY <1>1, <1>6, <1>7, ControlStep
<1> QED
  BY <1>2, <1>3, <1>4, <1>5, <1>8

-----------------------------------------------------------------------------
\* The readers' steps that leave the ring alone.

\* Such a step moves one reader, whose knowledge has to hold where it goes.
LEMMA ReaderStep ==
  ASSUME NEW at, Inv(at), NEW p \in Readers, NEW l \in ReaderPc,
         UNCHANGED <<opts, head, tail, mem, depth, ppc, pl, sent, out>>,
         rpc' = [rpc EXCEPT ![p] = l], rpc[p] \notin {"advance", "count"}, l # "count",
         DOMAIN rl' = Readers, \A q \in Readers : q # p => rl'[q] = rl[q],
         DOMAIN rl'[p] = {"mode", "cap", "h", "len", "msg"},
         rl'[p].mode \in {"peek", "take", "claim"},
         p = "prod" => rpc[p] # "idle" /\ l # "hold" /\ rl'[p].mode # "claim",
         p = "cons" /\ (l = "hold" \/ rl'[p].mode = "claim") => opts.claims,
         p = "cons" /\ rpc[p] \in {"idle", "hold"} /\ opts.one_thread => ppc = "idle",
         ReaderOK(at, p)'
  PROVE  Inv(at)'
<1> USE DEF Inv, Basics
<1>1. \A q \in Readers : rpc'[q] = IF q = p THEN l ELSE rpc[q]
  BY DEF TypeInv
<1>2. TypeInv'
  <2>1. rpc' \in [Readers -> ReaderPc]
    BY DEF TypeInv
  <2>2. \A q \in Readers : /\ DOMAIN rl'[q] = {"mode", "cap", "h", "len", "msg"}
                           /\ rl'[q].mode \in {"peek", "take", "claim"}
    BY DEF TypeInv
  <2> QED
    BY <2>1, <2>2 DEF TypeInv, Capacity
<1>3. MessageInv'
  BY DEF MessageInv, Frames, Total, Capacity
<1>4. "cons" \in Readers /\ "prod" \in Readers /\ (p = "cons" \/ p = "prod")
  BY DEF Readers
<1>5. PcInv'
  <2>0. opts' = opts /\ ppc' = ppc /\ pl' = pl /\ sent' = sent /\ head' = head /\ tail' = tail
    OBVIOUS
  <2>1. Capacity' = Capacity /\ Idx(tail)' = Idx(tail)
    BY <2>0 DEF Idx, Capacity
  <2>2. /\ ppc \in {"load", "publish"} =>
             \E z \in opts.sizes : /\ pl.msg = Message(Len(sent) + 1, z)
                                   /\ Len(sent) < opts.pushes /\ FrameTotal(z) <= Capacity
        /\ ppc = "publish" =>
             /\ pl.pad = Padding(FrameTotal(pl.msg.size))
             /\ tail + pl.pad + FrameTotal(pl.msg.size) <= head + Capacity
    BY DEF PcInv
  <2>3. (/\ ppc \in {"load", "publish"} =>
              \E z \in opts.sizes : /\ pl.msg = Message(Len(sent) + 1, z)
                                    /\ Len(sent) < opts.pushes /\ FrameTotal(z) <= Capacity
         /\ ppc = "publish" =>
              /\ pl.pad = Padding(FrameTotal(pl.msg.size))
              /\ tail + pl.pad + FrameTotal(pl.msg.size) <= head + Capacity)'
    BY <2>0, <2>1, <2>2 DEF Padding
  <2>4. rpc'["prod"] # "idle" =>
          ppc' = "load" /\ opts'.backpressure = "drop_old" /\ rpc'["cons"] = "idle"
    <3>1. rpc'["prod"] # "idle" => rpc["prod"] # "idle"
      BY <1>1, <1>4
    <3>2. rpc["prod"] # "idle" => opts.one_thread /\ ppc = "load" /\ rpc["cons"] = "idle"
                                    /\ opts.backpressure = "drop_old"
      BY DEF PcInv, TypeInv, Sound
    <3>3. rpc["prod"] # "idle" => p # "cons"
      BY <3>2
    <3> QED
      BY <1>1, <1>4, <2>0, <3>1, <3>2, <3>3
  <2>5. opts.one_thread => ppc = "idle" \/ rpc'["cons"] \in {"idle", "hold"}
    BY <1>1, <1>4 DEF PcInv
  <2>6. /\ rpc'["cons"] = "hold" \/ rl'["cons"].mode = "claim" => opts.claims
        /\ rpc'["prod"] # "hold" /\ rl'["prod"].mode # "claim"
    BY <1>1, <1>4 DEF PcInv
  <2> QED
    BY <2>0, <2>3, <2>4, <2>5, <2>6 DEF PcInv
<1>6. DepthInv'
  BY <1>1, <1>4 DEF DepthInv, One
<1>7. ReaderInv(at)'
  <2> SUFFICES ASSUME NEW q \in Readers PROVE ReaderOK(at, q)'
    BY DEF ReaderInv
  <2>1. ReaderOK(at, q)
    BY DEF Layout, ReaderInv
  <2>2. q # p => rpc'[q] = rpc[q] /\ rl'[q] = rl[q]
    BY <1>1
  <2> QED
    BY <2>1, <2>2, ReaderStays
<1>8. Advancing => Advancing'
  BY <1>1 DEF Advancing
<1>9. Layout(at)'
  BY <1>7, <1>8, ControlStep
<1> QED
  BY <1>2, <1>3, <1>5, <1>6, <1>9

\* One reader's locals after an assignment to them.
LEMMA LocalsIn ==
  ASSUME TypeInv, NEW p \in Readers, NEW v, rl' = [rl EXCEPT ![p] = v],
         DOMAIN v = {"mode", "cap", "h", "len", "msg"}, v.mode \in {"peek", "take", "claim"}
  PROVE  /\ DOMAIN rl' = Readers /\ rl'[p] = v
         /\ \A q \in Readers : q # p => rl'[q] = rl[q]
         /\ DOMAIN rl'[p] = {"mode", "cap", "h", "len", "msg"}
         /\ rl'[p].mode \in {"peek", "take", "claim"}
  BY DEF TypeInv

LEMMA LocalsStay ==
  ASSUME TypeInv, NEW p \in Readers, rl' = rl
  PROVE  /\ DOMAIN rl' = Readers /\ rl'[p] = rl[p]
         /\ \A q \in Readers : q # p => rl'[q] = rl[q]
         /\ DOMAIN rl'[p] = {"mode", "cap", "h", "len", "msg"}
         /\ rl'[p].mode \in {"peek", "take", "claim"}
  BY DEF TypeInv

\* The consumer's calls begin a pop.
LEMMA PopCallInv ==
  ASSUME NEW at, Inv(at), NEW cap, PopCall(cap) PROVE Inv(at)'
<1>1. /\ rpc["cons"] = "idle" /\ (opts.one_thread => ppc = "idle")
      /\ rpc' = [rpc EXCEPT !["cons"] = "index"]
      /\ UNCHANGED <<opts, head, tail, mem, depth, ppc, pl, sent, out>>
  BY DEF PopCall, GoTo, ringVars, prodVars, histVars
<1> DEFINE v == [rl["cons"] EXCEPT !.mode = "peek", !.cap = cap]
<1>2. TypeInv /\ "cons" \in Readers /\ "index" \in ReaderPc
  BY DEF Inv, Basics, Readers, ReaderPc
<1>3. DOMAIN v = {"mode", "cap", "h", "len", "msg"} /\ v.mode = "peek"
  BY <1>2 DEF TypeInv
<1>4. rl' = [rl EXCEPT !["cons"] = v]
  BY DEF PopCall
<1> HIDE DEF v
<1>5. /\ DOMAIN rl' = Readers /\ rl'["cons"] = v
      /\ \A q \in Readers : q # "cons" => rl'[q] = rl[q]
      /\ DOMAIN rl'["cons"] = {"mode", "cap", "h", "len", "msg"}
      /\ rl'["cons"].mode = "peek"
  BY <1>2, <1>3, <1>4, LocalsIn
<1>6. ReaderOK(at, "cons")'
  <2>1. rpc'["cons"] = "index"
    BY <1>1, <1>2 DEF TypeInv
  <2> QED
    BY <2>1 DEF ReaderOK
<1> QED
  BY <1>1, <1>2, <1>5, <1>6, ReaderStep

LEMMA ClaimCallInv ==
  ASSUME NEW at, Inv(at), ClaimCall PROVE Inv(at)'
<1>1. /\ rpc["cons"] = "idle" /\ (opts.one_thread => ppc = "idle") /\ opts.claims
      /\ rpc' = [rpc EXCEPT !["cons"] = "index"]
      /\ UNCHANGED <<opts, head, tail, mem, depth, ppc, pl, sent, out>>
  BY DEF ClaimCall, GoTo, ringVars, prodVars, histVars
<1> DEFINE v == [rl["cons"] EXCEPT !.mode = "claim"]
<1>2. TypeInv /\ "cons" \in Readers /\ "index" \in ReaderPc
  BY DEF Inv, Basics, Readers, ReaderPc
<1>3. DOMAIN v = {"mode", "cap", "h", "len", "msg"} /\ v.mode = "claim"
  BY <1>2 DEF TypeInv
<1>4. rl' = [rl EXCEPT !["cons"] = v]
  BY DEF ClaimCall
<1> HIDE DEF v
<1>5. /\ DOMAIN rl' = Readers /\ rl'["cons"] = v
      /\ \A q \in Readers : q # "cons" => rl'[q] = rl[q]
      /\ DOMAIN rl'["cons"] = {"mode", "cap", "h", "len", "msg"}
      /\ rl'["cons"].mode = "claim"
  BY <1>2, <1>3, <1>4, LocalsIn
<1>6. ReaderOK(at, "cons")'
  <2>1. rpc'["cons"] = "index"
    BY <1>1, <1>2 DEF TypeInv
  <2> QED
    BY <2>1 DEF ReaderOK
<1> QED
  BY <1>1, <1>2, <1>5, <1>6, ReaderStep

\* A claim is given back: the pop goes on where the claim left it.
LEMMA ReleaseClaimInv ==
  ASSUME NEW at, Inv(at), ReleaseClaim PROVE Inv(at)'
<1>1. /\ rpc["cons"] = "hold" /\ (opts.one_thread => ppc = "idle")
      /\ rpc' = [rpc EXCEPT !["cons"] = "clear"] /\ rl' = rl
      /\ UNCHANGED <<opts, head, tail, mem, depth, ppc, pl, sent, out>>
  BY DEF ReleaseClaim, GoTo, ringVars, prodVars, histVars
<1>2. TypeInv /\ PcInv /\ "cons" \in Readers /\ "clear" \in ReaderPc
  BY DEF Inv, Basics, Readers, ReaderPc
<1>3. /\ DOMAIN rl' = Readers /\ rl'["cons"] = rl["cons"]
      /\ \A q \in Readers : q # "cons" => rl'[q] = rl[q]
      /\ DOMAIN rl'["cons"] = {"mode", "cap", "h", "len", "msg"}
      /\ rl'["cons"].mode \in {"peek", "take", "claim"}
  BY <1>1, <1>2, LocalsStay
<1>4. ReaderOK(at, "cons")'
  <2>1. rpc'["cons"] = "clear"
    BY <1>1, <1>2 DEF TypeInv
  <2>2. (AtFrame(at)' <=> AtFrame(at))
    BY <1>1, HeadStays
  <2>3. ReaderOK(at, "cons")
    BY <1>2 DEF Inv, Layout, ReaderInv
  <2> QED
    BY <1>1, <1>3, <2>1, <2>2, <2>3 DEF ReaderOK
<1>5. opts.claims
  BY <1>1, <1>2 DEF PcInv
<1> QED
  BY <1>1, <1>2, <1>3, <1>4, <1>5, ReaderStep

\* A reader that is inside a pop has moved in before.
LEMMA PopStarted ==
  ASSUME NEW at, Inv(at), NEW p \in Readers
  PROVE  /\ TypeInv /\ MessageInv /\ PcInv /\ Layout(at) /\ Places(at) /\ ReaderOK(at, p)
         /\ p = "prod" => rl[p].mode # "claim" /\ rpc[p] # "hold"
         /\ p = "cons" /\ rl[p].mode = "claim" => opts.claims
         /\ head \in Nat /\ tail \in Nat
         /\ DOMAIN rl[p] = {"mode", "cap", "h", "len", "msg"}
         /\ rl[p].mode \in {"peek", "take", "claim"}
  BY DEF Inv, Basics, Layout, ReaderInv, PcInv, TypeInv, Readers

LEMMA LoadIndexInv ==
  ASSUME NEW at, Inv(at), NEW p \in Readers, LoadIndex(p) PROVE Inv(at)'
<1> DEFINE l == IF head >= tail THEN "idle" ELSE "status"
           v == [rl[p] EXCEPT !.h = head]
<1>1. /\ rpc[p] = "index" /\ rpc' = [rpc EXCEPT ![p] = l] /\ l \in ReaderPc /\ l \in {"idle", "status"}
      /\ UNCHANGED <<opts, head, tail, mem, depth, ppc, pl, sent, out>>
  BY DEF LoadIndex, GoTo, ringVars, prodVars, histVars, ReaderPc
<1>2. /\ TypeInv /\ (p = "prod" => rl[p].mode # "claim") /\ head \in Nat /\ tail \in Nat
      /\ p = "cons" /\ rl[p].mode = "claim" => opts.claims
  BY PopStarted
<1>3. /\ DOMAIN v = {"mode", "cap", "h", "len", "msg"} /\ v.mode = rl[p].mode /\ v.h = head
      /\ v.mode \in {"peek", "take", "claim"}
  BY PopStarted
<1>4. rl' = [rl EXCEPT ![p] = v]
  BY DEF LoadIndex
<1>5. l = "status" => head < tail
  BY <1>2
<1> HIDE DEF v, l
<1>6. /\ DOMAIN rl' = Readers /\ rl'[p] = v
      /\ \A q \in Readers : q # p => rl'[q] = rl[q]
      /\ DOMAIN rl'[p] = {"mode", "cap", "h", "len", "msg"}
      /\ rl'[p].mode \in {"peek", "take", "claim"}
  BY <1>2, <1>3, <1>4, LocalsIn
<1>7. ReaderOK(at, p)'
  <2>1. rpc'[p] = l
    BY <1>1, <1>2 DEF TypeInv
  <2> QED
    BY <1>1, <1>3, <1>5, <1>6, <2>1 DEF ReaderOK
<1> QED
  BY <1>1, <1>2, <1>3, <1>6, <1>7, ReaderStep

\* Between head and tail is padding or the oldest frame.
LEMMA AtHead ==
  ASSUME NEW at, Inv(at), head < tail
  PROVE  /\ Len(out) < Len(sent) /\ Len(out) + 1 \in Unread
         /\ AtPadding(at) \/ head = at[Len(out) + 1]
<1>1. Len(sent) \in Nat /\ Len(out) \in Nat /\ Len(out) <= Len(sent) /\ head \in Nat /\ tail \in Nat
  BY Lengths DEF Inv, Basics, TypeInv
<1>2. /\ tail = EndOf(at, Len(sent))
      /\ head = EndOf(at, Len(out)) \/ (Len(out) < Len(sent) /\ head = at[Len(out) + 1])
  BY DEF Inv, Layout, Places
<1>3. Len(out) < Len(sent)
  BY <1>1, <1>2
<1> QED
  BY <1>1, <1>2, <1>3 DEF AtPadding, Padded, Unread

\* What is marked COMMITTED at head is padding or a frame that is written.
LEMMA CommittedAtHead ==
  ASSUME NEW at, Inv(at), NEW p \in Readers, rpc[p] = "status", mem[Idx(head)].st = COMMITTED
  PROVE  AtPadding(at) \/ AtFrame(at)
<1>1. /\ MessageInv /\ PcInv /\ Layout(at) /\ ReaderOK(at, p)
      /\ Len(sent) \in Nat /\ Len(out) \in Nat
  BY PopStarted, Lengths
<1>2. head < tail
  BY <1>1 DEF ReaderOK
<1>3. Len(out) < Len(sent) /\ (AtPadding(at) \/ head = at[Len(out) + 1])
  BY <1>2, AtHead
<1>4. ASSUME head = at[Len(out) + 1] PROVE Written(Len(out) + 1)
  <2> SUFFICES ASSUME ~Written(Len(out) + 1) PROVE FALSE
    OBVIOUS
  <2>1. ppc = "fill" /\ Len(out) + 1 = Len(sent)
    BY <1>1, <1>3 DEF Written
  <2>2. p = "cons" /\ ~opts.one_thread
    BY <1>1, <2>1 DEF PcInv, Readers
  <2>3. mem[Idx(at[Len(sent)])].st = EMPTY
    BY <1>1, <2>1, <2>2 DEF Layout, FillInv
  <2> QED
    BY <1>4, <2>1, <2>3 DEF EMPTY, COMMITTED
<1> QED
  BY <1>3, <1>4 DEF AtFrame

LEMMA LoadStatusInv ==
  ASSUME NEW at, Inv(at), NEW p \in Readers, LoadStatus(p) PROVE Inv(at)'
<1> DEFINE l == IF mem[Idx(rl[p].h)].st = COMMITTED THEN "length" ELSE "idle"
<1>1. /\ rpc[p] = "status" /\ rpc' = [rpc EXCEPT ![p] = l] /\ l \in ReaderPc /\ l \in {"idle", "length"}
      /\ rl' = rl
      /\ UNCHANGED <<opts, head, tail, mem, depth, ppc, pl, sent, out>>
  BY DEF LoadStatus, GoTo, ringVars, prodVars, histVars, ReaderPc
<1>2. /\ TypeInv /\ (p = "prod" => rl[p].mode # "claim") /\ ReaderOK(at, p)
      /\ p = "cons" /\ rl[p].mode = "claim" => opts.claims
  BY PopStarted
<1>3. rl[p].h = head /\ head < tail
  BY <1>1, <1>2 DEF ReaderOK
<1>4. l = "length" => AtPadding(at) \/ AtFrame(at)
  BY <1>1, <1>3, CommittedAtHead
<1> HIDE DEF l
<1>5. /\ DOMAIN rl' = Readers /\ rl'[p] = rl[p]
      /\ \A q \in Readers : q # p => rl'[q] = rl[q]
      /\ DOMAIN rl'[p] = {"mode", "cap", "h", "len", "msg"}
      /\ rl'[p].mode \in {"peek", "take", "claim"}
  BY <1>1, <1>2, LocalsStay
<1>6. ReaderOK(at, p)'
  <2>1. rpc'[p] = l
    BY <1>1, <1>2 DEF TypeInv
  <2>2. (AtPadding(at)' <=> AtPadding(at)) /\ (AtFrame(at)' <=> AtFrame(at))
    BY <1>1, HeadStays
  <2> QED
    BY <1>1, <1>3, <1>4, <1>5, <2>1, <2>2 DEF ReaderOK
<1> QED
  BY <1>1, <1>2, <1>5, <1>6, ReaderStep

\* What is read at head: the padding's length, negative, or the frame's.
LEMMA LengthAtHead ==
  ASSUME NEW at, Inv(at), head < tail
  PROVE  /\ AtPadding(at) => /\ mem[Idx(head)].len = Idx(head) - Capacity
                             /\ Idx(head) - Capacity < 0
         /\ AtFrame(at) => /\ mem[Idx(head)].len = sent[Len(out) + 1].size
                           /\ sent[Len(out) + 1].size \in Nat
<1>1. /\ TypeInv /\ MessageInv /\ Layout(at)
      /\ Len(sent) \in Nat /\ Len(out) \in Nat /\ Len(out) < Len(sent) /\ Len(out) + 1 \in Unread
      /\ Unread \subseteq Frames
  BY AtHead, Lengths DEF Inv, Basics
<1>2. Idx(head) \in 0..(Capacity - 1) /\ Capacity \in Nat /\ head \in Nat
  BY <1>1, IdxIn, InUse DEF TypeInv
<1>3. ASSUME AtPadding(at) PROVE mem[Idx(head)].len = Idx(head) - Capacity
  <2>1. Len(out) \in Len(out)..(Len(sent) - 1)
    BY <1>1
  <2>2. mem[Idx(head)] = PadWord(Capacity - Idx(head))
    BY <1>1, <1>2, <1>3, <2>1 DEF Layout, PadsInv, AtPadding
  <2> QED
    BY <1>2, <2>2 DEF PadWord
<1>4. ASSUME AtFrame(at) PROVE mem[Idx(head)].len = sent[Len(out) + 1].size
  BY <1>1, <1>4 DEF Layout, FramesInv, AtFrame, HasLength
<1>5. sent[Len(out) + 1].size \in Nat
  BY <1>1, TotalIn
<1> QED
  BY <1>2, <1>3, <1>4, <1>5

LEMMA LoadLengthInv ==
  ASSUME NEW at, Inv(at), NEW p \in Readers, LoadLength(p) PROVE Inv(at)'
<1> DEFINE len == mem[Idx(rl[p].h)].len
           mode == rl[p].mode
<1>1. /\ rpc[p] = "length"
      /\ UNCHANGED <<opts, head, tail, mem, depth, ppc, pl, sent, out>>
  BY DEF LoadLength, ringVars, prodVars, histVars
<1>2. /\ TypeInv /\ (p = "prod" => mode # "claim") /\ ReaderOK(at, p)
      /\ p = "cons" /\ mode = "claim" => opts.claims
      /\ DOMAIN rl[p] = {"mode", "cap", "h", "len", "msg"}
      /\ mode \in {"peek", "take", "claim"}
  BY PopStarted
<1>3. rl[p].h = head /\ head < tail /\ (AtPadding(at) \/ AtFrame(at))
  BY <1>1, <1>2 DEF ReaderOK
<1>4. /\ AtPadding(at) => len = Idx(head) - Capacity /\ len < 0
      /\ AtFrame(at) => len = sent[Len(out) + 1].size /\ len >= 0
      /\ len \in Int
  <2>1. /\ AtPadding(at) => len = Idx(head) - Capacity /\ Idx(head) - Capacity < 0
        /\ AtFrame(at) => len = sent[Len(out) + 1].size /\ sent[Len(out) + 1].size \in Nat
    BY <1>3, LengthAtHead
  <2>2. Idx(head) - Capacity \in Int
    <3>1. head \in Nat
      BY <1>2 DEF TypeInv
    <3>2. Idx(head) \in 0..(Capacity - 1) /\ Capacity \in Nat
      BY <1>2, <3>1, IdxIn, InUse
    <3> QED
      BY <3>2
  <2> HIDE DEF len
  <2> QED
    BY <1>3, <2>1, <2>2
<1>5. (AtPadding(at)' <=> AtPadding(at)) /\ (AtFrame(at)' <=> AtFrame(at))
  BY <1>1, HeadStays
<1>6. Capacity' = Capacity /\ Idx(head)' = Idx(head)
  BY <1>1 DEF Idx, Capacity
\* Wherever the reader goes, what it has to know there holds.
<1>7. ASSUME NEW l \in {"idle", "index", "skip", "copy"}, NEW v,
             rpc' = [rpc EXCEPT ![p] = l], DOMAIN rl' = Readers, rl'[p] = v,
             \A q \in Readers : q # p => rl'[q] = rl[q],
             DOMAIN v = {"mode", "cap", "h", "len", "msg"}, v.mode \in {"peek", "take", "claim"},
             v.mode = mode \/ v.mode = "take", v.h = rl[p].h,
             l = "skip" => len < 0 /\ v.len = len,
             l = "copy" => len >= 0 /\ v.len = len
      PROVE  Inv(at)'
  <2>1. l \in ReaderPc /\ l \notin {"count", "hold"}
    BY DEF ReaderPc
  <2>2. /\ DOMAIN rl'[p] = {"mode", "cap", "h", "len", "msg"}
        /\ rl'[p].mode \in {"peek", "take", "claim"}
    BY <1>7
  <2>3. rpc'[p] = l
    BY <1>2, <1>7 DEF TypeInv
  <2>4. l = "skip" => AtPadding(at) /\ v.len = Idx(head) - Capacity
    <3> HIDE DEF len
    <3> QED
      BY <1>3, <1>4, <1>7
  <2>5. l = "copy" => AtFrame(at) /\ v.len = sent[Len(out) + 1].size
    <3> HIDE DEF len
    <3> QED
      BY <1>3, <1>4, <1>7
  <2>6. ReaderOK(at, p)'
    BY <1>1, <1>3, <1>5, <1>6, <1>7, <2>2, <2>3, <2>4, <2>5 DEF ReaderOK
  <2> QED
    BY <1>1, <1>2, <1>7, <2>1, <2>2, <2>6, ReaderStep
<1>8. ASSUME len < 0, GoTo(p, "skip"), rl' = [rl EXCEPT ![p].len = len] PROVE Inv(at)'
  <2> DEFINE v == [rl[p] EXCEPT !.len = len]
  <2>1. v.len = len /\ v.mode = mode /\ v.h = rl[p].h /\ DOMAIN v = DOMAIN rl[p]
    BY <1>2
  <2>2. rl' = [rl EXCEPT ![p] = v] /\ rpc' = [rpc EXCEPT ![p] = "skip"]
    BY <1>8 DEF GoTo
  <2> HIDE DEF v, len, mode
  <2>3. /\ DOMAIN v = {"mode", "cap", "h", "len", "msg"} /\ v.mode \in {"peek", "take", "claim"}
        /\ v.h = rl[p].h /\ (v.mode = mode \/ v.mode = "take")
    BY <1>2, <2>1 DEF mode
  <2>4. /\ DOMAIN rl' = Readers /\ rl'[p] = v
        /\ \A q \in Readers : q # p => rl'[q] = rl[q]
    BY <1>2, <2>2, <2>3, LocalsIn
  <2> QED
    BY <1>7, <1>8, <2>1, <2>2, <2>3, <2>4
<1>9. ASSUME GoTo(p, "index"), rl' = [rl EXCEPT ![p].cap = len] PROVE Inv(at)'
  <2> DEFINE v == [rl[p] EXCEPT !.cap = len]
  <2>1. v.mode = mode /\ v.h = rl[p].h /\ DOMAIN v = DOMAIN rl[p]
    BY <1>2
  <2>2. rl' = [rl EXCEPT ![p] = v] /\ rpc' = [rpc EXCEPT ![p] = "index"]
    BY <1>9 DEF GoTo
  <2> HIDE DEF v, len, mode
  <2>3. /\ DOMAIN v = {"mode", "cap", "h", "len", "msg"} /\ v.mode \in {"peek", "take", "claim"}
        /\ v.h = rl[p].h /\ (v.mode = mode \/ v.mode = "take")
    BY <1>2, <2>1 DEF mode
  <2>4. /\ DOMAIN rl' = Readers /\ rl'[p] = v
        /\ \A q \in Readers : q # p => rl'[q] = rl[q]
    BY <1>2, <2>2, <2>3, LocalsIn
  <2> QED
    BY <1>7, <2>1, <2>2, <2>3, <2>4
<1>10. ASSUME GoTo(p, "idle"), UNCHANGED rl PROVE Inv(at)'
  <2>1. /\ DOMAIN rl' = Readers /\ rl'[p] = rl[p] /\ rpc' = [rpc EXCEPT ![p] = "idle"]
        /\ \A q \in Readers : q # p => rl'[q] = rl[q]
    BY <1>2, <1>10, LocalsStay DEF GoTo
  <2> HIDE DEF len, mode
  <2> QED
    BY <1>2, <1>7, <2>1 DEF mode
<1>11. ASSUME GoTo(p, "index"), rl' = [rl EXCEPT ![p].mode = "take"] PROVE Inv(at)'
  <2> DEFINE v == [rl[p] EXCEPT !.mode = "take"]
  <2>1. v.mode = "take" /\ v.h = rl[p].h /\ DOMAIN v = DOMAIN rl[p]
    BY <1>2
  <2>2. rl' = [rl EXCEPT ![p] = v] /\ rpc' = [rpc EXCEPT ![p] = "index"]
    BY <1>11 DEF GoTo
  <2> HIDE DEF v, len, mode
  <2>3. /\ DOMAIN v = {"mode", "cap", "h", "len", "msg"} /\ v.mode \in {"peek", "take", "claim"}
        /\ v.h = rl[p].h /\ (v.mode = mode \/ v.mode = "take")
    BY <1>2, <2>1 DEF mode
  <2>4. /\ DOMAIN rl' = Readers /\ rl'[p] = v
        /\ \A q \in Readers : q # p => rl'[q] = rl[q]
    BY <1>2, <2>2, <2>3, LocalsIn
  <2> QED
    BY <1>7, <2>1, <2>2, <2>3, <2>4
<1>12. ASSUME len >= 0, GoTo(p, "copy"), rl' = [rl EXCEPT ![p].len = len] PROVE Inv(at)'
  <2> DEFINE v == [rl[p] EXCEPT !.len = len]
  <2>1. v.len = len /\ v.mode = mode /\ v.h = rl[p].h /\ DOMAIN v = DOMAIN rl[p]
    BY <1>2
  <2>2. rl' = [rl EXCEPT ![p] = v] /\ rpc' = [rpc EXCEPT ![p] = "copy"]
    BY <1>12 DEF GoTo
  <2> HIDE DEF v, len, mode
  <2>3. /\ DOMAIN v = {"mode", "cap", "h", "len", "msg"} /\ v.mode \in {"peek", "take", "claim"}
        /\ v.h = rl[p].h /\ (v.mode = mode \/ v.mode = "take")
    BY <1>2, <2>1 DEF mode
  <2>4. /\ DOMAIN rl' = Readers /\ rl'[p] = v
        /\ \A q \in Readers : q # p => rl'[q] = rl[q]
    BY <1>2, <2>2, <2>3, LocalsIn
  <2> QED
    BY <1>7, <1>12, <2>1, <2>2, <2>3, <2>4
<1> QED
  BY <1>8, <1>9, <1>10, <1>11, <1>12 DEF LoadLength

\* What is copied out of the frame at head is the message that was sent.
LEMMA CopiedMessage ==
  ASSUME NEW at, Inv(at), head < tail, AtFrame(at)
  PROVE  MessageAt(head, sent[Len(out) + 1].size) = sent[Len(out) + 1]
<1> DEFINE n == Len(out) + 1
           size == sent[n].size
<1>1. /\ TypeInv /\ MessageInv /\ Layout(at) /\ Places(at)
      /\ n \in Unread /\ n \in Frames /\ Unread \subseteq Frames
  BY AtHead, Lengths DEF Inv, Basics, Layout
<1>2. /\ head = at[n] /\ HasLength(at, n) /\ HasBody(at, n)
  BY <1>1 DEF Layout, FramesInv, AtFrame
<1>3. /\ size \in Nat /\ Total(n) = HdrCells + size /\ HdrCells \in Nat /\ HdrCells >= 2
      /\ Idx(head) + Total(n) <= Capacity /\ head \in Nat /\ Idx(head) \in Nat /\ Capacity \in Nat
  <2>1. size \in Nat /\ Total(n) = HdrCells + size
    BY <1>1, TotalIn
  <2>2. HdrCells \in Nat /\ HdrCells >= 2 /\ Capacity \in Nat
    BY <1>1, InUse
  <2>3. Idx(head) + Total(n) <= Capacity
    BY <1>1, <1>2 DEF Places
  <2>4. head \in Nat /\ Idx(head) \in Nat
    <3>1. head \in Nat
      BY <1>1 DEF TypeInv
    <3>2. Idx(head) \in 0..(Capacity - 1)
      BY <1>1, <3>1, IdxIn
    <3> QED
      BY <2>2, <3>1, <3>2
  <2> QED
    BY <2>1, <2>2, <2>3, <2>4
<1>4. sent[n] = Message(n, size)
  BY <1>1 DEF MessageInv
<1> HIDE DEF size
<1>5. mem[Idx(head + 1)].len = n
  <2>1. Idx(head + 1) = Idx(head) + 1
    BY <1>1, <1>3, IdxPlus
  <2> QED
    BY <1>2, <2>1 DEF HasBody
<1>6. ASSUME NEW i \in 1..size PROVE mem[Idx(head + HdrCells + i - 1)].len = n
  <2>1. HdrCells + i - 1 \in Nat /\ Idx(head) + (HdrCells + i - 1) < Capacity
        /\ head + HdrCells + i - 1 = head + (HdrCells + i - 1)
    BY <1>3
  <2>2. Idx(head + HdrCells + i - 1) = Idx(head) + (HdrCells + i - 1)
    BY <1>1, <1>3, <2>1, IdxPlus
  <2>3. mem[Idx(head) + (HdrCells + i - 1)].len = n
    BY <1>2 DEF HasBody, size
  <2> QED
    BY <2>2, <2>3
<1>7. MessageAt(head, size) = Message(n, size)
  BY <1>5, <1>6 DEF MessageAt, Message
<1> QED
  BY <1>4, <1>7 DEF size

LEMMA CopyInv ==
  ASSUME NEW at, Inv(at), NEW p \in Readers, Copy(p) PROVE Inv(at)'
<1> DEFINE l == IF rl[p].mode = "claim" THEN "hold" ELSE "clear"
           v == [rl[p] EXCEPT !.msg = MessageAt(rl[p].h, rl[p].len)]
<1>1. /\ rpc[p] = "copy" /\ rpc' = [rpc EXCEPT ![p] = l]
      /\ l \in ReaderPc /\ l \in {"hold", "clear"} /\ (l = "hold" => rl[p].mode = "claim")
      /\ UNCHANGED <<opts, head, tail, mem, depth, ppc, pl, sent, out>>
  BY DEF Copy, GoTo, ringVars, prodVars, histVars, ReaderPc
<1>2. /\ TypeInv /\ (p = "prod" => rl[p].mode # "claim") /\ ReaderOK(at, p)
      /\ p = "cons" /\ rl[p].mode = "claim" => opts.claims
      /\ DOMAIN rl[p] = {"mode", "cap", "h", "len", "msg"}
      /\ rl[p].mode \in {"peek", "take", "claim"}
  BY PopStarted
<1>3. rl[p].h = head /\ head < tail /\ AtFrame(at) /\ rl[p].len = sent[Len(out) + 1].size
  BY <1>1, <1>2 DEF ReaderOK
<1>4. /\ DOMAIN v = {"mode", "cap", "h", "len", "msg"} /\ v.mode = rl[p].mode
      /\ v.h = rl[p].h /\ v.len = rl[p].len /\ v.msg = MessageAt(rl[p].h, rl[p].len)
  BY <1>2
<1>5. v.msg = sent[Len(out) + 1]
  BY <1>3, <1>4, CopiedMessage
<1>6. rl' = [rl EXCEPT ![p] = v]
  BY DEF Copy
<1> HIDE DEF l, v
<1>7. /\ DOMAIN rl' = Readers /\ rl'[p] = v
      /\ \A q \in Readers : q # p => rl'[q] = rl[q]
      /\ DOMAIN rl'[p] = {"mode", "cap", "h", "len", "msg"}
      /\ rl'[p].mode \in {"peek", "take", "claim"}
  BY <1>2, <1>4, <1>6, LocalsIn
<1>8. ReaderOK(at, p)'
  <2>1. rpc'[p] = l
    BY <1>1, <1>2 DEF TypeInv
  <2>2. (AtFrame(at)' <=> AtFrame(at))
    BY <1>1, HeadStays
  <2> QED
    BY <1>1, <1>3, <1>4, <1>5, <1>7, <2>1, <2>2 DEF ReaderOK
<1> QED
  BY <1>1, <1>2, <1>4, <1>7, <1>8, ReaderStep

-----------------------------------------------------------------------------
\* The readers' steps that change the ring.

\* Two readers are never at work at once.
LEMMA Alone ==
  ASSUME NEW at, Inv(at), NEW p \in Readers, rpc[p] # "idle", NEW q \in Readers, q # p
  PROVE  rpc[q] = "idle"
  BY DEF Inv, Basics, PcInv, Readers

\* A step of a reader's program counter.
LEMMA PcIn ==
  ASSUME TypeInv, NEW p \in Readers, NEW l \in ReaderPc, rpc' = [rpc EXCEPT ![p] = l]
  PROVE  rpc' \in [Readers -> ReaderPc] /\ rpc'[p] = l
         /\ \A q \in Readers : q # p => rpc'[q] = rpc[q]
  BY DEF TypeInv

\* The parts of the invariant that a reader inside a pop keeps with any step to
\* another place inside it.
LEMMA PopGoesOn ==
  ASSUME NEW at, Inv(at), NEW p \in Readers, NEW l \in ReaderPc, l # "hold",
         UNCHANGED <<opts, tail, ppc, pl, sent>>, rpc' = [rpc EXCEPT ![p] = l],
         rpc[p] \notin {"idle", "hold"}, rl' = rl, head' \in Nat, head <= head'
  PROVE  PcInv'
<1>1. TypeInv /\ PcInv /\ head \in Nat
  BY DEF Inv, Basics, TypeInv
<1>2. /\ rpc'[p] = l /\ \A q \in Readers : q # p => rpc'[q] = rpc[q]
      /\ "cons" \in Readers /\ "prod" \in Readers /\ (p = "cons" \/ p = "prod")
  BY <1>1, PcIn DEF Readers
<1>3. rpc'["prod"] # "idle" => ppc = "load" /\ opts.backpressure = "drop_old" /\ rpc'["cons"] = "idle"
  BY <1>1, <1>2 DEF PcInv
<1>4. opts.one_thread => ppc = "idle" \/ rpc'["cons"] \in {"idle", "hold"}
  BY <1>1, <1>2 DEF PcInv
<1>5. /\ rpc'["cons"] = "hold" \/ rl["cons"].mode = "claim" => opts.claims
      /\ rpc'["prod"] # "hold" /\ rl["prod"].mode # "claim"
  BY <1>1, <1>2 DEF PcInv
<1>6. Capacity' = Capacity /\ Idx(tail)' = Idx(tail) /\ Capacity \in Nat /\ tail \in Nat
  BY <1>1, InUse DEF Idx, Capacity, TypeInv
<1>7. ppc = "publish" =>
        /\ pl.pad = Padding(FrameTotal(pl.msg.size))
        /\ tail + pl.pad + FrameTotal(pl.msg.size) <= head' + Capacity
  <2> SUFFICES ASSUME ppc = "publish"
               PROVE  /\ pl.pad = Padding(FrameTotal(pl.msg.size))
                      /\ tail + pl.pad + FrameTotal(pl.msg.size) <= head' + Capacity
    OBVIOUS
  <2>1. PICK z \in opts.sizes : pl.msg = Message(Len(sent) + 1, z)
    BY <1>1 DEF PcInv
  <2>2. FrameTotal(pl.msg.size) \in Nat /\ pl.pad \in Nat
    BY <1>1, <2>1, InUse DEF Message, FrameTotal, TypeInv
  <2>3. /\ pl.pad = Padding(FrameTotal(pl.msg.size))
        /\ tail + pl.pad + FrameTotal(pl.msg.size) <= head + Capacity
    BY <1>1 DEF PcInv
  <2> QED
    BY <1>1, <1>6, <2>2, <2>3
<1>8. ppc = "publish" => (pl.pad = Padding(FrameTotal(pl.msg.size)))'
  BY <1>6, <1>7 DEF Padding
<1> QED
  BY <1>1, <1>3, <1>4, <1>5, <1>6, <1>7, <1>8 DEF PcInv

\* One cell's status is set.
LEMMA SetStatus ==
  ASSUME TypeInv, NEW k \in 0..(Capacity - 1), NEW s \in {EMPTY, COMMITTED, opts.payload},
         mem' = [mem EXCEPT ![k].st = s]
  PROVE  /\ mem' \in [0..(Capacity - 1) -> [len : Int, st : {EMPTY, COMMITTED, opts.payload}]]
         /\ mem'[k].st = s /\ mem'[k].len = mem[k].len
         /\ \A c \in 0..(Capacity - 1) : c # k => mem'[c] = mem[c]
<1>1. /\ mem \in [0..(Capacity - 1) -> [len : Int, st : {EMPTY, COMMITTED, opts.payload}]]
      /\ mem[k] \in [len : Int, st : {EMPTY, COMMITTED, opts.payload}]
  BY DEF TypeInv
<1> DEFINE w == [mem[k] EXCEPT !.st = s]
<1>2. w.st = s /\ w.len = mem[k].len /\ w \in [len : Int, st : {EMPTY, COMMITTED, opts.payload}]
  BY <1>1
<1>3. mem' = [mem EXCEPT ![k] = w]
  OBVIOUS
<1> HIDE DEF w
<1> QED
  BY <1>1, <1>2, <1>3

\* The cells from x on are not written.
Kept(x, n) == \A d \in 0..(n - 1) : mem'[Idx(x) + d] = mem[Idx(x) + d]

\* A frame none of whose cells is written keeps its contents.
LEMMA KeptFrame ==
  ASSUME TypeInv, MessageInv, NEW at, NEW i \in Frames, at[i] \in Nat, opts' = opts,
         sent'[i] = sent[i], Kept(at[i], Total(i))
  PROVE  /\ HasLength(at, i)' <=> HasLength(at, i)
         /\ HasBody(at, i)' <=> HasBody(at, i)
         /\ mem'[Idx(at[i])] = mem[Idx(at[i])]
<1>1. /\ sent[i].size \in Nat /\ Total(i) = HdrCells + sent[i].size
      /\ HdrCells \in Nat /\ HdrCells >= 2 /\ Idx(at[i]) \in 0..(Capacity - 1) /\ Capacity \in Nat
  BY TotalIn, InUse, IdxIn
<1>2. Idx(at[i])' = Idx(at[i])
  BY IdxStays
<1>3. mem'[Idx(at[i])] = mem[Idx(at[i])]
  <2>1. 0 \in 0..(Total(i) - 1) /\ Idx(at[i]) + 0 = Idx(at[i])
    BY <1>1
  <2> QED
    BY <2>1 DEF Kept
<1>4. HasLength(at, i)' <=> HasLength(at, i)
  BY <1>2, <1>3 DEF HasLength
<1>5. mem'[Idx(at[i]) + 1] = mem[Idx(at[i]) + 1]
  <2>1. 1 \in 0..(Total(i) - 1)
    BY <1>1
  <2> QED
    BY <2>1 DEF Kept
<1>6. ASSUME NEW d \in 1..sent[i].size
      PROVE  mem'[Idx(at[i]) + (HdrCells + d - 1)] = mem[Idx(at[i]) + (HdrCells + d - 1)]
  <2>1. HdrCells + d - 1 \in 0..(Total(i) - 1)
    BY <1>1
  <2> QED
    BY <2>1 DEF Kept
<1>7. HasBody(at, i)' <=> HasBody(at, i)
  BY <1>2, <1>5, <1>6 DEF HasBody
<1> QED
  BY <1>3, <1>4, <1>7

LEMMA CountPopInv ==
  ASSUME NEW at, Inv(at), NEW p \in Readers, CountPop(p) PROVE Inv(at)'
<1> USE DEF Inv, Basics
<1>1. /\ rpc[p] = "count" /\ rpc' = [rpc EXCEPT ![p] = "idle"] /\ depth' = depth - 1
      /\ UNCHANGED <<opts, head, tail, mem, ppc, pl, rl, sent, out>>
  BY DEF CountPop, GoTo, ringVars, prodVars, histVars
<1>2. /\ rpc' \in [Readers -> ReaderPc] /\ rpc'[p] = "idle"
      /\ \A q \in Readers : q # p => rpc'[q] = rpc[q]
  BY <1>1, PcIn DEF ReaderPc
<1>3. TypeInv'
  BY <1>1, <1>2 DEF TypeInv, Capacity
<1>4. MessageInv'
  BY <1>1 DEF MessageInv, Frames, Total, Capacity
<1>5. PcInv'
  <2>1. "idle" \in ReaderPc /\ head' \in Nat /\ head <= head'
    BY <1>1 DEF ReaderPc, TypeInv
  <2> QED
    BY <1>1, <2>1, PopGoesOn
<1>6. DepthInv'
  <2>1. Len(sent) \in Int /\ Len(out) \in Int /\ depth \in Int
    BY Lengths DEF TypeInv
  <2>2. depth = Len(sent) - Len(out) - One(ppc \in {"fill", "count"})
                  + One(rpc["cons"] = "count") + One(rpc["prod"] = "count")
    BY DEF DepthInv
  <2>3. /\ One(ppc \in {"fill", "count"}) \in Int /\ One(rpc["cons"] = "count") \in Int
        /\ One(rpc["prod"] = "count") \in Int
    BY DEF One
  <2>4. CASE p = "cons"
    <3>1. One(rpc["cons"] = "count") = 1 /\ One(rpc'["cons"] = "count") = 0
          /\ rpc'["prod"] = rpc["prod"]
      BY <1>1, <1>2, <2>4 DEF One, Readers
    <3> QED
      BY <1>1, <2>1, <2>2, <2>3, <3>1 DEF DepthInv
  <2>5. CASE p = "prod"
    <3>1. One(rpc["prod"] = "count") = 1 /\ One(rpc'["prod"] = "count") = 0
          /\ rpc'["cons"] = rpc["cons"]
      BY <1>1, <1>2, <2>5 DEF One, Readers
    <3> QED
      BY <1>1, <2>1, <2>2, <2>3, <3>1 DEF DepthInv
  <2> QED
    BY <2>4, <2>5 DEF Readers
<1>7. ReaderInv(at)'
  <2> SUFFICES ASSUME NEW q \in Readers PROVE ReaderOK(at, q)'
    BY DEF ReaderInv
  <2>1. CASE q = p
    BY <1>2, <2>1 DEF ReaderOK
  <2>2. CASE q # p
    <3>1. ReaderOK(at, q)
      BY DEF Layout, ReaderInv
    <3> QED
      BY <1>1, <1>2, <2>2, <3>1, ReaderStays
  <2> QED
    BY <2>1, <2>2
<1>8. Advancing => Advancing'
  BY <1>1, <1>2 DEF Advancing
<1>9. Layout(at)'
  BY <1>1, <1>7, <1>8, ControlStep
<1> QED
  BY <1>3, <1>4, <1>5, <1>6, <1>9

\* While one reader works, the other knows nothing of the ring.
LEMMA OtherIdle ==
  ASSUME NEW at, Inv(at), NEW p \in Readers, NEW l \in ReaderPc, rpc[p] # "idle",
         rpc' = [rpc EXCEPT ![p] = l], ReaderOK(at, p)'
  PROVE  ReaderInv(at)'
<1> SUFFICES ASSUME NEW q \in Readers, q # p PROVE ReaderOK(at, q)'
  BY DEF ReaderInv
<1>1. rpc'[q] = "idle"
  BY Alone, PcIn DEF Inv, Basics
<1> QED
  BY <1>1 DEF ReaderOK

LEMMA SkipPaddingInv ==
  ASSUME NEW at, Inv(at), NEW p \in Readers, SkipPadding(p) PROVE Inv(at)'
<1> USE DEF Inv, Basics
<1> DEFINE n == Len(out)
<1>1. /\ rpc[p] = "skip" /\ rpc' = [rpc EXCEPT ![p] = "index"] /\ head' = rl[p].h - rl[p].len
      /\ UNCHANGED <<opts, tail, mem, depth, ppc, pl, rl, sent, out>>
  BY DEF SkipPadding, GoTo, prodVars, histVars
<1>2. /\ ReaderOK(at, p) /\ Places(at) /\ Layout(at)
      /\ head \in Nat /\ tail \in Nat /\ Capacity \in Nat /\ n \in Nat /\ Len(sent) \in Nat
  BY PopStarted, Lengths, InUse
<1>3. /\ rl[p].h = head /\ head < tail /\ AtPadding(at) /\ rl[p].len = Idx(head) - Capacity
  BY <1>1, <1>2 DEF ReaderOK
<1>4. n < Len(sent) /\ n \in n..(Len(sent) - 1)
  BY <1>2, <1>3, AtHead
<1>5. /\ head = EndOf(at, n) /\ head < at[n + 1] /\ at[n + 1] < tail
      /\ at[n + 1] = head + (Capacity - Idx(head)) /\ Idx(head) \in 0..(Capacity - 1)
  BY <1>2, <1>3, <1>4, PadWindow DEF AtPadding
<1>6. head' = at[n + 1] /\ head' \in Nat /\ head < head' /\ head' < tail
  <2>1. head' = head - (Idx(head) - Capacity)
    BY <1>1, <1>3
  <2> QED
    BY <1>2, <1>5, <2>1
<1>7. "index" \in ReaderPc /\ "index" # "hold"
  BY DEF ReaderPc
<1>8. /\ rpc' \in [Readers -> ReaderPc] /\ rpc'[p] = "index"
      /\ \A q \in Readers : q # p => rpc'[q] = rpc[q]
  BY <1>1, <1>7, PcIn
<1>9. TypeInv'
  BY <1>1, <1>6, <1>8 DEF TypeInv, Capacity
<1>10. MessageInv'
  BY <1>1 DEF MessageInv, Frames, Total, Capacity
<1>11. PcInv'
  <2>1. head <= head'
    BY <1>2, <1>6
  <2> QED
    BY <1>1, <1>6, <1>7, <2>1, PopGoesOn
<1>12. DepthInv'
  BY <1>1, <1>8 DEF DepthInv, One, Readers
<1>13. Places(at)'
  <2>1. Capacity' = Capacity /\ \A x : Idx(x)' = Idx(x)
    BY <1>1, IdxStays
  <2>2. /\ Frames' = Frames
        /\ \A i : Total(i)' = Total(i) /\ EndOf(at, i)' = EndOf(at, i)
    BY <1>1 DEF Frames, Total, EndOf
  <2>3. n < Len(sent)' /\ head' = at[n + 1] /\ head' <= tail /\ tail <= head' + Capacity
    BY <1>1, <1>2, <1>4, <1>6 DEF Places
  <2> QED
    BY <1>1, <1>2, <2>1, <2>2, <2>3 DEF Places
<1>14. Apart(at)' /\ Multiples(at)'
  BY <1>1, DistancesStay DEF Layout
<1>15. Advancing => Advancing'
  BY <1>1, <1>8 DEF Advancing
<1>16. FramesInv(at)'
  BY <1>1, <1>15, FramesStay DEF Layout
<1>17. FillInv(at)'
  BY <1>1, FillStays DEF Layout
<1>18. PadsInv(at)'
  <2>1. Capacity' = Capacity /\ \A x : Idx(x)' = Idx(x)
    BY <1>1, IdxStays
  <2> SUFFICES ASSUME NEW i \in n..(Len(sent) - 1), head' <= EndOf(at, i), Padded(at, i)
               PROVE  mem[Idx(EndOf(at, i))] = PadWord(Capacity - Idx(EndOf(at, i)))
    BY <1>1, <2>1 DEF PadsInv, Padded, EndOf, Total
  <2>2. EndOf(at, i) \in Nat
    BY <1>2, PadWindow
  <2>3. head <= EndOf(at, i)
    BY <1>2, <1>6, <2>2
  <2> QED
    BY <2>3 DEF Layout, PadsInv
<1>19. SlotsInv(at)'
  BY <1>1 DEF Layout, SlotsInv, Unread, Idx, Capacity
<1>20. ReaderInv(at)'
  <2>1. ReaderOK(at, p)'
    BY <1>8 DEF ReaderOK
  <2> QED
    BY <1>1, <1>7, <2>1, OtherIdle
<1> QED
  BY <1>9, <1>10, <1>11, <1>12, <1>13, <1>14, <1>16, <1>17, <1>18, <1>19, <1>20 DEF Layout

LEMMA ClearStatusInv ==
  ASSUME NEW at, Inv(at), NEW p \in Readers, ClearStatus(p) PROVE Inv(at)'
<1> USE DEF Inv, Basics
<1> DEFINE k == Idx(head)
<1>0. PICK n : n = Len(out) + 1
  OBVIOUS
<1>1. /\ rpc[p] = "clear" /\ rpc' = [rpc EXCEPT ![p] = "advance"]
      /\ mem' = [mem EXCEPT ![Idx(rl[p].h)].st = EMPTY]
      /\ UNCHANGED <<opts, head, tail, depth, ppc, pl, rl, sent, out>>
  BY DEF ClearStatus, GoTo, prodVars, histVars
<1>2. /\ TypeInv /\ MessageInv /\ ReaderOK(at, p) /\ Places(at) /\ Layout(at)
      /\ head \in Nat /\ tail \in Nat
  BY PopStarted
<1>3. /\ Capacity \in Nat /\ Len(out) \in Nat /\ Len(sent) \in Nat /\ Unread \subseteq Frames
  BY <1>2, Lengths, InUse
<1>4. /\ rl[p].h = head /\ head < tail /\ AtFrame(at) /\ rl[p].len = sent[n].size
      /\ rl[p].msg = sent[n]
  BY <1>0, <1>1, <1>2 DEF ReaderOK
<1>5. /\ Len(out) < Len(sent) /\ n \in Unread /\ n \in Frames /\ head = at[n] /\ Written(n)
  BY <1>0, <1>3, <1>4, AtHead DEF AtFrame
<1>6. k \in 0..(Capacity - 1) /\ mem' = [mem EXCEPT ![k].st = EMPTY]
  BY <1>1, <1>2, <1>4, IdxIn
<1>7. /\ mem' \in [0..(Capacity - 1) -> [len : Int, st : {EMPTY, COMMITTED, opts.payload}]]
      /\ mem'[k].st = EMPTY /\ mem'[k].len = mem[k].len
      /\ \A c \in 0..(Capacity - 1) : c # k => mem'[c] = mem[c]
  BY <1>2, <1>6, SetStatus
<1>8. Capacity' = Capacity /\ \A x : Idx(x)' = Idx(x)
  BY <1>1, IdxStays
<1>9. "advance" \in ReaderPc /\ "advance" # "hold"
  BY DEF ReaderPc
<1>10. /\ rpc' \in [Readers -> ReaderPc] /\ rpc'[p] = "advance"
       /\ \A q \in Readers : q # p => rpc'[q] = rpc[q]
  BY <1>1, <1>2, <1>9, PcIn
<1> HIDE DEF k
<1>11. TypeInv'
  BY <1>1, <1>2, <1>7, <1>8, <1>10 DEF TypeInv
<1>12. MessageInv'
  BY <1>1, <1>2, <1>8 DEF MessageInv, Frames, Total
<1>13. PcInv'
  <2>1. head' \in Nat /\ head <= head'
    BY <1>1, <1>2
  <2> QED
    BY <1>1, <1>9, <2>1, PopGoesOn
<1>14. DepthInv'
  BY <1>1, <1>10 DEF DepthInv, One, Readers
<1>15. Places(at)' /\ Apart(at)' /\ Multiples(at)'
  BY <1>1, PlacesStay, DistancesStay DEF Layout
\* No other frame and no padding has the cell.
<1>16. ASSUME NEW i \in Unread, i # n
       PROVE  /\ HasLength(at, i)' <=> HasLength(at, i)
              /\ HasBody(at, i)' <=> HasBody(at, i)
              /\ mem'[Idx(at[i])] = mem[Idx(at[i])]
  <2>1. /\ i \in Frames /\ at[i] \in Nat /\ Idx(at[i]) + Total(i) <= Capacity
        /\ Idx(at[i]) \in 0..(Capacity - 1) /\ Total(i) \in Nat /\ Total(n) \in Nat /\ Total(n) >= 2
    BY <1>2, <1>5, Window, TotalIn
  <2>2. Kept(at[i], Total(i))
    <3> SUFFICES ASSUME NEW d \in 0..(Total(i) - 1) PROVE mem'[Idx(at[i]) + d] = mem[Idx(at[i]) + d]
      BY DEF Kept
    <3>1. 0 \in 0..(Total(n) - 1) /\ k = Idx(at[n]) /\ k \in Int
      BY <1>3, <1>5, <1>6, <2>1 DEF k
    <3>2. Idx(at[i]) + d # Idx(at[n]) + 0
      BY <1>2, <1>5, <1>16, <3>1, Disjoint
    <3>3. Idx(at[i]) + d # k /\ Idx(at[i]) + d \in 0..(Capacity - 1)
      BY <1>3, <2>1, <3>1, <3>2, SMTT(40)
    <3> QED
      BY <1>7, <3>3
  <2> QED
    BY <1>1, <1>2, <2>1, <2>2, KeptFrame
<1>17. HasLength(at, n)' /\ HasBody(at, n)'
  <2>1. HasLength(at, n) /\ HasBody(at, n)
    BY <1>2, <1>5 DEF Layout, FramesInv
  <2>2. HasLength(at, n)'
    BY <1>1, <1>5, <1>7, <1>8, <2>1 DEF HasLength, k
  <2>3. /\ sent[n].size \in Nat /\ Total(n) = HdrCells + sent[n].size /\ HdrCells \in Nat
        /\ HdrCells >= 2 /\ Idx(at[n]) + Total(n) <= Capacity /\ k = Idx(at[n]) /\ k \in Nat
    <3>1. /\ sent[n].size \in Nat /\ Total(n) = HdrCells + sent[n].size
          /\ Idx(at[n]) + Total(n) <= Capacity
      BY <1>2, <1>5, TotalIn, Window
    <3>2. HdrCells \in Nat /\ HdrCells >= 2
      BY <1>2, InUse
    <3> QED
      BY <1>3, <1>5, <1>6, <3>1, <3>2 DEF k
  <2>4. k + 1 # k /\ k + 1 \in 0..(Capacity - 1)
    BY <1>3, <2>3, SMTT(40)
  <2>5. ASSUME NEW d \in 1..sent[n].size
        PROVE  k + (HdrCells + d - 1) # k /\ k + (HdrCells + d - 1) \in 0..(Capacity - 1)
    BY <1>3, <2>3, SMTT(40)
  <2>6. HasBody(at, n)'
    BY <1>1, <1>7, <1>8, <2>1, <2>3, <2>4, <2>5, SMTT(30) DEF HasBody
  <2> QED
    BY <2>2, <2>6
<1>18. FramesInv(at)'
  <2>1. Advancing' /\ Unread' = Unread /\ \A i : Written(i)' <=> Written(i)
    BY <1>1, <1>10 DEF Advancing, Unread, Written
  <2> SUFFICES ASSUME NEW i \in Unread, Written(i)
               PROVE  /\ HasLength(at, i)' /\ HasBody(at, i)'
                      /\ mem'[Idx(at[i])].st = COMMITTED \/ i = n
    BY <1>0, <1>1, <1>8, <2>1 DEF FramesInv
  <2>2. CASE i = n
    BY <1>17, <2>2
  <2>3. CASE i # n
    <3>1. HasLength(at, i) /\ HasBody(at, i) /\ mem[Idx(at[i])].st = COMMITTED
      BY <1>0, <1>2, <2>3 DEF Layout, FramesInv
    <3> QED
      BY <1>16, <2>3, <3>1
  <2> QED
    BY <2>2, <2>3
<1>19. FillInv(at)'
  <2> SUFFICES ASSUME ppc = "fill" PROVE FillInv(at)'
    BY <1>1 DEF FillInv
  <2>0. PICK m : m = Len(sent)
    OBVIOUS
  <2>1. m \in Unread /\ m # n
    BY <1>3, <1>5, <2>0 DEF Written, Unread
  <2>2. FillInv(at)
    BY <1>2 DEF Layout
  <2>3. /\ HasLength(at, m)' <=> HasLength(at, m)
        /\ HasBody(at, m)' <=> HasBody(at, m)
        /\ mem'[Idx(at[m])] = mem[Idx(at[m])]
    BY <1>16, <2>1
  <2>4. Len(sent)' = m
    BY <1>1, <2>0
  <2>5. /\ HasLength(at, Len(sent)) <=> HasLength(at, m)
        /\ HasBody(at, Len(sent)) <=> HasBody(at, m)
        /\ (HasLength(at, Len(sent)) <=> HasLength(at, m))'
        /\ (HasBody(at, Len(sent)) <=> HasBody(at, m))'
    BY <2>0, <2>4
  <2> QED
    BY <1>1, <1>8, <2>0, <2>2, <2>3, <2>5 DEF FillInv
<1>20. PadsInv(at)'
  <2> SUFFICES ASSUME NEW i \in Len(out)..(Len(sent) - 1), head <= EndOf(at, i), Padded(at, i)
               PROVE  mem'[Idx(EndOf(at, i))] = PadWord(Capacity - Idx(EndOf(at, i)))
    BY <1>1, <1>8 DEF PadsInv, Padded, EndOf, Total
  <2>1. mem[Idx(EndOf(at, i))] = PadWord(Capacity - Idx(EndOf(at, i)))
    BY <1>2 DEF Layout, PadsInv
  <2>2. Idx(EndOf(at, i)) \in 0..(Capacity - 1)
    BY <1>2, PadWindow
  <2>3. 0 \in 0..(Total(n) - 1) /\ k = Idx(at[n]) /\ k \in Int
    BY <1>2, <1>3, <1>5, <1>6, TotalIn DEF k
  <2>4. Idx(at[n]) + 0 # Idx(EndOf(at, i))
    BY <1>2, <1>5, <2>3, PadApart
  <2>5. Idx(EndOf(at, i)) # k
    BY <2>3, <2>4
  <2> QED
    BY <1>7, <2>1, <2>2, <2>5
<1>21. SlotsInv(at)'
  <2> SUFFICES ASSUME ~opts.one_thread, NEW z \in opts.sizes, NEW c \in 0..(Capacity - FrameTotal(z)),
                      (c % FrameTotal(z)) = 0, \A i \in Unread : Idx(at[i]) # c
               PROVE  mem'[c].st = EMPTY
    BY <1>1, <1>8 DEF SlotsInv, Unread, FrameTotal
  <2>1. mem[c].st = EMPTY
    BY <1>2 DEF Layout, SlotsInv
  <2>2. c \in 0..(Capacity - 1)
    BY <1>2, InUse DEF FrameTotal
  <2> QED
    BY <1>7, <2>1, <2>2
<1>22. ReaderInv(at)'
  <2>1. AtFrame(at)' <=> AtFrame(at)
    BY <1>1 DEF AtFrame, Written
  <2>2. mem'[Idx(head)].st = EMPTY
    BY <1>7 DEF k
  <2>3. ReaderOK(at, p)'
    BY <1>0, <1>1, <1>4, <1>8, <1>10, <2>1, <2>2 DEF ReaderOK
  <2> QED
    BY <1>1, <1>9, <2>3, OtherIdle
<1> QED
  BY <1>11, <1>12, <1>13, <1>14, <1>15, <1>18, <1>19, <1>20, <1>21, <1>22 DEF Layout

LEMMA AdvanceHeadInv ==
  ASSUME NEW at, Inv(at), NEW p \in Readers, AdvanceHead(p) PROVE Inv(at)'
<1> USE DEF Inv, Basics
<1>0. PICK n : n = Len(out) + 1
  OBVIOUS
<1>1. /\ rpc[p] = "advance" /\ rpc' = [rpc EXCEPT ![p] = "count"]
      /\ head' = rl[p].h + FrameTotal(rl[p].len) /\ out' = Append(out, rl[p].msg)
      /\ UNCHANGED <<opts, tail, mem, depth, ppc, pl, rl, sent>>
  BY DEF AdvanceHead, GoTo, prodVars
<1>2. /\ TypeInv /\ MessageInv /\ PcInv /\ ReaderOK(at, p) /\ Places(at) /\ Layout(at)
      /\ head \in Nat /\ tail \in Nat
  BY PopStarted
<1>3. /\ Capacity \in Nat /\ Len(out) \in Nat /\ Len(sent) \in Nat /\ Unread \subseteq Frames
      /\ Frames = 1..Len(sent) /\ out \in Seq(AllMessages) /\ sent \in Seq(AllMessages)
  BY <1>2, Lengths, InUse DEF MessageInv
<1>4. /\ rl[p].h = head /\ head < tail /\ AtFrame(at) /\ rl[p].len = sent[n].size
      /\ rl[p].msg = sent[n] /\ mem[Idx(head)].st = EMPTY
  BY <1>0, <1>1, <1>2 DEF ReaderOK
<1>5. /\ Len(out) < Len(sent) /\ n \in Unread /\ n \in Frames /\ head = at[n] /\ Written(n)
      /\ n \in 1..Len(sent)
  BY <1>0, <1>3, <1>4, AtHead DEF AtFrame
<1>6. /\ at[n] \in Nat /\ Total(n) \in Nat /\ at[n] + Total(n) <= tail
  BY <1>2, <1>5, Window, TotalIn
<1>7. /\ head' = at[n] + Total(n) /\ head' \in Nat /\ head <= head' /\ head' <= tail
  <2>1. head' = at[n] + Total(n)
    BY <1>1, <1>4, <1>5 DEF Total
  <2> QED
    BY <1>2, <1>5, <1>6, <2>1
<1>8. /\ out' = Append(out, sent[n]) /\ sent[n] \in AllMessages /\ out' \in Seq(AllMessages)
      /\ Len(out') = n /\ \A i \in 1..n : out'[i] = IF i = n THEN sent[n] ELSE out[i]
  <2>1. sent[n] \in AllMessages
    BY <1>3, <1>5
  <2>2. out' = Append(out, sent[n])
    BY <1>1, <1>4
  <2> QED
    BY <1>0, <1>3, <2>1, <2>2
<1>9. "count" \in ReaderPc /\ "count" # "hold"
  BY DEF ReaderPc
<1>10. /\ rpc' \in [Readers -> ReaderPc] /\ rpc'[p] = "count"
       /\ \A q \in Readers : q # p => rpc'[q] = rpc[q]
  BY <1>1, <1>2, <1>9, PcIn
<1>11. Capacity' = Capacity /\ \A x : Idx(x)' = Idx(x)
  BY <1>1, IdxStays
<1>12. /\ Frames' = Frames /\ Unread' = n + 1 .. Len(sent) /\ Unread' \subseteq Unread
       /\ \A i \in Unread : i = n \/ i \in Unread'
       /\ \A i : /\ Total(i)' = Total(i) /\ EndOf(at, i)' = EndOf(at, i)
                 /\ Padded(at, i)' <=> Padded(at, i)
                 /\ Written(i)' <=> Written(i)
  <2>1. \A i : /\ Total(i)' = Total(i) /\ EndOf(at, i)' = EndOf(at, i)
               /\ Padded(at, i)' <=> Padded(at, i)
               /\ Written(i)' <=> Written(i)
    BY <1>1 DEF Total, EndOf, Padded, Written
  <2>2. Frames' = Frames
    BY <1>1 DEF Frames
  <2>3. Unread' = n + 1 .. Len(sent)
    BY <1>1, <1>8 DEF Unread
  <2>4. /\ Unread' \subseteq Unread
        /\ \A i \in Unread : i = n \/ i \in Unread'
    BY <1>0, <1>3, <2>3 DEF Unread
  <2> QED
    BY <2>1, <2>2, <2>3, <2>4
<1>13. TypeInv'
  BY <1>1, <1>2, <1>7, <1>10, <1>11 DEF TypeInv
<1>14. MessageInv'
  <2>1. \A i \in 1..n : out'[i] = sent[i]
    BY <1>0, <1>2, <1>3, <1>8 DEF MessageInv
  <2>2. n <= Len(sent)
    BY <1>0, <1>3, <1>5
  <2> QED
    BY <1>1, <1>2, <1>8, <1>11, <1>12, <2>1, <2>2 DEF MessageInv
<1>15. PcInv'
  BY <1>1, <1>7, <1>9, PopGoesOn
<1>16. DepthInv'
  <2>1. depth = Len(sent) - Len(out) - One(ppc \in {"fill", "count"})
                  + One(rpc["cons"] = "count") + One(rpc["prod"] = "count")
    BY DEF DepthInv
  <2>2. /\ One(ppc \in {"fill", "count"}) \in Int /\ One(rpc["cons"] = "count") \in Int
        /\ One(rpc["prod"] = "count") \in Int
    BY DEF One
  <2>3. CASE p = "cons"
    <3>1. One(rpc["cons"] = "count") = 0 /\ One(rpc'["cons"] = "count") = 1
          /\ rpc'["prod"] = rpc["prod"]
      BY <1>1, <1>10, <2>3 DEF One, Readers
    <3> QED
      BY <1>0, <1>1, <1>3, <1>8, <2>1, <2>2, <3>1, SMTT(40) DEF DepthInv
  <2>4. CASE p = "prod"
    <3>1. One(rpc["prod"] = "count") = 0 /\ One(rpc'["prod"] = "count") = 1
          /\ rpc'["cons"] = rpc["cons"]
      BY <1>1, <1>10, <2>4 DEF One, Readers
    <3> QED
      BY <1>0, <1>1, <1>3, <1>8, <2>1, <2>2, <3>1 DEF DepthInv
  <2> QED
    BY <2>3, <2>4 DEF Readers
<1>17. Places(at)'
  <2>1. EndOf(at, n) = at[n] + Total(n)
    BY <1>0, <1>3 DEF EndOf
  <2>2. EndOf(at, Len(out))' = EndOf(at, n)
    BY <1>1, <1>8 DEF EndOf, Total
  <2>3. head' = EndOf(at, Len(out))'
    BY <1>7, <2>1, <2>2
  <2>4. tail <= head' + Capacity
    BY <1>2, <1>3, <1>7 DEF Places
  <2>5. (tail = EndOf(at, Len(sent)))'
    BY <1>1, <1>2 DEF Places, EndOf, Total
  <2>6. (/\ at \in [Frames -> Nat]
         /\ \A i \in Frames : Idx(at[i]) + Total(i) <= Capacity
         /\ \A i, j \in Frames : i < j => at[i] + Total(i) <= at[j])'
    BY <1>2, <1>11, <1>12 DEF Places
  <2>7. (\A i \in 0..(Len(sent) - 1) :
           \/ at[i + 1] = EndOf(at, i)
           \/ /\ at[i + 1] = EndOf(at, i) + (Capacity - Idx(EndOf(at, i)))
              /\ Idx(EndOf(at, i)) + Total(i + 1) > Capacity)'
    BY <1>1, <1>2, <1>11, <1>12 DEF Places
  <2> QED
    BY <1>1, <1>7, <1>11, <2>3, <2>4, <2>5, <2>6, <2>7 DEF Places
<1>18. Apart(at)' /\ Multiples(at)'
  BY <1>1, DistancesStay DEF Layout
<1>19. \A i : /\ HasLength(at, i)' <=> HasLength(at, i)
              /\ HasBody(at, i)' <=> HasBody(at, i)
  BY <1>1, <1>11 DEF HasLength, HasBody
<1>20. FramesInv(at)'
  <2> SUFFICES ASSUME NEW i \in Unread', Written(i)
               PROVE  HasLength(at, i) /\ HasBody(at, i) /\ mem[Idx(at[i])].st = COMMITTED
    BY <1>1, <1>11, <1>12, <1>19 DEF FramesInv
  <2>1. i \in Unread /\ i # n
    BY <1>0, <1>3, <1>12
  <2> QED
    BY <1>0, <1>2, <2>1 DEF Layout, FramesInv
<1>21. FillInv(at)'
  <2> SUFFICES ASSUME ppc = "fill" PROVE FillInv(at)'
    BY <1>1 DEF FillInv
  <2>1. n < Len(sent)
    BY <1>5 DEF Written
  <2>2. FillInv(at)
    BY <1>2 DEF Layout
  <2>3. PICK m : m = Len(sent)
    OBVIOUS
  <2>4. Len(sent)' = m
    BY <1>1, <2>3
  <2>5. /\ HasLength(at, Len(sent)) <=> HasLength(at, m)
        /\ HasBody(at, Len(sent)) <=> HasBody(at, m)
        /\ (HasLength(at, Len(sent)) <=> HasLength(at, m))'
        /\ (HasBody(at, Len(sent)) <=> HasBody(at, m))'
    BY <2>3, <2>4
  <2> QED
    BY <1>1, <1>8, <1>11, <1>19, <2>1, <2>2, <2>3, <2>5 DEF FillInv
<1>22. PadsInv(at)'
  <2> SUFFICES ASSUME NEW i \in n..(Len(sent) - 1), head' <= EndOf(at, i), Padded(at, i)
               PROVE  mem[Idx(EndOf(at, i))] = PadWord(Capacity - Idx(EndOf(at, i)))
    BY <1>1, <1>8, <1>11, <1>12 DEF PadsInv
  <2>1. i \in Len(out)..(Len(sent) - 1)
    BY <1>0, <1>3
  <2>2. EndOf(at, i) \in Nat
    BY <1>2, <2>1, PadWindow
  <2>3. head <= EndOf(at, i)
    BY <1>2, <1>7, <2>2
  <2> QED
    BY <1>2, <2>1, <2>3 DEF Layout, PadsInv
<1>23. SlotsInv(at)'
  <2> SUFFICES ASSUME ~opts.one_thread, NEW z \in opts.sizes, NEW c \in 0..(Capacity - FrameTotal(z)),
                      (c % FrameTotal(z)) = 0, \A i \in Unread' : Idx(at[i]) # c
               PROVE  mem[c].st = EMPTY
    BY <1>1, <1>11 DEF SlotsInv, FrameTotal
  <2>1. CASE Idx(at[n]) = c
    BY <1>4, <1>5, <2>1
  <2>2. CASE Idx(at[n]) # c
    <3>1. \A i \in Unread : Idx(at[i]) # c
      BY <1>12, <2>2
    <3> QED
      BY <1>2, <3>1 DEF Layout, SlotsInv
  <2> QED
    BY <2>1, <2>2
<1>24. ReaderInv(at)'
  <2>1. ReaderOK(at, p)'
    BY <1>10 DEF ReaderOK
  <2> QED
    BY <1>1, <1>9, <2>1, OtherIdle
<1> QED
  BY <1>13, <1>14, <1>15, <1>16, <1>17, <1>18, <1>20, <1>21, <1>22, <1>23, <1>24 DEF Layout

-----------------------------------------------------------------------------
\* The producer's stores into the frame it has reserved.

\* The frame being written is the last of the unread ones.
LEMMA LastFrame ==
  ASSUME NEW at, Inv(at), ppc = "fill", NEW m, m = Len(sent)
  PROVE  /\ m \in Unread /\ m \in Frames /\ at[m] \in Nat /\ pl.off = at[m] /\ pl.msg = sent[m]
         /\ sent[m] = Message(m, sent[m].size) /\ sent[m].size \in Nat
         /\ Total(m) = HdrCells + sent[m].size /\ Total(m) \in Nat /\ Total(m) >= 2
         /\ Idx(at[m]) + Total(m) <= Capacity /\ Idx(at[m]) \in 0..(Capacity - 1)
         /\ Capacity \in Nat /\ HdrCells \in Nat /\ HdrCells >= 2
<1>1. TypeInv /\ MessageInv /\ Places(at) /\ FillInv(at)
  BY DEF Inv, Basics, Layout
<1>2. Len(sent) \in Nat /\ Len(out) \in Nat /\ Len(out) < Len(sent) /\ Unread \subseteq Frames
  BY <1>1, Lengths DEF FillInv
<1>3. m \in Unread /\ m \in Frames
  BY <1>2 DEF Unread
<1>4. pl.off = at[m] /\ pl.msg = sent[m]
  BY <1>1 DEF FillInv
<1>5. sent[m] = Message(m, sent[m].size)
  BY <1>1, <1>3 DEF MessageInv
<1>6. /\ sent[m].size \in Nat
      /\ Total(m) = HdrCells + sent[m].size /\ Total(m) \in Nat /\ Total(m) >= 2
  BY <1>1, <1>3, TotalIn
<1>7. at[m] \in Nat /\ Idx(at[m]) + Total(m) <= Capacity /\ Idx(at[m]) \in 0..(Capacity - 1)
  BY <1>1, <1>3, Window
<1>8. Capacity \in Nat /\ HdrCells \in Nat /\ HdrCells >= 2
  BY <1>1, InUse
<1> QED
  BY <1>3, <1>4, <1>5, <1>6, <1>7, <1>8

\* No place where a frame of the queue's only size may begin lies inside the
\* frame being written.
LEMMA SlotOutside ==
  ASSUME NEW at, Inv(at), NEW m \in Frames, ~opts.one_thread, NEW z \in opts.sizes,
         NEW c \in Nat, (c % FrameTotal(z)) = 0, c # Idx(at[m]),
         NEW d \in 0..(Total(m) - 1)
  PROVE  c # Idx(at[m]) + d
<1> DEFINE x == Idx(at[m])
           T == FrameTotal(z)
<1>1. TypeInv /\ MessageInv /\ Places(at) /\ Multiples(at)
  BY DEF Inv, Basics, Layout
<1>2. /\ Total(m) \in Nat /\ Total(m) >= 2 /\ Total(m) <= Capacity /\ sent[m].size \in opts.sizes
      /\ Capacity \in Nat
  BY <1>1, TotalIn, InUse
<1>3. \A y \in opts.sizes : y = z
  BY <1>1 DEF TypeInv, Sound
<1>4. T = Total(m) /\ \A y \in opts.sizes : FrameTotal(y) = T
  BY <1>2, <1>3 DEF Total
<1>5. x \in Nat
  <2>1. at[m] \in Nat
    BY <1>1 DEF Places
  <2>2. x \in 0..(Capacity - 1)
    BY <1>1, <2>1, IdxIn
  <2> QED
    BY <1>2, <2>2
<1> HIDE DEF x, T
<1>6. T \in 1..Capacity /\ (T % T) = 0 /\ T \in Nat \ {0}
  BY <1>2, <1>4
<1>7. (x % T) = 0
  <2>1. \A y \in opts.sizes : (FrameTotal(y) % T) = 0
    BY <1>4, <1>6
  <2> QED
    BY <1>1, <1>6, <2>1 DEF Multiples, x
<1>8. (c % T) = 0 /\ c # x
  BY DEF T, x
<1>9. c > x => x + T <= c
  BY <1>5, <1>6, <1>7, <1>8, MultiplesApart
<1> QED
  BY <1>2, <1>4, <1>5, <1>8, <1>9 DEF x

\* A cell of another unread frame is no cell of it.
LEMMA OtherFrame ==
  ASSUME TypeInv, MessageInv, NEW at, Places(at), NEW i \in Unread, NEW m \in Unread, i # m,
         NEW d \in 0..(Total(i) - 1)
  PROVE  \A e \in 0..(Total(m) - 1) : Idx(at[i]) + d # Idx(at[m]) + e
  BY Disjoint

\* No cell but those from x on is written.
StoredIn(x, n) ==
  \A c \in 0..(Capacity - 1) : (\A d \in 0..(n - 1) : c # Idx(x) + d) => mem'[c] = mem[c]

\* A store into that frame, whatever it stores, keeps the rest of the ring.
LEMMA FillStep ==
  ASSUME NEW at, Inv(at), ppc = "fill", NEW m, m = Len(sent),
         UNCHANGED <<opts, head, tail, depth, rpc, rl, sent, out>>,
         DOMAIN pl' = {"msg", "pad", "off", "todo"}, pl'.pad = pl.pad, pl'.off = pl.off,
         ppc' \in {"fill", "count"},
         mem' \in [0..(Capacity - 1) -> [len : Int, st : {EMPTY, COMMITTED, opts.payload}]],
         StoredIn(at[m], Total(m)),
         ppc' = "count" =>
           HasLength(at, m)' /\ HasBody(at, m)' /\ mem'[Idx(at[m])].st = COMMITTED,
         FillInv(at)'
  PROVE  Inv(at)'
<1>1. /\ TypeInv /\ MessageInv /\ PcInv /\ DepthInv /\ Layout(at) /\ Places(at)
      /\ Len(sent) \in Nat /\ Len(out) \in Nat
  BY Lengths DEF Inv, Basics, Layout
<1>2. /\ m \in Unread /\ m \in Frames /\ Total(m) \in Nat /\ Total(m) >= 2 /\ Capacity \in Nat
      /\ Idx(at[m]) \in 0..(Capacity - 1)
  BY LastFrame
<1>3. Capacity' = Capacity /\ \A x : Idx(x)' = Idx(x)
  BY IdxStays
<1>4. TypeInv'
  BY <1>1, <1>3 DEF TypeInv
<1>5. MessageInv'
  BY <1>1, <1>3 DEF MessageInv, Frames, Total
<1>6. PcInv'
  BY <1>1 DEF PcInv
<1>7. DepthInv'
  BY <1>1 DEF DepthInv, One
<1>8. Places(at)' /\ Apart(at)' /\ Multiples(at)'
  BY <1>1, PlacesStay, DistancesStay DEF Layout
<1>9. ASSUME NEW i \in Unread, i # m
      PROVE  /\ HasLength(at, i)' <=> HasLength(at, i)
             /\ HasBody(at, i)' <=> HasBody(at, i)
             /\ mem'[Idx(at[i])] = mem[Idx(at[i])]
  <2>1. /\ i \in Frames /\ at[i] \in Nat /\ Idx(at[i]) + Total(i) <= Capacity
        /\ Idx(at[i]) \in 0..(Capacity - 1) /\ Total(i) \in Nat
    BY <1>1, Window, TotalIn
  <2>2. Kept(at[i], Total(i))
    <3> SUFFICES ASSUME NEW d \in 0..(Total(i) - 1) PROVE mem'[Idx(at[i]) + d] = mem[Idx(at[i]) + d]
      BY DEF Kept
    <3>1. \A e \in 0..(Total(m) - 1) : Idx(at[i]) + d # Idx(at[m]) + e
      <4>1. TypeInv /\ MessageInv /\ Places(at)
        BY <1>1
      <4>2. i \in Unread /\ m \in Unread /\ i # m
        BY <1>2, <1>9
      <4>3. d \in 0..(Total(i) - 1)
        OBVIOUS
      <4> QED
        BY <4>1, <4>2, <4>3, OtherFrame
    <3>2. Idx(at[i]) + d \in 0..(Capacity - 1)
      BY <1>2, <2>1, SMTT(40)
    <3> QED
      BY <3>1, <3>2 DEF StoredIn
  <2>3. sent'[i] = sent[i]
    OBVIOUS
  <2> QED
    BY <1>1, <2>1, <2>2, <2>3, KeptFrame
<1>10. Unread' = Unread /\ (Advancing' <=> Advancing)
  BY DEF Unread, Advancing
<1>11. FramesInv(at)'
  <2> SUFFICES ASSUME NEW i \in Unread, Written(i)'
               PROVE  /\ HasLength(at, i)' /\ HasBody(at, i)'
                      /\ mem'[Idx(at[i])].st = COMMITTED \/ (i = Len(out) + 1 /\ Advancing)
    BY <1>3, <1>10 DEF FramesInv
  <2>1. CASE i = m
    <3>1. ppc' = "count"
      BY <1>1, <2>1 DEF Written
    <3> QED
      BY <2>1, <3>1
  <2>2. CASE i # m
    <3>1. Written(i)
      BY <1>1, <2>2 DEF Written, Unread
    <3>2. /\ HasLength(at, i) /\ HasBody(at, i)
          /\ mem[Idx(at[i])].st = COMMITTED \/ (i = Len(out) + 1 /\ Advancing)
      BY <1>1, <3>1 DEF Layout, FramesInv
    <3> QED
      BY <1>9, <2>2, <3>2
  <2> QED
    BY <2>1, <2>2
<1>12. PadsInv(at)'
  <2> SUFFICES ASSUME NEW i \in Len(out)..(Len(sent) - 1), head <= EndOf(at, i), Padded(at, i)
               PROVE  mem'[Idx(EndOf(at, i))] = PadWord(Capacity - Idx(EndOf(at, i)))
    BY <1>3 DEF PadsInv, Padded, EndOf, Total
  <2>1. mem[Idx(EndOf(at, i))] = PadWord(Capacity - Idx(EndOf(at, i)))
    BY <1>1 DEF Layout, PadsInv
  <2>2. Idx(EndOf(at, i)) \in 0..(Capacity - 1)
    BY <1>1, PadWindow
  <2>3. ASSUME NEW d \in 0..(Total(m) - 1) PROVE Idx(EndOf(at, i)) # Idx(at[m]) + d
    <3>1. Idx(at[m]) + d # Idx(EndOf(at, i))
      BY <1>1, <1>2, PadApart
    <3> QED
      BY <3>1
  <2> QED
    BY <2>1, <2>2, <2>3 DEF StoredIn
<1>13. SlotsInv(at)'
  <2> SUFFICES ASSUME ~opts.one_thread, NEW z \in opts.sizes, NEW c \in 0..(Capacity - FrameTotal(z)),
                      (c % FrameTotal(z)) = 0, \A i \in Unread : Idx(at[i]) # c
               PROVE  mem'[c].st = EMPTY
    BY <1>3 DEF SlotsInv, Unread, FrameTotal
  <2>1. mem[c].st = EMPTY
    BY <1>1 DEF Layout, SlotsInv
  <2>2. c \in 0..(Capacity - 1)
    BY <1>1, InUse DEF FrameTotal
  <2>3. c # Idx(at[m]) /\ c \in Nat
    BY <1>2, <2>2
  <2>4. \A d \in 0..(Total(m) - 1) : c # Idx(at[m]) + d
    BY <1>2, <2>3, SlotOutside
  <2> QED
    BY <2>1, <2>2, <2>4 DEF StoredIn
<1>14. ReaderInv(at)'
  <2> SUFFICES ASSUME NEW p \in Readers PROVE ReaderOK(at, p)'
    BY DEF ReaderInv
  <2>1. ReaderOK(at, p) /\ head \in Nat
    BY <1>1 DEF Layout, ReaderInv, TypeInv
  <2>2. AtPadding(at)' <=> AtPadding(at)
    BY DEF AtPadding, Padded, EndOf, Total
  <2>3. AtFrame(at) => AtFrame(at)' /\ Len(out) + 1 # m
    BY <1>1 DEF AtFrame, Written
  <2>4. ASSUME rpc[p] = "advance" PROVE mem'[Idx(head)].st = EMPTY
    <3>1. PICK n : n = Len(out) + 1
      OBVIOUS
    <3>2. /\ AtFrame(at) /\ head < tail /\ mem[Idx(head)].st = EMPTY /\ head = at[n]
      BY <2>1, <2>4, <3>1 DEF ReaderOK, AtFrame
    <3>3. n \in Unread /\ n # m
      BY <2>3, <3>1, <3>2, AtHead
    <3> QED
      BY <1>9, <3>2, <3>3
  <2> QED
    BY <1>3, <2>1, <2>2, <2>3, <2>4 DEF ReaderOK
<1> QED
  BY <1>4, <1>5, <1>6, <1>7, <1>8, <1>11, <1>12, <1>13, <1>14 DEF Inv, Basics, Layout

\* One cell's length is set.
LEMMA SetLength ==
  ASSUME TypeInv, NEW k \in 0..(Capacity - 1), NEW v \in Int, mem' = [mem EXCEPT ![k].len = v]
  PROVE  /\ mem' \in [0..(Capacity - 1) -> [len : Int, st : {EMPTY, COMMITTED, opts.payload}]]
         /\ mem'[k].len = v /\ mem'[k].st = mem[k].st
         /\ \A c \in 0..(Capacity - 1) : c # k => mem'[c] = mem[c]
<1>1. /\ mem \in [0..(Capacity - 1) -> [len : Int, st : {EMPTY, COMMITTED, opts.payload}]]
      /\ mem[k] \in [len : Int, st : {EMPTY, COMMITTED, opts.payload}]
  BY DEF TypeInv
<1> DEFINE w == [mem[k] EXCEPT !.len = v]
<1>2. w.len = v /\ w.st = mem[k].st /\ w \in [len : Int, st : {EMPTY, COMMITTED, opts.payload}]
  BY <1>1
<1>3. mem' = [mem EXCEPT ![k] = w]
  OBVIOUS
<1> HIDE DEF w
<1> QED
  BY <1>1, <1>2, <1>3

\* What is left to store, when stores are seen in the order they are issued.
LEMMA TodoIn ==
  ASSUME ~RelaxedStores, NEW at, Inv(at), NEW what, MayStore(what), Stored(what)
  PROVE  /\ ppc = "fill" /\ what \in pl.todo
         /\ DOMAIN pl' = {"msg", "pad", "off", "todo"} /\ pl'.todo = pl.todo \ {what}
         /\ pl'.msg = pl.msg /\ pl'.pad = pl.pad /\ pl'.off = pl.off
         /\ ppc' \in {"fill", "count"} /\ (ppc' = "count" <=> pl'.todo = {})
         /\ pl.todo \in {{"length", "body", "status"}, {"body", "status"}, {"status"}}
         /\ what = "length" => pl'.todo = {"body", "status"} /\ pl.todo = {"length", "body", "status"}
         /\ what = "body" => pl'.todo = {"status"} /\ pl.todo = {"body", "status"}
         /\ what = "status" => pl'.todo = {} /\ pl.todo = {"status"}
<1>1. ppc = "fill" /\ what \in pl.todo
  BY DEF MayStore
<1>2. /\ DOMAIN pl = {"msg", "pad", "off", "todo"}
      /\ pl.todo \in {{"length", "body", "status"}, {"body", "status"}, {"status"}}
  BY <1>1 DEF Inv, Basics, Layout, TypeInv, FillInv
<1>3. /\ DOMAIN pl' = {"msg", "pad", "off", "todo"} /\ pl'.todo = pl.todo \ {what}
      /\ pl'.msg = pl.msg /\ pl'.pad = pl.pad /\ pl'.off = pl.off
  BY <1>2 DEF Stored
<1>4. ppc' \in {"fill", "count"} /\ (ppc' = "count" <=> pl'.todo = {})
  BY <1>3 DEF Stored
<1>5. \/ what = "length"
      \/ what = "body" /\ "length" \notin pl.todo
      \/ what = "status" /\ pl.todo = {"status"}
  BY DEF MayStore
<1>6. /\ what = "length" => pl'.todo = {"body", "status"} /\ pl.todo = {"length", "body", "status"}
      /\ what = "body" => pl'.todo = {"status"} /\ pl.todo = {"body", "status"}
      /\ what = "status" => pl'.todo = {} /\ pl.todo = {"status"}
  BY <1>1, <1>2, <1>3, <1>5
<1> QED
  BY <1>1, <1>2, <1>3, <1>4, <1>6

LEMMA StoreLengthInv ==
  ASSUME ~RelaxedStores, NEW at, Inv(at), StoreLength PROVE Inv(at)'
<1>1. /\ MayStore("length") /\ Stored("length")
      /\ mem' = [mem EXCEPT ![Idx(pl.off)].len = pl.msg.size]
      /\ UNCHANGED <<opts, head, tail, depth, rpc, rl, sent, out>>
  BY DEF StoreLength, readVars, histVars
<1>2. /\ ppc = "fill" /\ ppc' = "fill"
      /\ DOMAIN pl' = {"msg", "pad", "off", "todo"} /\ pl'.todo = {"body", "status"}
      /\ pl'.msg = pl.msg /\ pl'.pad = pl.pad /\ pl'.off = pl.off
  BY <1>1, TodoIn
<1>3. PICK m : m = Len(sent)
  OBVIOUS
<1>4. /\ pl.off = at[m] /\ pl.msg = sent[m] /\ sent[m].size \in Nat
      /\ Idx(at[m]) \in 0..(Capacity - 1) /\ Total(m) \in Nat /\ Total(m) >= 2 /\ Capacity \in Nat
  BY <1>2, <1>3, LastFrame
<1>5. TypeInv /\ FillInv(at)
  BY DEF Inv, Basics, Layout
<1> DEFINE k == Idx(at[m])
<1>6. k \in 0..(Capacity - 1) /\ sent[m].size \in Int /\ mem' = [mem EXCEPT ![k].len = sent[m].size]
  BY <1>1, <1>4
<1> HIDE DEF k
<1>7. /\ mem' \in [0..(Capacity - 1) -> [len : Int, st : {EMPTY, COMMITTED, opts.payload}]]
      /\ mem'[k].len = sent[m].size /\ mem'[k].st = mem[k].st
      /\ \A c \in 0..(Capacity - 1) : c # k => mem'[c] = mem[c]
  BY <1>5, <1>6, SetLength
<1>8. StoredIn(at[m], Total(m))
  <2>1. 0 \in 0..(Total(m) - 1) /\ Idx(at[m]) + 0 = k
    BY <1>4 DEF k
  <2> QED
    BY <1>7, <2>1 DEF StoredIn
<1>9. Idx(at[m])' = k /\ Len(sent)' = m
  BY <1>1, <1>3, IdxStays DEF k
<1>10. FillInv(at)'
  <2>1. HasLength(at, m)'
    BY <1>1, <1>7, <1>9 DEF HasLength
  <2>2. HasLength(at, Len(sent))'
    BY <1>9, <2>1
  <2>3. ~opts.one_thread => mem'[k].st = EMPTY
    BY <1>2, <1>3, <1>5, <1>7 DEF FillInv, k
  <2> QED
    BY <1>1, <1>2, <1>3, <1>4, <1>5, <1>9, <2>2, <2>3 DEF FillInv
<1> QED
  BY <1>1, <1>2, <1>3, <1>7, <1>8, <1>10, FillStep

LEMMA StoreBodyInv ==
  ASSUME ~RelaxedStores, NEW at, Inv(at), StoreBody PROVE Inv(at)'
<1>1. /\ MayStore("body") /\ Stored("body")
      /\ mem' = [c \in DOMAIN mem |->
                   LET i == c - Idx(pl.off) IN
                   IF i > 0 /\ i < FrameTotal(pl.msg.size)
                   THEN BodyWord(pl.msg, i) ELSE mem[c]]
      /\ UNCHANGED <<opts, head, tail, depth, rpc, rl, sent, out>>
  BY DEF StoreBody, readVars, histVars
<1>2. /\ ppc = "fill" /\ ppc' = "fill" /\ pl.todo = {"body", "status"}
      /\ DOMAIN pl' = {"msg", "pad", "off", "todo"} /\ pl'.todo = {"status"}
      /\ pl'.msg = pl.msg /\ pl'.pad = pl.pad /\ pl'.off = pl.off
  BY <1>1, TodoIn
<1>3. PICK m : m = Len(sent)
  OBVIOUS
<1> DEFINE k == Idx(at[m])
<1>4. /\ pl.off = at[m] /\ pl.msg = sent[m] /\ sent[m].size \in Nat /\ sent[m].id = m /\ m \in Nat
      /\ k \in 0..(Capacity - 1) /\ Total(m) \in Nat /\ Total(m) >= 2 /\ Capacity \in Nat
      /\ Total(m) = HdrCells + sent[m].size /\ HdrCells \in Nat /\ HdrCells >= 2
      /\ k + Total(m) <= Capacity
  <2>1. /\ pl.off = at[m] /\ pl.msg = sent[m] /\ sent[m].size \in Nat
        /\ k \in 0..(Capacity - 1) /\ Total(m) \in Nat /\ Total(m) >= 2 /\ Capacity \in Nat
        /\ Total(m) = HdrCells + sent[m].size /\ HdrCells \in Nat /\ HdrCells >= 2
        /\ k + Total(m) <= Capacity /\ sent[m] = Message(m, sent[m].size)
    BY <1>2, <1>3, LastFrame
  <2>2. sent[m].id = m
    BY <2>1 DEF Message
  <2>3. m \in Nat
    BY <1>3, Lengths DEF Inv, Basics
  <2> QED
    BY <2>1, <2>2, <2>3
<1>5. TypeInv /\ FillInv(at)
  BY DEF Inv, Basics, Layout
<1>6. /\ mem \in [0..(Capacity - 1) -> [len : Int, st : {EMPTY, COMMITTED, opts.payload}]]
      /\ DOMAIN mem = 0..(Capacity - 1)
  BY <1>5 DEF TypeInv
<1>7. mem' = [c \in 0..(Capacity - 1) |->
                IF c - k > 0 /\ c - k < Total(m) THEN BodyWord(sent[m], c - k) ELSE mem[c]]
  <2>1. FrameTotal(pl.msg.size) = Total(m) /\ Idx(pl.off) = k
    BY <1>4 DEF Total
  <2> QED
    BY <1>1, <1>4, <1>6, <2>1
<1>8. ASSUME NEW i \in Int
      PROVE  /\ BodyWord(sent[m], i) \in [len : Int, st : {EMPTY, COMMITTED, opts.payload}]
             /\ i = 1 \/ i >= HdrCells => BodyWord(sent[m], i).len = m
  BY <1>4 DEF BodyWord, IdWord, ZeroWord, PayloadWord
<1> HIDE DEF k
<1>9. /\ mem' \in [0..(Capacity - 1) -> [len : Int, st : {EMPTY, COMMITTED, opts.payload}]]
      /\ mem'[k] = mem[k]
  <2>1. ASSUME NEW c \in 0..(Capacity - 1)
        PROVE  (IF c - k > 0 /\ c - k < Total(m) THEN BodyWord(sent[m], c - k) ELSE mem[c])
                 \in [len : Int, st : {EMPTY, COMMITTED, opts.payload}]
    <3>1. c - k \in Int
      BY <1>4
    <3>2. BodyWord(sent[m], c - k) \in [len : Int, st : {EMPTY, COMMITTED, opts.payload}]
      BY <1>8, <3>1
    <3> QED
      BY <1>6, <3>2
  <2>2. ~(k - k > 0)
    BY <1>4
  <2> QED
    BY <1>4, <1>7, <2>1, <2>2
<1>10. ASSUME NEW d \in 1..(Total(m) - 1)
       PROVE  mem'[k + d] = BodyWord(sent[m], d)
  <2>1. k + d \in 0..(Capacity - 1) /\ (k + d) - k = d /\ d > 0 /\ d < Total(m)
    BY <1>4
  <2> QED
    BY <1>7, <2>1
<1>11. StoredIn(at[m], Total(m))
  <2> SUFFICES ASSUME NEW c \in 0..(Capacity - 1), \A d \in 0..(Total(m) - 1) : c # k + d
               PROVE  mem'[c] = mem[c]
    BY DEF StoredIn, k
  <2>1. c - k > 0 /\ c - k < Total(m) => c - k \in 0..(Total(m) - 1) /\ c = k + (c - k)
    BY <1>4
  <2>2. ~(c - k > 0 /\ c - k < Total(m))
    BY <2>1
  <2> QED
    BY <1>7, <2>2
<1>12. Idx(at[m])' = k /\ Idx(at[m]) = k /\ Len(sent)' = m
  BY <1>1, <1>3, IdxStays DEF k
<1>13. HasBody(at, m)'
  <2>1. mem'[k + 1].len = m
    <3>1. 1 \in 1..(Total(m) - 1)
      BY <1>4
    <3> QED
      BY <1>8, <1>10, <3>1
  <2>2. ASSUME NEW d \in 1..sent[m].size PROVE mem'[k + (HdrCells + d - 1)].len = m
    <3>1. HdrCells + d - 1 \in 1..(Total(m) - 1) /\ HdrCells + d - 1 >= HdrCells
      BY <1>4
    <3> QED
      BY <1>8, <1>10, <3>1
  <2> QED
    BY <1>1, <1>12, <2>1, <2>2 DEF HasBody
<1>14. FillInv(at)'
  <2>1. HasLength(at, m)
    BY <1>2, <1>3, <1>5 DEF FillInv
  <2>2. HasLength(at, m)'
    BY <1>1, <1>9, <1>12, <2>1 DEF HasLength
  <2>3. HasLength(at, Len(sent))' /\ HasBody(at, Len(sent))'
    BY <1>12, <1>13, <2>2
  <2>4. ~opts.one_thread => mem'[k].st = EMPTY
    BY <1>2, <1>3, <1>5, <1>9 DEF FillInv, k
  <2> QED
    BY <1>1, <1>2, <1>3, <1>4, <1>5, <1>12, <2>3, <2>4 DEF FillInv
<1> QED
  BY <1>1, <1>2, <1>3, <1>9, <1>11, <1>14, FillStep

LEMMA StoreStatusInv ==
  ASSUME ~RelaxedStores, NEW at, Inv(at), StoreStatus PROVE Inv(at)'
<1>1. /\ MayStore("status") /\ Stored("status")
      /\ mem' = [mem EXCEPT ![Idx(pl.off)].st = COMMITTED]
      /\ UNCHANGED <<opts, head, tail, depth, rpc, rl, sent, out>>
  BY DEF StoreStatus, readVars, histVars
<1>2. /\ ppc = "fill" /\ ppc' = "count" /\ pl.todo = {"status"}
      /\ DOMAIN pl' = {"msg", "pad", "off", "todo"}
      /\ pl'.pad = pl.pad /\ pl'.off = pl.off
  BY <1>1, TodoIn
<1>3. PICK m : m = Len(sent)
  OBVIOUS
<1> DEFINE k == Idx(at[m])
<1>4. /\ pl.off = at[m] /\ pl.msg = sent[m] /\ sent[m].size \in Nat
      /\ k \in 0..(Capacity - 1) /\ Total(m) \in Nat /\ Total(m) >= 2 /\ Capacity \in Nat
      /\ Total(m) = HdrCells + sent[m].size /\ HdrCells \in Nat /\ HdrCells >= 2
      /\ k + Total(m) <= Capacity
  BY <1>2, <1>3, LastFrame
<1>5. TypeInv /\ FillInv(at)
  BY DEF Inv, Basics, Layout
<1>6. mem' = [mem EXCEPT ![k].st = COMMITTED] /\ COMMITTED \in {EMPTY, COMMITTED, opts.payload}
  BY <1>1, <1>4
<1>7. Idx(at[m])' = k /\ Idx(at[m]) = k /\ Len(sent)' = m
  BY <1>1, <1>3, IdxStays
<1> HIDE DEF k
<1>8. /\ mem' \in [0..(Capacity - 1) -> [len : Int, st : {EMPTY, COMMITTED, opts.payload}]]
      /\ mem'[k].st = COMMITTED /\ mem'[k].len = mem[k].len
      /\ \A c \in 0..(Capacity - 1) : c # k => mem'[c] = mem[c]
  BY <1>4, <1>5, <1>6, SetStatus
<1>9. StoredIn(at[m], Total(m))
  <2>1. 0 \in 0..(Total(m) - 1) /\ Idx(at[m]) + 0 = k
    BY <1>4, <1>7
  <2> QED
    BY <1>8, <2>1 DEF StoredIn
<1>10. HasLength(at, m) /\ HasBody(at, m)
  BY <1>2, <1>3, <1>5 DEF FillInv
<1>11. HasLength(at, m)'
  BY <1>1, <1>7, <1>8, <1>10 DEF HasLength
<1>12. HasBody(at, m)'
  <2>1. k + 1 # k /\ k + 1 \in 0..(Capacity - 1)
    BY <1>4
  <2>2. ASSUME NEW d \in 1..sent[m].size
        PROVE  k + (HdrCells + d - 1) # k /\ k + (HdrCells + d - 1) \in 0..(Capacity - 1)
    BY <1>4
  <2> QED
    BY <1>1, <1>7, <1>8, <1>10, <2>1, <2>2 DEF HasBody
<1>13. FillInv(at)'
  BY <1>2 DEF FillInv
<1>14. mem'[Idx(at[m])].st = COMMITTED
  BY <1>7, <1>8
<1> QED
  BY <1>1, <1>2, <1>3, <1>8, <1>9, <1>11, <1>12, <1>13, <1>14, FillStep

-----------------------------------------------------------------------------
\* The publication of tail: a frame, and padding in front of it, is added.

\* A nonempty set of numbers has a least element: among its initial segments
\* one has no other inside it.
LEMMA LeastNumber ==
  ASSUME NEW S, S \subseteq Nat, S # {}
  PROVE  Min(S) \in S /\ \A y \in S : Min(S) <= y
<1>1. PICK n \in S : n \in Nat
  OBVIOUS
<1> DEFINE T == {y \in S : y <= n}
           F == {0..k : k \in T}
           R == StrictSubsetOrdering(0..n)
<1>2. IsWellFoundedOn(R, FiniteSubsetsOf(0..n))
  BY <1>1, FS_Interval, FS_StrictSubsetOrderingWellFounded
<1>3. F \subseteq FiniteSubsetsOf(0..n) /\ F # {}
  <2>1. ASSUME NEW k \in T PROVE IsFiniteSet(0..k) /\ 0..k \subseteq 0..n
    BY <1>1, FS_Interval
  <2>2. n \in T
    BY <1>1
  <2> QED
    BY <2>1, <2>2 DEF FiniteSubsetsOf
<1>4. PICK x \in F : \A y \in F : ~(<<y, x>> \in R)
  <2> HIDE DEF F, R
  <2> QED
    BY <1>2, <1>3, WFMin
<1>5. PICK k \in T : x = 0..k
  OBVIOUS
<1>6. ASSUME NEW j \in T, j < k PROVE FALSE
  <2>1. j \in Nat /\ k \in Nat /\ k <= n
    OBVIOUS
  <2>2. 0..j \subseteq 0..k /\ 0..j # 0..k /\ 0..k \subseteq 0..n
    <3>1. k \in 0..k /\ k \notin 0..j
      BY <1>6, <2>1
    <3> QED
      BY <1>1, <1>6, <2>1, <3>1
  <2>3. <<0..j, 0..k>> \in R
    BY <2>2 DEF StrictSubsetOrdering
  <2> QED
    BY <1>4, <1>5, <2>3
<1>7. k \in S /\ \A y \in S : k <= y
  BY <1>1, <1>6
<1> QED
  BY <1>7 DEF Min

\* The smallest frame is as long as a frame can be short.
LEMMA SmallestFrame ==
  ASSUME TypeInv, NEW z \in opts.sizes
  PROVE  /\ FrameTotal(Min(opts.sizes)) \in Nat /\ FrameTotal(Min(opts.sizes)) >= 2
         /\ FrameTotal(Min(opts.sizes)) <= FrameTotal(z) /\ FrameTotal(z) \in Nat
<1>1. opts.sizes \subseteq Nat /\ opts.sizes # {} /\ HdrCells \in Nat /\ HdrCells >= 2
  BY InUse
<1>2. Min(opts.sizes) \in Nat /\ Min(opts.sizes) <= z /\ z \in Nat
  BY <1>1, LeastNumber
<1> QED
  BY <1>1, <1>2 DEF FrameTotal

\* The frame that is reserved: message n + 1, of z payload cells, at offset x.
Reserved(n, x, z) ==
  /\ n = Len(sent) /\ n \in Nat /\ x = tail + pl.pad /\ x \in Nat
  /\ z \in opts.sizes /\ z \in Nat /\ pl.msg = Message(n + 1, z) /\ n < opts.pushes
  /\ FrameTotal(z) \in Nat /\ FrameTotal(z) >= 2 /\ FrameTotal(z) <= Capacity
  /\ Idx(x) + FrameTotal(z) <= Capacity /\ x + FrameTotal(z) <= head + Capacity
  /\ \/ pl.pad = 0 /\ x = tail
     \/ /\ pl.pad = Capacity - Idx(tail) /\ pl.pad > 0 /\ Idx(x) = 0
        /\ Idx(tail) + FrameTotal(z) > Capacity

LEMMA ReservedFact ==
  ASSUME NEW at, Inv(at), ppc = "publish", NEW n, n = Len(sent), NEW x, x = tail + pl.pad
  PROVE  \E z : Reserved(n, x, z)
<1>1. TypeInv /\ MessageInv /\ PcInv
  BY DEF Inv, Basics
<1>2. PICK z \in opts.sizes : /\ pl.msg = Message(n + 1, z)
                              /\ n < opts.pushes /\ FrameTotal(z) <= Capacity
  BY <1>1 DEF PcInv
<1> DEFINE T == FrameTotal(z)
<1>3. pl.msg.size = z
  BY <1>2 DEF Message
<1>4. /\ pl.pad = Padding(T) /\ tail + pl.pad + T <= head + Capacity
  BY <1>1, <1>3 DEF PcInv
<1>5. T \in Nat /\ T >= 2 /\ z \in Nat
  BY <1>1, <1>2, InUse DEF FrameTotal
<1>6. /\ tail \in Nat /\ head \in Nat /\ pl.pad \in Nat /\ Capacity \in Nat \ {0}
      /\ Idx(tail) \in 0..(Capacity - 1) /\ n \in Nat
  BY <1>1, InUse, IdxIn, Lengths DEF TypeInv
<1>7. x \in Nat /\ x + T <= head + Capacity
  <2> HIDE DEF T
  <2> QED
    BY <1>4, <1>5, <1>6
<1>8. CASE Idx(tail) + T > Capacity
  <2>1. pl.pad = Capacity - Idx(tail) /\ pl.pad > 0
    BY <1>4, <1>6, <1>8 DEF Padding
  <2>2. x = tail + Capacity - (tail % Capacity)
    BY <1>6, <2>1 DEF Idx
  <2>3. Idx(x) = 0
    BY <1>6, <2>2, RoundTheEnd DEF Idx
  <2>4. Idx(x) + T <= Capacity
    BY <1>2, <1>5, <2>3
  <2> QED
    BY <1>2, <1>5, <1>6, <1>7, <1>8, <2>1, <2>3, <2>4 DEF Reserved
<1>9. CASE ~(Idx(tail) + T > Capacity)
  <2>1. pl.pad = 0
    BY <1>4, <1>9 DEF Padding
  <2>2. x = tail
    BY <1>6, <2>1
  <2>3. Idx(x) + T <= Capacity
    <3> HIDE DEF T
    <3> QED
      BY <1>5, <1>6, <1>9, <2>2
  <2> QED
    BY <1>2, <1>5, <1>6, <1>7, <2>1, <2>2, <2>3 DEF Reserved
<1> QED
  BY <1>8, <1>9

\* A piece that lies before tail, and not a turn behind the end of the buffer,
\* is in cells before tail's.
LEMMA BeforeTail ==
  ASSUME TypeInv, NEW y \in Nat, NEW l \in Nat, Idx(y) + l <= Capacity, y + l <= tail,
         tail + (Capacity - Idx(tail)) <= y + Capacity, NEW d \in 0..(l - 1)
  PROVE  Idx(y) + d < Idx(tail) /\ Idx(y) + d \in 0..(Capacity - 1)
<1>1. /\ tail \in Nat /\ Capacity \in Nat
      /\ Idx(tail) \in 0..(Capacity - 1) /\ Idx(y) \in 0..(Capacity - 1)
  BY InUse, IdxIn DEF TypeInv
<1>2. Idx(y) + d \in 0..(Capacity - 1)
  BY <1>1
<1>3. ASSUME Idx(y) + d >= Idx(tail) PROVE FALSE
  <2> DEFINE e == Idx(y) + d - Idx(tail)
             m == Capacity - Idx(tail)
  <2>1. e \in 0..(m - 1) /\ m \in Nat /\ Idx(tail) + m <= Capacity /\ tail + m <= y + Capacity
        /\ Idx(tail) + e = Idx(y) + d
    BY <1>1, <1>2, <1>3
  <2>2. Idx(y) + d # Idx(tail) + e
    <3> HIDE DEF e, m
    <3> QED
      BY <1>1, <2>1, Clash
  <2> QED
    BY <2>1, <2>2
<1> QED
  BY <1>1, <1>2, <1>3

\* Behind a frame that ends at the buffer's end is the buffer's start.
LEMMA IdxBehind ==
  ASSUME TypeInv, NEW x \in Nat, NEW T \in Nat, Idx(x) + T <= Capacity
  PROVE  Idx(x + T) = IF Idx(x) + T = Capacity THEN 0 ELSE Idx(x) + T
<1>1. Capacity \in Nat \ {0} /\ Idx(x) \in 0..(Capacity - 1)
  BY InUse, IdxIn
<1>2. CASE Idx(x) + T = Capacity
  <2>1. x + T = x + Capacity - (x % Capacity)
    <3>1. T = Capacity - Idx(x)
      BY <1>1, <1>2
    <3> QED
      BY <1>1, <3>1 DEF Idx
  <2> QED
    BY <1>1, <1>2, <2>1, RoundTheEnd DEF Idx
<1>3. CASE Idx(x) + T # Capacity
  <2>1. Idx(x) + T < Capacity
    BY <1>1, <1>3
  <2> QED
    BY <1>3, <2>1, IdxPlus
<1> QED
  BY <1>2, <1>3

\* The offsets with the new frame's.
Extended(at, n, x) == [i \in 1..(n + 1) |-> IF i = n + 1 THEN x ELSE at[i]]

\* What the publication does to the buffer: nothing, or it marks padding at
\* tail and clears cells behind it.
LEMMA PublishedCells ==
  ASSUME NEW at, Inv(at), PublishTail
  PROVE  /\ mem' \in [0..(Capacity - 1) -> [len : Int, st : {EMPTY, COMMITTED, opts.payload}]]
         /\ pl.pad = 0 => mem' = mem
         /\ \A c \in 0..(Capacity - 1) : c < Idx(tail) => mem'[c] = mem[c]
         /\ pl.pad > 0 => mem'[Idx(tail)] = PadWord(pl.pad)
<1>1. /\ mem \in [0..(Capacity - 1) -> [len : Int, st : {EMPTY, COMMITTED, opts.payload}]]
      /\ DOMAIN mem = 0..(Capacity - 1) /\ pl.pad \in Nat /\ Capacity \in Nat
      /\ Idx(tail) \in 0..(Capacity - 1)
  BY InUse, IdxIn DEF Inv, Basics, TypeInv
<1>2. mem' = IF pl.pad > 0 THEN WithPadding(tail, pl.pad) ELSE mem
  BY DEF PublishTail
<1>3. CASE pl.pad > 0
  <2>1. mem' = [c \in 0..(Capacity - 1) |->
                  IF c = Idx(tail) THEN PadWord(pl.pad)
                  ELSE IF c > Idx(tail) /\ c < Idx(tail) + HdrCells THEN ZeroWord
                  ELSE mem[c]]
    BY <1>1, <1>2, <1>3 DEF WithPadding
  <2>2. /\ PadWord(pl.pad) \in [len : Int, st : {EMPTY, COMMITTED, opts.payload}]
        /\ ZeroWord \in [len : Int, st : {EMPTY, COMMITTED, opts.payload}]
    BY <1>1 DEF PadWord, ZeroWord
  <2>3. mem' \in [0..(Capacity - 1) -> [len : Int, st : {EMPTY, COMMITTED, opts.payload}]]
    <3>1. ASSUME NEW c \in 0..(Capacity - 1)
          PROVE  (IF c = Idx(tail) THEN PadWord(pl.pad)
                  ELSE IF c > Idx(tail) /\ c < Idx(tail) + HdrCells THEN ZeroWord
                  ELSE mem[c]) \in [len : Int, st : {EMPTY, COMMITTED, opts.payload}]
      BY <1>1, <2>2
    <3> QED
      BY <2>1, <3>1
  <2>4. \A c \in 0..(Capacity - 1) : c < Idx(tail) => mem'[c] = mem[c]
    BY <1>1, <2>1
  <2>5. mem'[Idx(tail)] = PadWord(pl.pad)
    BY <1>1, <2>1
  <2> QED
    BY <1>3, <2>3, <2>4, <2>5
<1>4. CASE ~(pl.pad > 0)
  BY <1>1, <1>2, <1>4
<1> QED
  BY <1>3, <1>4

\* The histories and offsets after the publication.
LEMMA PublishedFrames ==
  ASSUME NEW at, Inv(at), PublishTail, NEW n, NEW x, NEW z, Reserved(n, x, z)
  PROVE  /\ UNCHANGED <<opts, head, depth, rpc, rl, out>>
         /\ ppc = "publish" /\ ppc' = "fill" /\ tail' = x + FrameTotal(z)
         /\ DOMAIN pl' = {"msg", "pad", "off", "todo"} /\ pl'.msg = pl.msg /\ pl'.pad = pl.pad
         /\ pl'.off = x /\ pl'.todo = {"length", "body", "status"}
         /\ Capacity' = Capacity /\ \A y : Idx(y)' = Idx(y)
         /\ sent' = Append(sent, pl.msg) /\ pl.msg \in AllMessages /\ sent' \in Seq(AllMessages)
         /\ Len(sent') = n + 1 /\ sent'[n + 1] = Message(n + 1, z)
         /\ \A i \in 1..n : sent'[i] = sent[i] /\ Total(i)' = Total(i)
         /\ Total(n + 1)' = FrameTotal(z)
         /\ Frames = 1..n /\ Frames' = 1..(n + 1)
         /\ Unread = Len(out) + 1 .. n /\ Unread' = Len(out) + 1 .. n + 1
         /\ Len(out) \in Nat /\ Len(out) <= n /\ n \in Nat
<1>1. TypeInv /\ MessageInv
  BY DEF Inv, Basics
<1>2. /\ UNCHANGED <<opts, head, depth, rpc, rl, out>>
      /\ ppc = "publish" /\ ppc' = "fill" /\ tail' = tail + pl.pad + FrameTotal(pl.msg.size)
      /\ pl' = [pl EXCEPT !.off = tail + pl.pad, !.todo = {"length", "body", "status"}]
      /\ sent' = Append(sent, pl.msg)
  BY DEF PublishTail, readVars
<1>3. /\ n = Len(sent) /\ n \in Nat /\ x = tail + pl.pad /\ z \in opts.sizes /\ z \in Nat
      /\ pl.msg = Message(n + 1, z) /\ n < opts.pushes
  BY DEF Reserved
<1>4. pl.msg.size = z
  BY <1>3 DEF Message
<1>5. tail' = x + FrameTotal(z)
  BY <1>2, <1>3, <1>4
<1>6. /\ DOMAIN pl' = {"msg", "pad", "off", "todo"} /\ pl'.msg = pl.msg /\ pl'.pad = pl.pad
      /\ pl'.off = x /\ pl'.todo = {"length", "body", "status"}
  BY <1>1, <1>2, <1>3 DEF TypeInv
<1>7. pl.msg \in AllMessages
  <2>1. opts \in Scenarios /\ opts.pushes \in 0..MaxMsgs /\ MaxMsgs \in Nat
    BY <1>1, InUse DEF TypeInv
  <2>2. n + 1 \in 1..MaxMsgs /\ z \in UNION {s.sizes : s \in Scenarios}
    BY <1>3, <2>1
  <2> QED
    BY <1>3, <2>2 DEF AllMessages
<1>8. sent \in Seq(AllMessages)
  BY <1>1 DEF MessageInv
<1>9. /\ sent' \in Seq(AllMessages) /\ Len(sent') = n + 1 /\ sent'[n + 1] = pl.msg
      /\ \A i \in 1..n : sent'[i] = sent[i]
  BY <1>2, <1>3, <1>7, <1>8
<1>10. Capacity' = Capacity /\ \A y : Idx(y)' = Idx(y)
  BY <1>2, IdxStays
<1>11. /\ \A i \in 1..n : Total(i)' = Total(i)
       /\ Total(n + 1)' = FrameTotal(z)
  <2>1. \A i \in 1..n : Total(i)' = Total(i)
    BY <1>9 DEF Total
  <2>2. Total(n + 1)' = FrameTotal(z)
    <3>1. PICK m : m = n + 1
      OBVIOUS
    <3>2. Total(m)' = FrameTotal(sent'[m].size)
      BY DEF Total, FrameTotal
    <3> QED
      BY <1>4, <1>9, <3>1, <3>2
  <2> QED
    BY <2>1, <2>2
<1>12. /\ Frames = 1..n /\ Frames' = 1..(n + 1)
       /\ Unread = Len(out) + 1 .. n /\ Unread' = Len(out) + 1 .. n + 1
  BY <1>2, <1>3, <1>9 DEF Frames, Unread
<1>13. Len(out) \in Nat /\ Len(out) <= n
  BY <1>1, <1>3, Lengths
<1> QED
  BY <1>2, <1>3, <1>5, <1>6, <1>7, <1>9, <1>10, <1>11, <1>12, <1>13

\* The new frame follows the others.
LEMMA PublishPlaces ==
  ASSUME NEW at, Inv(at), PublishTail, NEW n, NEW x, NEW z, Reserved(n, x, z),
         NEW new, new = Extended(at, n, x)
  PROVE  Places(new)'
<1>1. TypeInv /\ MessageInv /\ Places(at) /\ head \in Nat /\ tail \in Nat /\ Capacity \in Nat
  BY InUse DEF Inv, Basics, Layout, TypeInv
<1>2. /\ UNCHANGED <<opts, head, out>> /\ tail' = x + FrameTotal(z)
      /\ Capacity' = Capacity /\ \A y : Idx(y)' = Idx(y)
      /\ Len(sent') = n + 1 /\ \A i \in 1..n : Total(i)' = Total(i)
      /\ Total(n + 1)' = FrameTotal(z) /\ Frames = 1..n /\ Frames' = 1..(n + 1)
      /\ Len(out) \in Nat /\ Len(out) <= n /\ n \in Nat
  BY PublishedFrames
<1>3. /\ n = Len(sent) /\ x \in Nat /\ FrameTotal(z) \in Nat
      /\ Idx(x) + FrameTotal(z) <= Capacity /\ x + FrameTotal(z) <= head + Capacity
      /\ \/ x = tail
         \/ x = tail + (Capacity - Idx(tail)) /\ Idx(tail) + FrameTotal(z) > Capacity
      /\ x >= tail
  <2>1. /\ n = Len(sent) /\ x \in Nat /\ FrameTotal(z) \in Nat
        /\ Idx(x) + FrameTotal(z) <= Capacity /\ x + FrameTotal(z) <= head + Capacity
        /\ x = tail + pl.pad
        /\ \/ pl.pad = 0 /\ x = tail
           \/ /\ pl.pad = Capacity - Idx(tail) /\ pl.pad > 0
              /\ Idx(tail) + FrameTotal(z) > Capacity
    BY DEF Reserved
  <2>2. Idx(tail) \in 0..(Capacity - 1)
    BY <1>1, IdxIn
  <2> QED
    BY <1>1, <2>1, <2>2
<1>4. /\ DOMAIN new = 1..(n + 1) /\ new[n + 1] = x /\ \A i \in 1..n : new[i] = at[i]
  BY <1>2 DEF Extended
<1>5. /\ \A i \in 1..n : at[i] \in Nat /\ Total(i) \in Nat /\ Idx(at[i]) + Total(i) <= Capacity
      /\ \A i, j \in 1..n : i < j => at[i] + Total(i) <= at[j]
      /\ tail = EndOf(at, n)
  BY <1>1, <1>2, <1>3, TotalIn DEF Places
<1>6. /\ \A i \in 0..n : EndOf(new, i)' = EndOf(at, i)
      /\ EndOf(new, n + 1)' = x + FrameTotal(z)
  <2>1. \A i \in 0..n : EndOf(new, i)' = EndOf(at, i)
    <3> SUFFICES ASSUME NEW i \in 0..n PROVE EndOf(new, i)' = EndOf(at, i)
      OBVIOUS
    <3>1. CASE i = 0
      BY <3>1 DEF EndOf
    <3>2. CASE i # 0
      <4>1. i \in 1..n
        BY <1>2, <3>2
      <4> QED
        BY <1>2, <1>4, <3>2, <4>1 DEF EndOf
    <3> QED
      BY <3>1, <3>2
  <2>2. PICK m : m = n + 1
    OBVIOUS
  <2>3. EndOf(new, m)' = new[m] + Total(m)'
    BY <1>2, <2>2 DEF EndOf
  <2>4. EndOf(new, n + 1)' = x + FrameTotal(z)
    BY <1>2, <1>4, <2>2, <2>3
  <2> QED
    BY <2>1, <2>4
<1>7. (new \in [Frames -> Nat])'
  <2>1. new = [i \in 1..(n + 1) |-> IF i = n + 1 THEN x ELSE at[i]]
    BY DEF Extended
  <2>2. \A i \in 1..(n + 1) : (IF i = n + 1 THEN x ELSE at[i]) \in Nat
    BY <1>2, <1>3, <1>5
  <2>3. new \in [1..(n + 1) -> Nat]
    BY <2>1, <2>2
  <2> QED
    BY <1>2, <2>3
<1>8. (\A i \in Frames : Idx(new[i]) + Total(i) <= Capacity)'
  <2> SUFFICES ASSUME NEW i \in 1..(n + 1) PROVE Idx(new[i]) + Total(i)' <= Capacity
    BY <1>2
  <2>1. CASE i = n + 1
    BY <1>2, <1>3, <1>4, <2>1
  <2>2. CASE i # n + 1
    <3>1. i \in 1..n
      BY <1>2, <2>2
    <3> QED
      BY <1>2, <1>4, <1>5, <3>1
  <2> QED
    BY <2>1, <2>2
<1>9. (\A i \in 0..(Len(sent) - 1) :
         \/ new[i + 1] = EndOf(new, i)
         \/ /\ new[i + 1] = EndOf(new, i) + (Capacity - Idx(EndOf(new, i)))
            /\ Idx(EndOf(new, i)) + Total(i + 1) > Capacity)'
  <2> SUFFICES ASSUME NEW i \in 0..n
               PROVE  \/ new[i + 1] = EndOf(at, i)
                      \/ /\ new[i + 1] = EndOf(at, i) + (Capacity - Idx(EndOf(at, i)))
                         /\ Idx(EndOf(at, i)) + Total(i + 1)' > Capacity
    <3>1. 0..(Len(sent') - 1) = 0..n
      BY <1>2
    <3> QED
      BY <1>2, <1>6, <3>1
  <2>1. CASE i = n
    <3>1. Total(i + 1)' = FrameTotal(z)
      BY <1>2, <2>1
    <3>2. new[i + 1] = x /\ EndOf(at, i) = tail
      BY <1>4, <1>5, <2>1
    <3> QED
      BY <1>3, <3>1, <3>2
  <2>2. CASE i # n
    <3>1. i \in 0..(Len(sent) - 1) /\ i + 1 \in 1..n
      BY <1>2, <1>3, <2>2
    <3>2. PICK j \in 1..n : j = i + 1
      BY <3>1
    <3>3. Total(i + 1)' = Total(i + 1) /\ new[i + 1] = at[i + 1]
      <4>1. Total(j)' = Total(j) /\ new[j] = at[j]
        BY <1>2, <1>4
      <4> QED
        BY <3>2, <4>1
    <3>4. \/ at[i + 1] = EndOf(at, i)
          \/ /\ at[i + 1] = EndOf(at, i) + (Capacity - Idx(EndOf(at, i)))
             /\ Idx(EndOf(at, i)) + Total(i + 1) > Capacity
      BY <1>1, <3>1 DEF Places
    <3> QED
      BY <3>3, <3>4
  <2> QED
    BY <2>1, <2>2
<1>10. (\A i, j \in Frames : i < j => new[i] + Total(i) <= new[j])'
  <2> SUFFICES ASSUME NEW i \in 1..(n + 1), NEW j \in 1..(n + 1), i < j
               PROVE  new[i] + Total(i)' <= new[j]
    BY <1>2
  <2>1. i \in 1..n /\ new[i] = at[i] /\ Total(i)' = Total(i)
    BY <1>2, <1>4
  <2>2. CASE j = n + 1
    <3>1. at[i] + Total(i) <= tail
      <4>1. n \in 1..n /\ tail = at[n] + Total(n)
        BY <1>2, <1>5, <2>1 DEF EndOf
      <4>2. i < n => at[i] + Total(i) <= at[n]
        BY <1>5, <2>1, <4>1
      <4> QED
        BY <1>5, <2>1, <4>1, <4>2
    <3> QED
      BY <1>1, <1>3, <1>4, <1>5, <2>1, <2>2, <3>1
  <2>3. CASE j # n + 1
    <3>1. j \in 1..n /\ new[j] = at[j]
      BY <1>2, <1>4, <2>3
    <3> QED
      BY <1>5, <2>1, <3>1
  <2> QED
    BY <2>2, <2>3
<1>11. (tail = EndOf(new, Len(sent)))'
  <2>1. EndOf(new, Len(sent))' = EndOf(new, n + 1)'
    BY <1>2
  <2> QED
    BY <1>2, <1>6, <2>1
<1>12. (head = EndOf(new, Len(out)) \/ (Len(out) < Len(sent) /\ head = new[Len(out) + 1]))'
  <2>1. head = EndOf(at, Len(out)) \/ (Len(out) < n /\ head = at[Len(out) + 1])
    BY <1>1, <1>3 DEF Places
  <2>2. EndOf(new, Len(out))' = EndOf(at, Len(out))
    <3>1. PICK k : k = Len(out)
      OBVIOUS
    <3>2. EndOf(new, k)' = EndOf(at, k)
      BY <1>2, <1>6, <3>1
    <3>3. Len(out)' = k
      BY <1>2, <3>1
    <3> QED
      BY <3>1, <3>2, <3>3
  <2>3. Len(out) < n => new[Len(out) + 1] = at[Len(out) + 1]
    BY <1>2, <1>4
  <2> QED
    BY <1>2, <2>1, <2>2, <2>3
<1>13. (head <= tail /\ tail <= head + Capacity)'
  <2>1. head <= tail
    BY <1>1 DEF Places
  <2>2. head <= x + FrameTotal(z) /\ x + FrameTotal(z) <= head + Capacity
    BY <1>1, <1>3, <2>1
  <2> QED
    BY <1>2, <2>2
<1> QED
  BY <1>7, <1>8, <1>9, <1>10, <1>11, <1>12, <1>13 DEF Places

\* The distances, with the new frame's.
LEMMA PublishDistances ==
  ASSUME NEW at, Inv(at), PublishTail, NEW n, NEW x, NEW z, Reserved(n, x, z),
         NEW new, new = Extended(at, n, x)
  PROVE  Apart(new)' /\ Multiples(new)'
<1>1. /\ TypeInv /\ MessageInv /\ Places(at) /\ Apart(at) /\ Multiples(at)
      /\ tail \in Nat /\ Capacity \in Nat \ {0}
  BY InUse DEF Inv, Basics, Layout, TypeInv
<1>2. /\ opts' = opts /\ tail' = x + FrameTotal(z)
      /\ Capacity' = Capacity /\ \A y : Idx(y)' = Idx(y)
      /\ Frames = 1..n /\ Frames' = 1..(n + 1) /\ n \in Nat
  BY PublishedFrames
<1>3. /\ n = Len(sent) /\ x \in Nat /\ FrameTotal(z) \in Nat /\ FrameTotal(z) >= 2
      /\ FrameTotal(z) <= Capacity /\ z \in opts.sizes /\ Idx(x) + FrameTotal(z) <= Capacity
      /\ x = tail \/ (Idx(x) = 0 /\ x = tail + pl.pad /\ pl.pad > 0)
  BY DEF Reserved
<1>4. x >= tail
  BY <1>1, <1>3 DEF TypeInv
<1>5. /\ new[n + 1] = x /\ \A i \in 1..n : new[i] = at[i]
  BY <1>2 DEF Extended
<1>6. /\ \A i \in 1..n : at[i] \in Nat /\ Total(i) \in Nat /\ sent[i].size \in opts.sizes
      /\ n # 0 => tail = at[n] + Total(n)
  BY <1>1, <1>2, <1>3, TotalIn DEF Places, EndOf
<1> DEFINE M == FrameTotal(Min(opts.sizes))
<1>7. M \in Nat /\ \A i \in 1..n : M <= Total(i)
  <2>1. M \in Nat
    BY <1>1, <1>3, SmallestFrame
  <2>2. ASSUME NEW i \in 1..n PROVE M <= Total(i)
    BY <1>1, <1>6, SmallestFrame DEF Total
  <2> QED
    BY <2>1, <2>2
<1>8. M' = M
  BY <1>2 DEF FrameTotal
<1> HIDE DEF M
<1>9. ASSUME NEW i \in 1..(n + 1), NEW j \in 1..(n + 1), i < j
      PROVE  new[i] + (j - i) * M <= new[j]
  <2>1. i \in 1..n /\ new[i] = at[i]
    BY <1>2, <1>5, <1>9
  <2>2. CASE j = n + 1
    <3>1. at[i] + (n - i) * M <= at[n] /\ n \in 1..n
      <4>1. n \in 1..n
        BY <1>2, <2>1
      <4>2. CASE i = n
        <5>1. (n - i) * M = 0
          BY <1>2, <1>7, <4>2
        <5> QED
          BY <1>6, <4>1, <4>2, <5>1
      <4>3. CASE i < n
        BY <1>1, <1>2, <2>1, <4>1, <4>3 DEF Apart, M
      <4> QED
        BY <1>2, <2>1, <4>1, <4>2, <4>3
    <3>2. (j - i) * M = (n - i) * M + M /\ (n - i) * M \in Int
      BY <1>2, <1>7, <2>1, <2>2
    <3>3. at[n] + M <= x
      <4>1. tail = at[n] + Total(n) /\ at[n] \in Nat /\ Total(n) \in Nat
        BY <1>2, <1>6, <3>1
      <4>2. M <= Total(n) /\ M \in Nat
        BY <1>7, <3>1
      <4>3. x \in Nat
        BY <1>3
      <4> QED
        BY <1>4, <4>1, <4>2, <4>3
    <3>4. at[i] \in Nat /\ at[n] \in Nat
      BY <1>6, <2>1, <3>1
    <3> QED
      BY <1>3, <1>5, <1>7, <2>1, <2>2, <3>1, <3>2, <3>3, <3>4, SMTT(40)
  <2>3. CASE j # n + 1
    <3>1. j \in 1..n /\ new[j] = at[j]
      BY <1>2, <1>5, <2>3
    <3> QED
      BY <1>1, <1>2, <1>9, <2>1, <3>1 DEF Apart, M
  <2> QED
    BY <2>2, <2>3
<1>10. Apart(new)'
  BY <1>2, <1>8, <1>9 DEF Apart, M
<1>11. ASSUME NEW g \in 1..Capacity, \A y \in opts.sizes : (FrameTotal(y) % g) = 0
       PROVE  /\ (Idx(x + FrameTotal(z)) % g) = 0
              /\ \A i \in 1..(n + 1) : (Idx(new[i]) % g) = 0
  <2>1. (Idx(tail) % g) = 0 /\ \A i \in 1..n : (Idx(at[i]) % g) = 0
    BY <1>1, <1>2, <1>11 DEF Multiples
  <2>2. (Idx(x) % g) = 0
    <3>1. (0 % g) = 0
      <4>1. g \in Nat \ {0} /\ 0 \in Int /\ 0 \in 0..(g - 1) /\ g * 0 + 0 = 0
        BY <1>1
      <4>2. ((g * 0 + 0) % g) = 0
        BY <4>1, RemainderUnique
      <4> QED
        BY <4>1, <4>2
    <3> QED
      BY <1>3, <2>1, <3>1
  <2>3. Idx(x) \in Nat /\ g \in Nat \ {0} /\ (FrameTotal(z) % g) = 0
    <3>1. Idx(x) \in 0..(Capacity - 1)
      BY <1>1, <1>3, IdxIn
    <3> QED
      BY <1>1, <1>3, <1>11, <3>1
  <2>4. ((Idx(x) + FrameTotal(z)) % g) = 0
    BY <1>3, <2>2, <2>3, Multiple
  <2>5. Idx(x + FrameTotal(z)) = IF Idx(x) + FrameTotal(z) = Capacity THEN 0 ELSE Idx(x) + FrameTotal(z)
    BY <1>1, <1>3, IdxBehind
  <2>6. (0 % g) = 0
    <3>1. 0 \in Int /\ 0 \in 0..(g - 1) /\ g * 0 + 0 = 0
      BY <2>3
    <3>2. ((g * 0 + 0) % g) = 0
      BY <2>3, <3>1, RemainderUnique
    <3> QED
      BY <3>1, <3>2
  <2>7. (Idx(x + FrameTotal(z)) % g) = 0
    BY <2>4, <2>5, <2>6
  <2>8. ASSUME NEW i \in 1..(n + 1) PROVE (Idx(new[i]) % g) = 0
    <3>1. CASE i = n + 1
      BY <1>5, <2>2, <3>1
    <3>2. CASE i # n + 1
      <4>1. i \in 1..n
        BY <1>2, <3>2
      <4> QED
        BY <1>5, <2>1, <4>1
    <3> QED
      BY <3>1, <3>2
  <2> QED
    BY <2>7, <2>8
<1>12. Multiples(new)'
  <2> SUFFICES ASSUME NEW g \in 1..Capacity, \A y \in opts.sizes : (FrameTotal(y) % g) = 0
               PROVE  /\ (Idx(x + FrameTotal(z)) % g) = 0
                      /\ \A i \in 1..(n + 1) : (Idx(new[i]) % g) = 0
    BY <1>2 DEF Multiples, FrameTotal
  <2> QED
    BY <1>11
<1> QED
  BY <1>10, <1>12

\* No unread frame and no padding has a cell that the publication writes.
LEMMA PublishKeeps ==
  ASSUME NEW at, Inv(at), PublishTail, NEW n, NEW x, NEW z, Reserved(n, x, z)
  PROVE  /\ \A i \in Unread : /\ Kept(at[i], Total(i))
                              /\ HasLength(at, i)' <=> HasLength(at, i)
                              /\ HasBody(at, i)' <=> HasBody(at, i)
                              /\ mem'[Idx(at[i])] = mem[Idx(at[i])]
                              /\ Idx(at[i]) # Idx(x)
         /\ \A i \in Len(out)..(n - 1) : head <= EndOf(at, i) /\ Padded(at, i) =>
              mem'[Idx(EndOf(at, i))] = mem[Idx(EndOf(at, i))]
<1>1. /\ TypeInv /\ MessageInv /\ Places(at)
      /\ head \in Nat /\ tail \in Nat /\ Capacity \in Nat
  BY InUse DEF Inv, Basics, Layout, TypeInv
<1>2. /\ opts' = opts /\ Frames = 1..n /\ Unread = Len(out) + 1 .. n
      /\ \A i \in 1..n : sent'[i] = sent[i]
      /\ Len(out) \in Nat /\ n \in Nat
  BY PublishedFrames
<1>3. /\ pl.pad = 0 => mem' = mem
      /\ \A c \in 0..(Capacity - 1) : c < Idx(tail) => mem'[c] = mem[c]
  BY PublishedCells
<1>4. /\ n = Len(sent) /\ x \in Nat /\ FrameTotal(z) \in Nat /\ FrameTotal(z) >= 2 /\ x = tail + pl.pad
      /\ Idx(x) + FrameTotal(z) <= Capacity /\ x + FrameTotal(z) <= head + Capacity
      /\ pl.pad = 0 \/ (pl.pad = Capacity - Idx(tail) /\ pl.pad > 0)
      /\ pl.pad \in Nat
  BY <1>1 DEF Reserved, TypeInv
<1>5. Idx(tail) \in 0..(Capacity - 1)
  BY <1>1, IdxIn
<1> DEFINE T == FrameTotal(z)
<1>8. tail <= x /\ x \in Nat /\ T \in Nat /\ T >= 2 /\ x + T <= head + Capacity
  BY <1>1, <1>4
<1>9. pl.pad # 0 => tail + (Capacity - Idx(tail)) <= head + Capacity
  <2>1. pl.pad # 0 => x = tail + (Capacity - Idx(tail))
    BY <1>4
  <2> HIDE DEF T
  <2> QED
    BY <1>1, <1>5, <1>8, <2>1
<1> HIDE DEF T
<1>6. ASSUME NEW i \in Unread
      PROVE  /\ Kept(at[i], Total(i))
             /\ HasLength(at, i)' <=> HasLength(at, i)
             /\ HasBody(at, i)' <=> HasBody(at, i)
             /\ mem'[Idx(at[i])] = mem[Idx(at[i])]
             /\ Idx(at[i]) # Idx(x)
  <2>1. /\ i \in Frames /\ at[i] \in Nat /\ Total(i) \in Nat /\ Total(i) >= 2
        /\ head <= at[i] /\ at[i] + Total(i) <= tail /\ Idx(at[i]) + Total(i) <= Capacity
        /\ Idx(at[i]) \in 0..(Capacity - 1)
    BY <1>1, Window, TotalIn
  <2>2. Kept(at[i], Total(i))
    <3> SUFFICES ASSUME NEW d \in 0..(Total(i) - 1) PROVE mem'[Idx(at[i]) + d] = mem[Idx(at[i]) + d]
      BY DEF Kept
    <3>1. CASE pl.pad = 0
      BY <1>3, <3>1
    <3>2. CASE pl.pad # 0
      <4>1. tail + (Capacity - Idx(tail)) <= at[i] + Capacity
        <5>1. tail + (Capacity - Idx(tail)) <= head + Capacity
          BY <1>9, <3>2
        <5> QED
          BY <1>1, <1>5, <2>1, <5>1
      <4>2. Idx(at[i]) + d < Idx(tail) /\ Idx(at[i]) + d \in 0..(Capacity - 1)
        BY <1>1, <2>1, <4>1, BeforeTail
      <4> QED
        BY <1>3, <4>2
    <3> QED
      BY <3>1, <3>2
  <2>3. sent'[i] = sent[i]
    BY <1>2
  <2>4. /\ HasLength(at, i)' <=> HasLength(at, i)
        /\ HasBody(at, i)' <=> HasBody(at, i)
        /\ mem'[Idx(at[i])] = mem[Idx(at[i])]
    BY <1>1, <1>2, <2>1, <2>2, <2>3, KeptFrame
  <2>5. Idx(at[i]) # Idx(x)
    <3>1. at[i] + Total(i) <= x /\ x + T <= at[i] + Capacity
      BY <1>1, <1>8, <2>1
    <3>2. 0 \in 0..(Total(i) - 1) /\ 0 \in 0..(T - 1)
      BY <1>8, <2>1
    <3>3. Idx(x) \in 0..(Capacity - 1)
      BY <1>1, <1>8, IdxIn
    <3>4. Idx(x) + T <= Capacity
      BY <1>4 DEF T
    <3>5. Idx(at[i]) + 0 # Idx(x) + 0
      BY <1>1, <1>8, <2>1, <3>1, <3>2, <3>4, Clash
    <3> QED
      BY <1>1, <2>1, <3>3, <3>5
  <2> QED
    BY <2>2, <2>4, <2>5
<1>7. ASSUME NEW i \in Len(out)..(n - 1), head <= EndOf(at, i), Padded(at, i)
      PROVE  mem'[Idx(EndOf(at, i))] = mem[Idx(EndOf(at, i))]
  <2> DEFINE y == EndOf(at, i)
  <2>1. /\ y \in Nat /\ Idx(y) \in 0..(Capacity - 1) /\ y < at[i + 1] /\ at[i + 1] < tail
        /\ at[i + 1] = y + (Capacity - Idx(y)) /\ head <= y
    BY <1>1, <1>4, <1>7, PadWindow
  <2> HIDE DEF y
  <2>2. y + 1 <= tail /\ Idx(y) + 1 <= Capacity
    BY <1>1, <2>1
  <2>3. CASE pl.pad = 0
    BY <1>3, <2>3
  <2>4. CASE pl.pad # 0
    <3>1. tail + (Capacity - Idx(tail)) <= y + Capacity
      <4>1. tail + (Capacity - Idx(tail)) <= head + Capacity
        BY <1>9, <2>4
      <4> QED
        BY <1>1, <1>5, <2>1, <4>1, SMTT(40)
    <3>2. Idx(y) + 0 < Idx(tail)
      <4>1. 0 \in 0..(1 - 1) /\ 1 \in Nat
        OBVIOUS
      <4> QED
        BY <1>1, <2>1, <2>2, <3>1, <4>1, BeforeTail
    <3>3. Idx(y) < Idx(tail)
      BY <1>1, <2>1, <3>2
    <3> QED
      BY <1>3, <2>1, <3>3 DEF y
  <2> QED
    BY <2>3, <2>4
<1> QED
  BY <1>6, <1>7

LEMMA PublishTailInv ==
  ASSUME NEW at, Inv(at), PublishTail PROVE \E new : Inv(new)'
<1> USE DEF Inv, Basics
<1>1. PICK n : n = Len(sent)
  OBVIOUS
<1>2. PICK x : x = tail + pl.pad
  OBVIOUS
<1>3. PICK z : Reserved(n, x, z)
  BY <1>1, <1>2, ReservedFact DEF PublishTail
<1>4. PICK new : new = Extended(at, n, x)
  OBVIOUS
<1>5. /\ TypeInv /\ MessageInv /\ PcInv /\ DepthInv /\ Layout(at) /\ Places(at)
      /\ head \in Nat /\ tail \in Nat /\ Capacity \in Nat
  BY InUse DEF Layout, TypeInv
<1>6. /\ UNCHANGED <<opts, head, depth, rpc, rl, out>>
      /\ ppc = "publish" /\ ppc' = "fill" /\ tail' = x + FrameTotal(z)
      /\ DOMAIN pl' = {"msg", "pad", "off", "todo"} /\ pl'.msg = pl.msg /\ pl'.pad = pl.pad
      /\ pl'.off = x /\ pl'.todo = {"length", "body", "status"}
      /\ Capacity' = Capacity /\ \A y : Idx(y)' = Idx(y)
      /\ pl.msg \in AllMessages /\ sent' \in Seq(AllMessages)
      /\ Len(sent') = n + 1 /\ sent'[n + 1] = Message(n + 1, z)
      /\ \A i \in 1..n : sent'[i] = sent[i] /\ Total(i)' = Total(i)
      /\ Total(n + 1)' = FrameTotal(z)
      /\ Frames = 1..n /\ Frames' = 1..(n + 1)
      /\ Unread = Len(out) + 1 .. n /\ Unread' = Len(out) + 1 .. n + 1
      /\ Len(out) \in Nat /\ Len(out) <= n /\ n \in Nat
  BY <1>3, PublishedFrames
<1>7. /\ z \in opts.sizes /\ z \in Nat /\ pl.msg = Message(n + 1, z) /\ n < opts.pushes
      /\ FrameTotal(z) \in Nat /\ FrameTotal(z) >= 2 /\ FrameTotal(z) <= Capacity
      /\ Idx(x) + FrameTotal(z) <= Capacity /\ x \in Nat
      /\ \/ pl.pad = 0 /\ x = tail
         \/ /\ pl.pad = Capacity - Idx(tail) /\ pl.pad > 0 /\ Idx(x) = 0
            /\ Idx(tail) + FrameTotal(z) > Capacity
  BY <1>3 DEF Reserved
<1>8. /\ mem' \in [0..(Capacity - 1) -> [len : Int, st : {EMPTY, COMMITTED, opts.payload}]]
      /\ pl.pad = 0 => mem' = mem
      /\ \A c \in 0..(Capacity - 1) : c < Idx(tail) => mem'[c] = mem[c]
      /\ pl.pad > 0 => mem'[Idx(tail)] = PadWord(pl.pad)
  BY PublishedCells
<1>9. /\ \A i \in Unread : /\ HasLength(at, i)' <=> HasLength(at, i)
                           /\ HasBody(at, i)' <=> HasBody(at, i)
                           /\ mem'[Idx(at[i])] = mem[Idx(at[i])]
                           /\ Idx(at[i]) # Idx(x)
      /\ \A i \in Len(out)..(n - 1) : head <= EndOf(at, i) /\ Padded(at, i) =>
           mem'[Idx(EndOf(at, i))] = mem[Idx(EndOf(at, i))]
  BY <1>3, PublishKeeps
<1>10. /\ new[n + 1] = x /\ \A i \in 1..n : new[i] = at[i]
  BY <1>4, <1>6 DEF Extended
<1>11. Places(new)' /\ Apart(new)' /\ Multiples(new)'
  BY <1>3, <1>4, PublishPlaces, PublishDistances
<1>12. TypeInv'
  <2>1. pl.pad \in Nat /\ x + FrameTotal(z) \in Nat
    BY <1>5, <1>7, SMTT(40) DEF TypeInv
  <2> QED
    BY <1>5, <1>6, <1>7, <1>8, <2>1 DEF TypeInv
<1>13. MessageInv'
  <2>1. Len(sent') <= opts.pushes /\ Len(out) <= Len(sent')
    <3>1. opts.pushes \in Nat
      BY <1>5, InUse
    <3> QED
      BY <1>6, <1>7, <3>1
  <2>2. ASSUME NEW i \in 1..(n + 1)
        PROVE  /\ sent'[i].size \in opts.sizes /\ Total(i)' <= Capacity
               /\ sent'[i] = Message(i, sent'[i].size)
    <3>1. CASE i = n + 1
      <4>1. sent'[i].size = z
        BY <1>6, <3>1 DEF Message
      <4>2. Total(i)' = FrameTotal(z)
        BY <4>1 DEF Total, FrameTotal
      <4> QED
        BY <1>6, <1>7, <3>1, <4>1, <4>2
    <3>2. CASE i # n + 1
      <4>1. i \in 1..n
        BY <1>6, <3>2
      <4> QED
        BY <1>5, <1>6, <4>1 DEF MessageInv
    <3> QED
      BY <3>1, <3>2
  <2>3. \A i \in 1..Len(out) : out[i] = sent'[i]
    <3>1. \A i \in 1..Len(out) : i \in 1..n
      BY <1>6
    <3> QED
      BY <1>5, <1>6, <3>1 DEF MessageInv
  <2>4. out \in Seq(AllMessages)
    BY <1>5 DEF MessageInv
  <2> QED
    BY <1>6, <2>1, <2>2, <2>3, <2>4 DEF MessageInv, Message
<1>14. PcInv'
  <2>1. rpc["prod"] = "idle"
    BY <1>5, <1>6 DEF PcInv
  <2> QED
    BY <1>5, <1>6, <2>1 DEF PcInv
<1>15. DepthInv'
  <2>1. depth = Len(sent) - Len(out) - One(ppc \in {"fill", "count"})
                  + One(rpc["cons"] = "count") + One(rpc["prod"] = "count")
    BY <1>5 DEF DepthInv
  <2>2. /\ One(ppc \in {"fill", "count"}) = 0 /\ One(ppc' \in {"fill", "count"}) = 1
        /\ One(rpc["cons"] = "count") \in Int /\ One(rpc["prod"] = "count") \in Int
    BY <1>6 DEF One
  <2> QED
    BY <1>1, <1>6, <2>1, <2>2 DEF DepthInv
<1>16. \A i \in 1..n : /\ HasLength(new, i)' <=> HasLength(at, i)'
                       /\ HasBody(new, i)' <=> HasBody(at, i)'
  BY <1>10 DEF HasLength, HasBody
<1>17. FramesInv(new)'
  <2> SUFFICES ASSUME NEW i \in Unread', Written(i)'
               PROVE  /\ HasLength(new, i)' /\ HasBody(new, i)'
                      /\ mem'[Idx(new[i])].st = COMMITTED \/ (i = Len(out) + 1 /\ Advancing')
    BY <1>6 DEF FramesInv
  <2>1. i \in Unread /\ i \in 1..n
    BY <1>6 DEF Written
  <2>2. Written(i)
    BY <1>6 DEF Written
  <2>3. /\ HasLength(at, i) /\ HasBody(at, i)
        /\ mem[Idx(at[i])].st = COMMITTED \/ (i = Len(out) + 1 /\ Advancing)
    BY <1>5, <2>1, <2>2 DEF Layout, FramesInv
  <2>4. Advancing' <=> Advancing
    BY <1>6 DEF Advancing
  <2> QED
    BY <1>9, <1>10, <1>16, <2>1, <2>3, <2>4
<1>18. ~opts.one_thread => mem'[Idx(x)].st = EMPTY
  <2> SUFFICES ASSUME ~opts.one_thread PROVE mem'[Idx(x)].st = EMPTY
    OBVIOUS
  <2> DEFINE T == FrameTotal(z)
             c == Idx(x)
  <2>1. c \in 0..(Capacity - 1) /\ c \in 0..(Capacity - T)
    <3>1. c \in 0..(Capacity - 1)
      BY <1>5, <1>7, IdxIn
    <3> QED
      BY <1>5, <1>7, <3>1
  <2>2. \A y \in opts.sizes : FrameTotal(y) = T
    BY <1>5, <1>7 DEF TypeInv, Sound
  <2>3. (c % T) = 0
    <3>1. T \in 1..Capacity /\ T \in Nat \ {0}
      BY <1>5, <1>7
    <3>2. 0 \in Int /\ 0 \in 0..(T - 1) /\ T * 0 + 0 = 0 /\ 1 \in Int /\ T * 1 + 0 = T
      BY <3>1
    <3>3. ((T * 0 + 0) % T) = 0 /\ ((T * 1 + 0) % T) = 0
      BY <3>1, <3>2, RemainderUnique
    <3>4. (0 % T) = 0 /\ (T % T) = 0
      BY <3>2, <3>3
    <3>5. \A y \in opts.sizes : (FrameTotal(y) % T) = 0
      BY <2>2, <3>4
    <3>6. (Idx(tail) % T) = 0
      BY <1>5, <3>1, <3>5 DEF Layout, Multiples
    <3> QED
      BY <1>7, <3>4, <3>6
  <2>4. \A i \in Unread : Idx(at[i]) # c
    BY <1>9
  <2>5. mem[c].st = EMPTY
    BY <1>5, <1>7, <2>1, <2>3, <2>4 DEF Layout, SlotsInv
  <2>6. pl.pad = 0 \/ c < Idx(tail)
    <3>1. Idx(tail) \in 0..(Capacity - 1)
      BY <1>5, IdxIn
    <3> QED
      BY <1>5, <1>7, <3>1
  <2> QED
    BY <1>8, <2>1, <2>5, <2>6
<1>19. FillInv(new)'
  <2>1. Len(out) < n + 1 /\ pl'.msg = sent'[n + 1] /\ pl'.off = new[n + 1]
    BY <1>6, <1>7, <1>10
  <2>2. ~opts.one_thread => mem'[Idx(new[n + 1])].st = EMPTY
    BY <1>10, <1>18
  <2> QED
    BY <1>6, <2>1, <2>2 DEF FillInv
<1>20. \A i \in 0..n : EndOf(new, i)' = EndOf(at, i)
  <2> SUFFICES ASSUME NEW i \in 0..n PROVE EndOf(new, i)' = EndOf(at, i)
    OBVIOUS
  <2>1. i # 0 => i \in 1..n
    BY <1>6
  <2> QED
    BY <1>6, <1>10, <2>1 DEF EndOf
<1>21. tail = EndOf(at, n)
  BY <1>1, <1>5 DEF Places
<1>22. PadsInv(new)'
  <2> SUFFICES ASSUME NEW i \in Len(out)..n, head <= EndOf(new, i)', Padded(new, i)'
               PROVE  mem'[Idx(EndOf(new, i)')] = PadWord(Capacity - Idx(EndOf(new, i)'))
    <3>1. Len(out)..(Len(sent') - 1) = Len(out)..n
      BY <1>6
    <3> QED
      BY <1>6, <3>1 DEF PadsInv, PadWord
  <2>1. EndOf(new, i)' = EndOf(at, i)
    BY <1>6, <1>20
  <2>2. CASE i = n
    <3>1. x # tail
      BY <1>10, <1>21, <2>1, <2>2 DEF Padded
    <3> QED
      BY <1>7, <1>8, <1>21, <2>1, <2>2, <3>1
  <2>3. CASE i # n
    <3>1. i \in Len(out)..(n - 1) /\ i + 1 \in 1..n
      BY <1>6, <2>3
    <3>2. Padded(at, i)
      BY <1>10, <2>1, <3>1 DEF Padded
    <3>3. mem[Idx(EndOf(at, i))] = PadWord(Capacity - Idx(EndOf(at, i)))
      BY <1>1, <1>5, <2>1, <3>1, <3>2 DEF Layout, PadsInv
    <3> QED
      BY <1>9, <2>1, <3>1, <3>2, <3>3
  <2> QED
    BY <2>2, <2>3
<1>23. SlotsInv(new)'
  <2> SUFFICES ASSUME ~opts.one_thread, NEW y \in opts.sizes, NEW c \in 0..(Capacity - FrameTotal(y)),
                      (c % FrameTotal(y)) = 0, \A i \in Unread' : Idx(new[i]) # c
               PROVE  mem'[c].st = EMPTY
    BY <1>6 DEF SlotsInv, FrameTotal
  <2>1. \A i \in Unread : Idx(at[i]) # c
    <3>1. \A i \in Unread : i \in Unread' /\ i \in 1..n
      BY <1>6
    <3> QED
      BY <1>10, <3>1
  <2>2. mem[c].st = EMPTY
    BY <1>5, <2>1 DEF Layout, SlotsInv
  <2>3. FrameTotal(y) = FrameTotal(z)
    BY <1>5, <1>7 DEF TypeInv, Sound
  <2>4. c \in 0..(Capacity - 1) /\ (pl.pad = 0 \/ c < Idx(tail))
    <3>1. Idx(tail) \in 0..(Capacity - 1)
      BY <1>5, IdxIn
    <3> QED
      BY <1>5, <1>7, <2>3, <3>1
  <2> QED
    BY <1>8, <2>2, <2>4
<1>24. ReaderInv(new)'
  <2> SUFFICES ASSUME NEW p \in Readers PROVE ReaderOK(new, p)'
    BY DEF ReaderInv
  <2>0. PICK k : k = Len(out) + 1
    OBVIOUS
  <2>1. ReaderOK(at, p)
    BY <1>5 DEF Layout, ReaderInv
  <2>2. head < tail => head < tail'
    <3>1. tail <= x
      <4>1. pl.pad \in Nat /\ (x = tail \/ x = tail + pl.pad)
        BY <1>2, <1>5 DEF TypeInv
      <4> QED
        BY <1>5, <4>1
    <3> QED
      BY <1>5, <1>6, <1>7, <3>1
  <2>3. head < tail => k \in Unread /\ k \in 1..n /\ Len(out) \in 0..n
    BY <1>5, <1>6, <2>0, AtHead
  <2>4. head < tail /\ AtPadding(at) => AtPadding(new)'
    <3> SUFFICES ASSUME head < tail, AtPadding(at) PROVE AtPadding(new)'
      OBVIOUS
    <3>1. PICK o : o = Len(out)
      OBVIOUS
    <3>2. EndOf(new, o)' = EndOf(at, o) /\ Len(out)' = o /\ new[o + 1] = at[o + 1]
      BY <1>6, <1>10, <1>20, <2>0, <2>3, <3>1
    <3>3. EndOf(new, Len(out))' = EndOf(at, Len(out))
      BY <3>1, <3>2
    <3>4. head = EndOf(at, Len(out)) /\ at[Len(out) + 1] # EndOf(at, Len(out))
      BY DEF AtPadding, Padded
    <3>5. Padded(new, Len(out))'
      BY <3>1, <3>2, <3>3, <3>4 DEF Padded
    <3> QED
      BY <1>6, <3>3, <3>4, <3>5 DEF AtPadding
  <2>5. head < tail /\ AtFrame(at) => AtFrame(new)'
    <3> SUFFICES ASSUME head < tail, AtFrame(at) PROVE AtFrame(new)'
      OBVIOUS
    <3>1. head = new[k]
      BY <1>10, <2>0, <2>3 DEF AtFrame
    <3>2. k < Len(sent')
      BY <1>6, <2>3
    <3> QED
      BY <1>6, <2>0, <3>1, <3>2 DEF AtFrame, Written
  <2>6. head < tail => sent'[k] = sent[k]
    BY <1>6, <2>3
  <2>7. rpc[p] = "advance" => mem'[Idx(head)].st = EMPTY
    <3> SUFFICES ASSUME rpc[p] = "advance" PROVE mem'[Idx(head)].st = EMPTY
      OBVIOUS
    <3>1. head < tail /\ head = at[k] /\ mem[Idx(head)].st = EMPTY
      BY <2>0, <2>1 DEF ReaderOK, AtFrame
    <3> QED
      BY <1>9, <2>3, <3>1
  <2> QED
    BY <1>6, <2>0, <2>1, <2>2, <2>4, <2>5, <2>6, <2>7 DEF ReaderOK
<1>25. Layout(new)'
  BY <1>11, <1>17, <1>19, <1>22, <1>23, <1>24 DEF Layout
<1> QED
  BY <1>12, <1>13, <1>14, <1>15, <1>25

-----------------------------------------------------------------------------
\* The invariant.

\* The ring is empty at first: no message, every cell zero.
LEMMA InitInv ==
  ASSUME \A s \in Scenarios : Sound(s), Init PROVE \E at : Inv(at)
<1> DEFINE at == [i \in 1..0 |-> 0]
<1>1. /\ opts \in Scenarios /\ head = 0 /\ tail = 0 /\ depth = 0
      /\ mem = [c \in 0..(Capacity - 1) |-> ZeroWord]
      /\ ppc = "idle" /\ pl = [msg |-> NoMessage, pad |-> 0, off |-> 0, todo |-> {}]
      /\ rpc = [p \in Readers |-> "idle"]
      /\ rl = [p \in Readers |->
                 [mode |-> "peek", cap |-> 0, h |-> 0, len |-> 0, msg |-> NoMessage]]
      /\ sent = <<>> /\ out = <<>>
  BY DEF Init
<1>2. \A p \in Readers : rpc[p] = "idle" /\ rl[p].mode = "peek"
  BY <1>1
<1>3. "cons" \in Readers /\ "prod" \in Readers
  BY DEF Readers
<1>4. TypeInv
  <2>1. Sound(opts)
    BY <1>1
  <2>2. mem \in [0..(Capacity - 1) -> [len : Int, st : {EMPTY, COMMITTED, opts.payload}]]
    BY <1>1 DEF ZeroWord
  <2>3. rpc \in [Readers -> ReaderPc]
    BY <1>1 DEF ReaderPc
  <2>4. DOMAIN pl = {"msg", "pad", "off", "todo"} /\ pl.pad \in Nat /\ pl.off \in Nat
    BY <1>1
  <2>5. /\ DOMAIN rl = Readers
        /\ \A p \in Readers : /\ DOMAIN rl[p] = {"mode", "cap", "h", "len", "msg"}
                              /\ rl[p].mode \in {"peek", "take", "claim"}
    BY <1>1
  <2> QED
    BY <1>1, <2>1, <2>2, <2>3, <2>4, <2>5 DEF TypeInv
<1>5. Len(sent) = 0 /\ Len(out) = 0 /\ Frames = 1..0 /\ Unread = 1..0
  BY <1>1 DEF Frames, Unread
<1>6. Capacity \in Nat \ {0} /\ opts.pushes \in Nat
  BY <1>4, InUse
<1>7. MessageInv
  <2>1. sent \in Seq(AllMessages) /\ out \in Seq(AllMessages)
    BY <1>1
  <2> QED
    BY <1>5, <1>6, <2>1 DEF MessageInv
<1>8. PcInv
  BY <1>1, <1>2, <1>3 DEF PcInv
<1>9. DepthInv
  BY <1>1, <1>2, <1>3, <1>5 DEF DepthInv, One
<1>10. Idx(0) = 0
  <2>1. (0 % Capacity) \in 0..(Capacity - 1) /\ 0 = Capacity * 0 + 0
    BY <1>6
  <2>2. ((Capacity * 0 + 0) % Capacity) = 0
    <3>1. 0 \in Int /\ 0 \in 0..(Capacity - 1)
      BY <1>6
    <3> QED
      BY <1>6, <3>1, RemainderUnique
  <2> QED
    BY <1>6, <2>2 DEF Idx
<1>11. Places(at)
  <2>1. at \in [Frames -> Nat]
    BY <1>5
  <2>2. EndOf(at, 0) = 0
    BY DEF EndOf
  <2> HIDE DEF at
  <2> QED
    BY <1>1, <1>5, <1>6, <2>1, <2>2 DEF Places
<1>12. Apart(at)
  BY <1>5 DEF Apart
<1>13. Multiples(at)
  <2> SUFFICES ASSUME NEW g \in 1..Capacity PROVE (Idx(tail) % g) = 0
    BY <1>5 DEF Multiples
  <2>1. g \in Nat \ {0} /\ 0 \in Int /\ 0 \in 0..(g - 1) /\ g * 0 + 0 = 0
    BY <1>6
  <2>2. ((g * 0 + 0) % g) = 0
    BY <2>1, RemainderUnique
  <2> QED
    BY <1>1, <1>10, <2>1, <2>2
<1>14. FramesInv(at) /\ FillInv(at) /\ PadsInv(at)
  BY <1>1, <1>5 DEF FramesInv, FillInv, PadsInv
<1>15. SlotsInv(at)
  <2> SUFFICES ASSUME NEW z \in opts.sizes, NEW c \in 0..(Capacity - FrameTotal(z))
               PROVE  mem[c].st = EMPTY
    BY DEF SlotsInv
  <2>1. FrameTotal(z) \in Nat /\ FrameTotal(z) >= 2
    BY <1>4, InUse DEF FrameTotal
  <2>2. c \in 0..(Capacity - 1)
    BY <1>6, <2>1
  <2> QED
    BY <1>1, <2>2 DEF ZeroWord
<1>16. ReaderInv(at)
  BY <1>2 DEF ReaderInv, ReaderOK
<1>17. Layout(at)
  BY <1>11, <1>12, <1>13, <1>14, <1>15, <1>16 DEF Layout
<1> HIDE DEF at
<1> QED
  BY <1>4, <1>7, <1>8, <1>9, <1>17 DEF Inv, Basics

\* A step that changes nothing.
LEMMA StutterInv ==
  ASSUME NEW at, Inv(at), UNCHANGED vars PROVE Inv(at)'
<1>1. /\ UNCHANGED <<opts, head, tail, mem, depth, ppc, pl, rpc, rl, sent, out>>
  BY DEF vars, ringVars, prodVars, readVars, histVars
<1>2. ReaderInv(at)'
  BY <1>1, ReaderStays DEF Inv, Layout, ReaderInv
<1>3. Layout(at)'
  <2>1. Advancing => Advancing'
    BY <1>1 DEF Advancing
  <2> QED
    BY <1>1, <1>2, <2>1, ControlStep DEF Inv
<1>4. TypeInv' /\ PcInv' /\ DepthInv'
  <2>1. Capacity' = Capacity /\ Idx(tail)' = Idx(tail)
    BY <1>1 DEF Idx, Capacity
  <2>2. TypeInv'
    BY <1>1, <2>1 DEF Inv, Basics, TypeInv
  <2>3. PcInv'
    BY <1>1, <2>1 DEF Inv, Basics, PcInv, Padding
  <2>4. DepthInv'
    BY <1>1 DEF Inv, Basics, DepthInv
  <2> QED
    BY <2>2, <2>3, <2>4
<1>5. MessageInv'
  <2>1. Capacity' = Capacity /\ Frames' = Frames /\ \A i : Total(i)' = Total(i)
    BY <1>1, IdxStays DEF Frames, Total
  <2> QED
    BY <1>1, <2>1 DEF Inv, Basics, MessageInv
<1> QED
  BY <1>3, <1>4, <1>5 DEF Inv, Basics

\* Every step finds places for the frames again.
LEMMA StepInv ==
  ASSUME ~RelaxedStores, NEW at, Inv(at), [Next]_vars PROVE \E new : Inv(new)'
<1>1. CASE \E size \in opts.sizes : PushCall(size)
  BY <1>1, PushCallInv
<1>2. CASE LoadHead
  BY <1>2, LoadHeadInv
<1>3. CASE PublishTail
  BY <1>3, PublishTailInv
<1>4. CASE Fill
  BY <1>4, StoreLengthInv, StoreBodyInv, StoreStatusInv DEF Fill
<1>5. CASE CountPush
  BY <1>5, CountPushInv
<1>6. CASE \E cap \in opts.bufs : PopCall(cap)
  BY <1>6, PopCallInv
<1>7. CASE ClaimCall
  BY <1>7, ClaimCallInv
<1>8. CASE ReleaseClaim
  BY <1>8, ReleaseClaimInv
<1>9. ASSUME NEW p \in Readers, PopStep(p) PROVE Inv(at)'
  BY <1>9, LoadIndexInv, LoadStatusInv, LoadLengthInv, SkipPaddingInv, CopyInv, ClearStatusInv,
     AdvanceHeadInv, CountPopInv DEF PopStep
<1>10. CASE UNCHANGED vars
  BY <1>10, StutterInv
<1> QED
  BY <1>1, <1>2, <1>3, <1>4, <1>5, <1>6, <1>7, <1>8, <1>9, <1>10 DEF Next, PushStep

\* The frames always have places that the buffer agrees with, if the stores of
\* a frame are seen in the order they are issued and every queue is used as it
\* is meant to be.
THEOREM RingInvariance ==
  ASSUME ~RelaxedStores, \A s \in Scenarios : Sound(s)
  PROVE  Spec => []IInv
<1>1. Init => IInv
  BY InitInv DEF IInv
<1>2. IInv /\ [Next]_vars => IInv'
  <2> SUFFICES ASSUME IInv, [Next]_vars PROVE IInv'
    OBVIOUS
  <2>1. PICK at : Inv(at)
    BY DEF IInv
  <2>2. \E new : Inv(new)'
    BY <2>1, StepInv
  <2> QED
    BY <2>2 DEF IInv
<1> QED
  BY <1>1, <1>2, PTL DEF Spec

-----------------------------------------------------------------------------
\* What follows from it.

\* The types of the variables hold in every state.
THEOREM TypeCorrectness ==
  ASSUME ~RelaxedStores, \A s \in Scenarios : Sound(s)
  PROVE  Spec => []TypeOK
<1>1. IInv => TypeOK
  <2> SUFFICES ASSUME IInv PROVE TypeOK
    OBVIOUS
  <2>1. TypeInv
    BY DEF IInv, Inv, Basics
  <2>2. DOMAIN mem = 0..(Capacity - 1)
    BY <2>1 DEF TypeInv
  <2>3. \A c \in DOMAIN mem : mem[c].len \in Int /\ mem[c].st \in {EMPTY, COMMITTED, opts.payload}
    BY <2>1 DEF TypeInv
  <2> QED
    BY <2>1, <2>2, <2>3 DEF TypeInv, TypeOK, ReaderPc
<1> QED
  BY <1>1, RingInvariance, PTL

\* What head has passed over is a prefix of what was reserved: every message
\* comes out once, in order, with the payload that was pushed.
THEOREM FifoOrder ==
  ASSUME ~RelaxedStores, \A s \in Scenarios : Sound(s)
  PROVE  Spec => []Fifo
<1>1. IInv => Fifo
  BY DEF IInv, Inv, Basics, MessageInv, Fifo
<1> QED
  BY <1>1, RingInvariance, PTL

\* The message count agrees with the ring when no call is in progress.
THEOREM CountSettles ==
  ASSUME ~RelaxedStores, \A s \in Scenarios : Sound(s)
  PROVE  Spec => []DepthSettles
<1>1. IInv => DepthSettles
  <2> SUFFICES ASSUME IInv, ppc = "idle", \A p \in Readers : rpc[p] \in {"idle", "hold"}
               PROVE  depth = Len(sent) - Len(out)
    BY DEF DepthSettles
  <2>1. rpc["cons"] # "count" /\ rpc["prod"] # "count"
    BY DEF Readers
  <2>2. DepthInv /\ MessageInv
    BY DEF IInv, Inv, Basics
  <2>3. Len(sent) \in Nat /\ Len(out) \in Nat
    BY <2>2, Lengths
  <2> QED
    BY <2>1, <2>2, <2>3 DEF DepthInv, One
<1> QED
  BY <1>1, RingInvariance, PTL

\* A reader past the length of a frame is at the oldest frame, which is written.
LEMMA ReadFrame ==
  ASSUME NEW at, Inv(at), NEW p \in Readers, rpc[p] \in {"copy", "hold", "clear", "advance"},
         NEW k, k = Len(out) + 1
  PROVE  /\ k \in Unread /\ k \in Frames /\ Written(k) /\ rl[p].h = at[k] /\ at[k] \in Nat
         /\ rl[p].len = sent[k].size /\ FrameTotal(rl[p].len) = Total(k)
         /\ Idx(at[k]) + Total(k) <= Capacity /\ Idx(at[k]) \in 0..(Capacity - 1)
         /\ Total(k) \in Nat /\ Total(k) = HdrCells + sent[k].size /\ sent[k].size \in Nat
<1>1. TypeInv /\ MessageInv /\ Places(at) /\ ReaderOK(at, p)
  BY PopStarted
<1>2. rl[p].h = head /\ head < tail /\ head = at[k] /\ Written(k) /\ rl[p].len = sent[k].size
  BY <1>1 DEF ReaderOK, AtFrame
<1>3. k \in Unread
  BY <1>2, AtHead
<1>4. /\ k \in Frames /\ at[k] \in Nat
      /\ Idx(at[k]) + Total(k) <= Capacity /\ Idx(at[k]) \in 0..(Capacity - 1)
  BY <1>1, <1>3, Window
<1>5. Total(k) \in Nat /\ Total(k) = HdrCells + sent[k].size /\ sent[k].size \in Nat
  BY <1>1, <1>4, TotalIn
<1>6. FrameTotal(rl[p].len) = Total(k)
  BY <1>2 DEF Total
<1> QED
  BY <1>2, <1>3, <1>4, <1>5, <1>6

\* The frame being read is not the one being written.
LEMMA ReadNotFilled ==
  ASSUME NEW at, Inv(at), ppc = "fill", NEW m, m = Len(sent),
         NEW p \in Readers, rpc[p] \in {"copy", "hold", "clear", "advance"},
         NEW k, k = Len(out) + 1
  PROVE  k # m
<1>1. Written(k) /\ Len(sent) \in Nat /\ Len(out) \in Nat
  BY ReadFrame, PopStarted, Lengths
<1> QED
  BY <1>1 DEF Written

\* Nobody copies out of a frame the producer is still writing.
THEOREM NeverTorn ==
  ASSUME ~RelaxedStores, \A s \in Scenarios : Sound(s)
  PROVE  Spec => []NoTornRead
<1>1. IInv => NoTornRead
  <2> SUFFICES ASSUME NEW at, Inv(at), NEW p \in Readers, ppc = "fill",
                      rpc[p] \in {"copy", "hold", "clear"},
                      NEW c \in Cells(pl.off, FrameTotal(pl.msg.size)),
                      c \in Cells(rl[p].h, FrameTotal(rl[p].len))
               PROVE  FALSE
    BY DEF IInv, NoTornRead
  <2>1. PICK m : m = Len(sent)
    OBVIOUS
  <2>2. PICK k : k = Len(out) + 1
    OBVIOUS
  <2>3. m \in Unread /\ pl.off = at[m] /\ pl.msg = sent[m] /\ Total(m) \in Nat
    BY <2>1, LastFrame
  <2>4. k \in Unread /\ rl[p].h = at[k] /\ FrameTotal(rl[p].len) = Total(k)
    BY <2>2, ReadFrame
  <2>5. k # m
    BY <2>1, <2>2, ReadNotFilled
  <2>6. PICK d \in 0..(Total(m) - 1) : c = Idx(at[m]) + d
    BY <2>3 DEF Cells, Total
  <2>7. PICK e \in 0..(Total(k) - 1) : c = Idx(at[k]) + e
    BY <2>4 DEF Cells
  <2>8. TypeInv /\ MessageInv /\ Places(at)
    BY DEF Inv, Basics, Layout
  <2>9. Idx(at[m]) + d # Idx(at[k]) + e
    BY <2>3, <2>4, <2>5, <2>8, Disjoint
  <2> QED
    BY <2>6, <2>7, <2>9
<1> QED
  BY <1>1, RingInvariance, PTL

\* The stores of a frame stay inside it.
LEMMA FillInside ==
  ASSUME NEW at, Inv(at), ppc = "fill", Fill, NEW m, m = Len(sent)
  PROVE  StoredIn(at[m], Total(m))
<1> DEFINE k == Idx(at[m])
<1>1. /\ pl.off = at[m] /\ pl.msg = sent[m] /\ sent[m].size \in Nat
      /\ Total(m) = HdrCells + sent[m].size /\ Total(m) \in Nat /\ Total(m) >= 2
      /\ k + Total(m) <= Capacity /\ k \in 0..(Capacity - 1) /\ Capacity \in Nat
  BY LastFrame
<1>2. /\ mem \in [0..(Capacity - 1) -> [len : Int, st : {EMPTY, COMMITTED, opts.payload}]]
      /\ DOMAIN mem = 0..(Capacity - 1) /\ TypeInv
  BY DEF Inv, Basics, TypeInv
<1>3. k = Idx(pl.off) /\ FrameTotal(pl.msg.size) = Total(m)
  BY <1>1 DEF Total
<1> HIDE DEF k
<1>4. SUFFICES ASSUME NEW c \in 0..(Capacity - 1), \A d \in 0..(Total(m) - 1) : c # k + d
               PROVE  mem'[c] = mem[c]
  BY DEF StoredIn, k
<1>5. c # k
  <2>1. 0 \in 0..(Total(m) - 1) /\ k + 0 = k
    BY <1>1
  <2> QED
    BY <1>4, <2>1
<1>6. CASE StoreLength
  <2>1. mem' = [mem EXCEPT ![k].len = pl.msg.size]
    BY <1>3, <1>6 DEF StoreLength
  <2> QED
    BY <1>2, <1>5, <2>1
<1>7. CASE StoreStatus
  <2>1. mem' = [mem EXCEPT ![k].st = COMMITTED]
    BY <1>3, <1>7 DEF StoreStatus
  <2> QED
    BY <1>2, <1>5, <2>1
<1>8. CASE StoreBody
  <2>1. mem' = [b \in 0..(Capacity - 1) |->
                  IF b - k > 0 /\ b - k < Total(m) THEN BodyWord(pl.msg, b - k) ELSE mem[b]]
    BY <1>2, <1>3, <1>8 DEF StoreBody
  <2>2. ~(c - k > 0 /\ c - k < Total(m))
    <3> SUFFICES ASSUME c - k > 0, c - k < Total(m) PROVE FALSE
      OBVIOUS
    <3>1. c - k \in 0..(Total(m) - 1) /\ c = k + (c - k)
      BY <1>1
    <3> QED
      BY <1>4, <3>1
  <2> QED
    BY <2>1, <2>2
<1> QED
  BY <1>6, <1>7, <1>8 DEF Fill

\* The cells of the payload that a claim lends are cells of its frame.
LEMMA PayloadInside ==
  ASSUME NEW at, Inv(at), NEW p \in Readers, rpc[p] \in {"copy", "hold", "clear", "advance"},
         NEW k, k = Len(out) + 1, NEW c \in Cells(rl[p].h + HdrCells, rl[p].len)
  PROVE  /\ c \in 0..(Capacity - 1)
         /\ \E d \in 0..(Total(k) - 1) : c = Idx(at[k]) + d
<1>1. /\ rl[p].h = at[k] /\ at[k] \in Nat /\ rl[p].len = sent[k].size
      /\ Idx(at[k]) + Total(k) <= Capacity /\ Idx(at[k]) \in 0..(Capacity - 1)
      /\ Total(k) \in Nat /\ Total(k) = HdrCells + sent[k].size /\ sent[k].size \in Nat
  BY ReadFrame
<1>2. Capacity \in Nat \ {0} /\ HdrCells \in Nat /\ TypeInv
  BY PopStarted, InUse
<1>3. PICK i \in 0..(sent[k].size - 1) : c = Idx(at[k] + HdrCells) + i
  BY <1>1 DEF Cells
<1>4. Idx(at[k] + HdrCells) = Idx(at[k]) + HdrCells
  <2>1. Idx(at[k]) + HdrCells < Capacity
    BY <1>1, <1>2, <1>3, SMTT(40)
  <2> QED
    BY <1>1, <1>2, <2>1, IdxPlus
<1>5. /\ Total(k) \in Nat /\ sent[k].size \in Nat /\ i \in Nat /\ i < sent[k].size
      /\ Total(k) = HdrCells + sent[k].size
  BY <1>1
<1>6. HdrCells + i \in 0..(Total(k) - 1)
  BY <1>2, <1>5
<1>7. c = Idx(at[k]) + (HdrCells + i)
  <2>1. Idx(at[k]) \in Nat
    BY <1>1, <1>2
  <2> QED
    BY <1>2, <1>3, <1>4, <1>5, <2>1
<1>8. c \in 0..(Capacity - 1)
  <2>1. Idx(at[k]) \in Nat /\ Idx(at[k]) + Total(k) <= Capacity
    BY <1>1, <1>2
  <2> QED
    BY <1>2, <1>5, <1>7, <2>1, SMTT(40)
<1> QED
  BY <1>6, <1>7, <1>8

\* While a claim is out, nobody writes a cell of the payload it lends.
THEOREM ClaimsUndisturbed ==
  ASSUME ~RelaxedStores, \A s \in Scenarios : Sound(s)
  PROVE  Spec => ClaimStable
<1>1. IInv /\ [Next]_vars =>
        [rpc["cons"] = "hold" =>
           \A c \in Cells(rl["cons"].h + HdrCells, rl["cons"].len) : mem'[c] = mem[c]]_vars
  <2> SUFFICES ASSUME NEW at, Inv(at), [Next]_vars, rpc["cons"] = "hold",
                      NEW c \in Cells(rl["cons"].h + HdrCells, rl["cons"].len)
               PROVE  mem'[c] = mem[c]
    BY DEF IInv
  <2>1. PICK k : k = Len(out) + 1
    OBVIOUS
  <2>2. "cons" \in Readers
    BY DEF Readers
  <2>3. c \in 0..(Capacity - 1) /\ k \in Unread /\ Total(k) \in Nat
    BY <2>1, <2>2, PayloadInside, ReadFrame
  <2>4. PICK d \in 0..(Total(k) - 1) : c = Idx(at[k]) + d
    BY <2>1, <2>2, PayloadInside
  <2>5. CASE mem' = mem
    BY <2>5
  <2>6. CASE PublishTail
    <3>1. PICK n : n = Len(sent)
      OBVIOUS
    <3>2. PICK x : x = tail + pl.pad
      OBVIOUS
    <3>3. PICK z : Reserved(n, x, z)
      BY <2>6, <3>1, <3>2, ReservedFact DEF PublishTail
    <3>4. Kept(at[k], Total(k))
      BY <2>3, <2>6, <3>3, PublishKeeps
    <3> QED
      BY <2>4, <3>4 DEF Kept
  <2>7. CASE Fill
    <3>1. ppc = "fill"
      BY <2>7 DEF Fill, StoreLength, StoreBody, StoreStatus, MayStore
    <3>2. PICK m : m = Len(sent)
      OBVIOUS
    <3>3. StoredIn(at[m], Total(m))
      BY <2>7, <3>1, <3>2, FillInside
    <3>4. k # m /\ m \in Unread
      BY <2>1, <2>2, <3>1, <3>2, ReadNotFilled, LastFrame
    <3>5. TypeInv /\ MessageInv /\ Places(at)
      BY DEF Inv, Basics, Layout
    <3>6. \A e \in 0..(Total(m) - 1) : c # Idx(at[m]) + e
      BY <2>3, <2>4, <3>4, <3>5, OtherFrame
    <3> QED
      BY <2>3, <3>3, <3>6 DEF StoredIn
  <2>8. ASSUME NEW p \in Readers, ClearStatus(p) PROVE FALSE
    <3>1. rpc[p] = "clear" /\ p # "cons"
      BY <2>8 DEF ClearStatus
    <3> QED
      BY <2>2, <3>1, Alone
  <2>9. ASSUME ~PublishTail, ~Fill, \A p \in Readers : ~ClearStatus(p) PROVE mem' = mem
    BY <2>9
      DEF Next, PushStep, PopStep, vars, ringVars, PushCall, LoadHead, CountPush, PopCall,
          ClaimCall, ReleaseClaim, LoadIndex, LoadStatus, LoadLength, SkipPadding, Copy,
          AdvanceHead, CountPop
  <2> QED
    BY <2>5, <2>6, <2>7, <2>8, <2>9
<1> QED
  BY <1>1, RingInvariance, PTL DEF Spec, ClaimStable

-----------------------------------------------------------------------------
\* The limit in messages.  A policy that keeps it has room for one more when a
\* push goes on to reserve a frame, or the pop that drop_old started still has
\* a message in front of it.
Limiting == opts.limit # 0 /\ opts.backpressure # "spill"
Dropping == rpc["prod"] \notin {"idle", "count"}

WithinLimit ==
  /\ Len(sent) - Len(out) <= opts.limit
  /\ ppc \in {"load", "publish"} /\ ~Dropping => Len(sent) - Len(out) < opts.limit

LimitInv == (Limiting => WithinLimit) /\ (Dropping => Len(out) < Len(sent))

\* What the invariant says of the count, of the limit and of the calls.
LEMMA LimitFacts ==
  ASSUME NEW at, Inv(at)
  PROVE  /\ Len(sent) \in Nat /\ Len(out) \in Nat /\ Len(out) <= Len(sent)
         /\ opts.limit \in Nat /\ depth \in Int
         /\ opts.backpressure \in {"drop_new", "drop_old", "block", "spill"}
         /\ DOMAIN rpc = Readers /\ "prod" \in Readers /\ "cons" \in Readers
         /\ PcInv /\ DepthInv
  BY Lengths, RingAssumption DEF Inv, Basics, TypeInv, Scenario, Readers

\* Outside a push the count is no less than the messages inside, and exact
\* where drop_old decides by it.
LEMMA CountAtCall ==
  ASSUME NEW at, Inv(at), ppc = "idle"
  PROVE  /\ ~Dropping /\ rpc["prod"] = "idle" /\ depth >= Len(sent) - Len(out)
         /\ opts.backpressure = "drop_old" /\ (opts.one_thread => rpc["cons"] \in {"idle", "hold"})
              => depth = Len(sent) - Len(out)
<1>1. rpc["prod"] = "idle"
  BY LimitFacts DEF PcInv
<1>2. depth = Len(sent) - Len(out) + One(rpc["cons"] = "count")
  BY <1>1, LimitFacts DEF DepthInv, One
<1>3. opts.backpressure = "drop_old" => opts.one_thread
  BY DEF Inv, Basics, TypeInv, Sound
<1> QED
  BY <1>1, <1>2, <1>3, LimitFacts DEF One, Dropping

\* A call that accepts has room for one, and one that drops has what to drop.
LEMMA PushCallLimit ==
  ASSUME NEW at, Inv(at), LimitInv, NEW size \in opts.sizes, PushCall(size) PROVE LimitInv'
<1>1. /\ ppc = "idle" /\ ppc' = "load" /\ sent' = sent /\ out' = out /\ opts' = opts
      /\ DecideFull(depth) # "refuse"
      /\ opts.one_thread => rpc["cons"] \in {"idle", "hold"}
  BY DEF PushCall, histVars
<1>2. /\ Len(sent) \in Nat /\ Len(out) \in Nat /\ opts.limit \in Nat /\ depth \in Int
      /\ rpc["prod"] = "idle" /\ depth >= Len(sent) - Len(out) /\ Len(out) <= Len(sent)
  BY <1>1, LimitFacts, CountAtCall
<1>3. CASE DecideFull(depth) = "drop"
  <2>1. opts.backpressure = "drop_old" /\ AtLimit(depth) /\ opts.limit # 0
    BY <1>3, LimitFacts DEF DecideFull, AtLimit
  <2>2. depth = Len(sent) - Len(out)
    BY <1>1, <2>1, CountAtCall
  <2>3. Len(sent) - Len(out) >= 1
    BY <1>2, <2>1, <2>2 DEF AtLimit
  <2>4. rpc'["prod"] = "index"
    BY <1>3, LimitFacts DEF PushCall
  <2>5. Dropping' /\ Len(out') < Len(sent')
    BY <1>1, <1>2, <2>3, <2>4 DEF Dropping
  <2> QED
    BY <1>1, <2>5 DEF LimitInv, Limiting, WithinLimit
<1>4. CASE DecideFull(depth) # "drop"
  <2>1. rpc' = rpc
    BY <1>4 DEF PushCall, readVars
  <2>2. Limiting => ~AtLimit(depth)
    BY <1>1, <1>4, LimitFacts DEF DecideFull, Limiting
  <2>3. Limiting => Len(sent) - Len(out) < opts.limit
    BY <1>2, <2>2 DEF Limiting, AtLimit
  <2>4. Limiting' = Limiting /\ ~Dropping'
    BY <1>1, <1>2, <2>1 DEF Limiting, Dropping
  <2> QED
    BY <1>1, <2>3, <2>4 DEF LimitInv, WithinLimit
<1> QED
  BY <1>3, <1>4

\* The pop of a push finds the message it is to drop: the ring is not empty...
LEMMA DropFindsFrame ==
  ASSUME NEW at, Inv(at), LimitInv, LoadIndex("prod") PROVE rpc'["prod"] = "status"
<1>1. /\ rpc["prod"] = "index" /\ Len(out) < Len(sent)
  BY DEF LoadIndex, LimitInv, Dropping
<1>2. /\ TypeInv /\ MessageInv /\ Places(at) /\ head \in Nat /\ tail \in Nat
      /\ Len(out) \in Nat /\ Len(sent) \in Nat
  BY LimitFacts DEF Inv, Basics, Layout, TypeInv
<1>3. PICK i : i = Len(out) + 1
  OBVIOUS
<1>4. i \in Unread
  BY <1>1, <1>2, <1>3 DEF Unread
<1>5. /\ at[i] \in Nat /\ head <= at[i] /\ at[i] + Total(i) <= tail /\ i \in Frames
  BY <1>2, <1>4, Window
<1>6. Total(i) \in Nat /\ Total(i) >= 2
  BY <1>2, <1>5, TotalIn
<1>7. ~(head >= tail)
  BY <1>2, <1>5, <1>6
<1> QED
  BY <1>7, LimitFacts DEF LoadIndex, GoTo

\* ... and what is at head is marked COMMITTED: the one thread is not writing.
LEMMA DropFindsCommitted ==
  ASSUME NEW at, Inv(at), LoadStatus("prod") PROVE rpc'["prod"] = "length"
<1>1. rpc["prod"] = "status" /\ ppc = "load" /\ rpc["cons"] = "idle"
  BY LimitFacts DEF LoadStatus, PcInv
<1>2. /\ rl["prod"].h = head /\ head < tail
      /\ TypeInv /\ MessageInv /\ PadsInv(at) /\ FramesInv(at)
      /\ Len(out) \in Nat /\ Len(sent) \in Nat
  BY <1>1, LimitFacts DEF Inv, Basics, Layout, ReaderInv, ReaderOK
<1>3. /\ Len(out) < Len(sent) /\ Len(out) + 1 \in Unread
      /\ AtPadding(at) \/ head = at[Len(out) + 1]
  BY <1>2, AtHead
<1>4. ~Advancing
  BY <1>1 DEF Advancing, Readers
<1>5. mem[Idx(head)].st = COMMITTED
  <2>1. CASE AtPadding(at)
    <3>1. Len(out) \in Len(out)..(Len(sent) - 1) /\ head <= EndOf(at, Len(out))
      BY <1>2, <1>3, <2>1 DEF AtPadding, TypeInv
    <3>2. mem[Idx(head)] = PadWord(Capacity - Idx(head))
      BY <2>1, <1>2, <3>1 DEF PadsInv, AtPadding
    <3> QED
      BY <3>2 DEF PadWord
  <2>2. CASE head = at[Len(out) + 1]
    <3>1. Written(Len(out) + 1)
      BY <1>1 DEF Written
    <3> QED
      BY <1>2, <1>3, <1>4, <2>2, <3>1 DEF FramesInv
  <2> QED
    BY <1>3, <2>1, <2>2
<1> QED
  BY <1>2, <1>5, LimitFacts DEF LoadStatus, GoTo

\* A step that neither reserves nor begins a push, and leaves a drop under way
\* or has it take its message, keeps the limit.
LEMMA LimitStep ==
  ASSUME NEW at, Inv(at), LimitInv, opts' = opts, sent' = sent,
         \/ out' = out /\ (Dropping' <=> Dropping)
         \/ Len(out') = Len(out) + 1 /\ ~Dropping',
         ppc' \in {"load", "publish"} => ppc \in {"load", "publish"}
  PROVE  LimitInv'
<1>1. Limiting' = Limiting
  BY DEF Limiting
<1>2. Len(sent) \in Nat /\ Len(out) \in Nat /\ opts.limit \in Nat
  BY LimitFacts
<1>3. CASE out' = out /\ (Dropping' <=> Dropping)
  BY <1>1, <1>3 DEF LimitInv, WithinLimit
<1>4. CASE Len(out') = Len(out) + 1 /\ ~Dropping'
  BY <1>1, <1>2, <1>4 DEF LimitInv, WithinLimit
<1> QED
  BY <1>3, <1>4

\* A reader's step.
LEMMA PopStepLimit ==
  ASSUME NEW at, Inv(at), LimitInv, NEW p \in Readers, PopStep(p) PROVE LimitInv'
<1>1. /\ opts' = opts /\ sent' = sent /\ ppc' = ppc
  BY DEF PopStep, LoadIndex, LoadStatus, LoadLength, SkipPadding, Copy, ClearStatus, AdvanceHead,
         CountPop, prodVars, histVars, ringVars
<1>2. CASE AdvanceHead(p)
  <2>1. Len(out') = Len(out) + 1
    <3>1. out \in Seq(AllMessages) /\ out' = Append(out, rl[p].msg)
      BY <1>2 DEF AdvanceHead, Inv, Basics, MessageInv
    <3> QED
      BY <3>1
  <2>2. ~Dropping'
    <3>1. p = "prod" => rpc'["prod"] = "count"
      BY <1>2, LimitFacts DEF AdvanceHead, GoTo
    <3>2. p = "cons" => rpc["prod"] = "idle" /\ rpc'["prod"] = rpc["prod"]
      BY <1>2, LimitFacts DEF AdvanceHead, GoTo, PcInv
    <3> QED
      BY <3>1, <3>2 DEF Dropping, Readers
  <2> QED
    BY <1>1, <2>1, <2>2, LimitStep
<1>3. CASE ~AdvanceHead(p)
  <2>1. out' = out
    BY <1>3 DEF PopStep, LoadIndex, LoadStatus, LoadLength, SkipPadding, Copy, ClearStatus,
                CountPop, histVars
  <2>2. Dropping' <=> Dropping
    <3>1. CASE p = "cons"
      <4>1. rpc'["prod"] = rpc["prod"]
        BY <3>1, LimitFacts
          DEF PopStep, LoadIndex, LoadStatus, LoadLength, SkipPadding, Copy, ClearStatus,
              AdvanceHead, CountPop, GoTo
      <4> QED
        BY <4>1 DEF Dropping
    <3>2. CASE p = "prod"
      <4>1. CASE LoadIndex(p)
        BY <3>2, <4>1, DropFindsFrame DEF Dropping, LoadIndex
      <4>2. CASE LoadStatus(p)
        BY <3>2, <4>2, DropFindsCommitted DEF Dropping, LoadStatus
      <4>3. CASE LoadLength(p)
        <5>1. rpc["prod"] = "length" /\ rpc'["prod"] \in {"skip", "index", "copy"}
          BY <3>2, <4>3, LimitFacts DEF LoadLength, GoTo
        <5> QED
          BY <5>1 DEF Dropping
      <4>4. CASE SkipPadding(p)
        BY <3>2, <4>4, LimitFacts DEF Dropping, SkipPadding, GoTo
      <4>5. CASE Copy(p)
        <5>1. rpc["prod"] = "copy" /\ rpc'["prod"] \in {"hold", "clear"}
          BY <3>2, <4>5, LimitFacts DEF Copy, GoTo
        <5> QED
          BY <5>1 DEF Dropping
      <4>6. CASE ClearStatus(p)
        BY <3>2, <4>6, LimitFacts DEF Dropping, ClearStatus, GoTo
      <4>7. CASE CountPop(p)
        BY <3>2, <4>7, LimitFacts DEF Dropping, CountPop, GoTo
      <4> QED
        BY <1>3, <4>1, <4>2, <4>3, <4>4, <4>5, <4>6, <4>7 DEF PopStep
    <3> QED
      BY <3>1, <3>2 DEF Readers
  <2> QED
    BY <1>1, <2>1, <2>2, LimitStep
<1> QED
  BY <1>2, <1>3

\* The publication of tail uses the room there was.
LEMMA PublishLimit ==
  ASSUME NEW at, Inv(at), LimitInv, PublishTail PROVE LimitInv'
<1>1. /\ ppc = "publish" /\ ppc' = "fill" /\ sent' = Append(sent, pl.msg)
      /\ out' = out /\ opts' = opts /\ rpc' = rpc
  BY DEF PublishTail, readVars
<1>2. ~Dropping /\ ~Dropping'
  BY <1>1, LimitFacts DEF Dropping, PcInv
<1>3. Len(sent') = Len(sent) + 1
  <2>1. sent \in Seq(AllMessages)
    BY DEF Inv, Basics, MessageInv
  <2> QED
    BY <1>1, <2>1
<1>4. Len(sent) \in Nat /\ Len(out) \in Nat /\ opts.limit \in Nat
  BY LimitFacts
<1>5. Limiting' = Limiting
  BY <1>1 DEF Limiting
<1> QED
  BY <1>1, <1>2, <1>3, <1>4, <1>5 DEF LimitInv, WithinLimit

\* Every step keeps the limit.
LEMMA NextLimit ==
  ASSUME IInv, LimitInv, [Next]_vars PROVE LimitInv'
<1>1. PICK at : Inv(at)
  BY DEF IInv
<1>2. CASE \E size \in opts.sizes : PushCall(size)
  BY <1>1, <1>2, PushCallLimit
<1>3. CASE PublishTail
  BY <1>1, <1>3, PublishLimit
<1>4. CASE \E p \in Readers : PopStep(p)
  BY <1>1, <1>4, PopStepLimit
<1>5. ASSUME LoadHead \/ Fill \/ CountPush \/ UNCHANGED vars PROVE LimitInv'
  <2>1. /\ opts' = opts /\ sent' = sent /\ out' = out /\ rpc' = rpc
    BY <1>5 DEF LoadHead, Fill, StoreLength, StoreBody, StoreStatus, CountPush, vars, readVars,
                histVars
  <2>2. ppc' \in {"load", "publish"} => ppc \in {"load", "publish"}
    BY <1>5 DEF LoadHead, Fill, StoreLength, StoreBody, StoreStatus, Stored, CountPush, vars,
                prodVars
  <2>3. Dropping' <=> Dropping
    BY <2>1 DEF Dropping
  <2> QED
    BY <1>1, <2>1, <2>2, <2>3, LimitStep
<1>6. ASSUME (\E cap \in opts.bufs : PopCall(cap)) \/ ClaimCall \/ ReleaseClaim PROVE LimitInv'
  <2>1. /\ opts' = opts /\ sent' = sent /\ out' = out /\ ppc' = ppc
        /\ \E l : rpc' = [rpc EXCEPT !["cons"] = l]
    BY <1>6 DEF PopCall, ClaimCall, ReleaseClaim, GoTo, prodVars, histVars
  <2>2. rpc'["prod"] = rpc["prod"]
    BY <1>1, <2>1, LimitFacts
  <2>3. Dropping' <=> Dropping
    BY <2>2 DEF Dropping
  <2> QED
    BY <1>1, <2>1, <2>3, LimitStep
<1> QED
  BY <1>2, <1>3, <1>4, <1>5, <1>6 DEF Next, PushStep

\* The ring never holds more bytes than fit, nor, under a policy that refuses
\* or drops at the limit, more messages than the limit allows.
THEOREM RoomForAll ==
  ASSUME ~RelaxedStores, \A s \in Scenarios : Sound(s)
  PROVE  Spec => []SpaceBound
<1>1. Init => LimitInv
  BY RingAssumption DEF Init, LimitInv, Limiting, WithinLimit, Dropping, Readers, Scenario
<1>2. IInv /\ LimitInv /\ [Next]_vars => LimitInv'
  BY NextLimit
<1>3. IInv /\ LimitInv => SpaceBound
  BY DEF IInv, Inv, Layout, Places, LimitInv, Limiting, WithinLimit, SpaceBound
<1>4. Spec => []IInv
  BY RingInvariance
<1> QED
  BY <1>1, <1>2, <1>3, <1>4, PTL DEF Spec

-----------------------------------------------------------------------------
\* The ring implements the bounded FIFO channel.

\* A finite, nonempty set of numbers has a greatest element: one of the sets of
\* what is greater than an element has no other inside it.
LEMMA GreatestNumber ==
  ASSUME NEW S, S \subseteq Nat, S # {}, IsFiniteSet(S)
  PROVE  Max(S) \in S /\ \A y \in S : y <= Max(S)
<1> DEFINE F == {{y \in S : y > k} : k \in S}
           R == StrictSubsetOrdering(S)
<1>1. IsWellFoundedOn(R, FiniteSubsetsOf(S))
  BY FS_StrictSubsetOrderingWellFounded
<1>2. F \subseteq FiniteSubsetsOf(S) /\ F # {}
  <2>1. ASSUME NEW k \in S PROVE IsFiniteSet({y \in S : y > k})
    BY FS_Subset
  <2> QED
    BY <2>1 DEF FiniteSubsetsOf
<1>3. PICK x \in F : \A y \in F : ~(<<y, x>> \in R)
  <2> HIDE DEF F, R
  <2> QED
    BY <1>1, <1>2, WFMin
<1>4. PICK k \in S : x = {y \in S : y > k}
  OBVIOUS
<1>5. ASSUME NEW j \in S, j > k PROVE FALSE
  <2>1. j \in Nat /\ k \in Nat
    OBVIOUS
  <2>2. /\ {y \in S : y > j} \subseteq {y \in S : y > k} /\ {y \in S : y > j} # {y \in S : y > k}
        /\ {y \in S : y > k} \subseteq S
    <3>1. j \in {y \in S : y > k} /\ j \notin {y \in S : y > j}
      BY <1>5, <2>1
    <3>2. ASSUME NEW y \in S, y > j PROVE y > k
      <4>1. y \in Nat
        OBVIOUS
      <4> QED
        BY <1>5, <2>1, <3>2, <4>1
    <3> QED
      BY <3>1, <3>2
  <2>3. <<{y \in S : y > j}, {y \in S : y > k}>> \in R
    BY <2>2 DEF StrictSubsetOrdering
  <2> QED
    BY <1>3, <1>4, <2>3
<1>6. k \in S /\ \A y \in S : k >= y
  BY <1>5
<1>7. Max(S) \in S /\ \A y \in S : Max(S) >= y
  BY <1>6 DEF Max
<1> QED
  BY <1>7

\* A product that fits is a number that fits.
LEMMA Quotient ==
  ASSUME NEW C \in Nat, NEW M \in Nat \ {0}, NEW n \in Nat, n * M <= C
  PROVE  n <= C \div M /\ C \div M \in Nat
<1> DEFINE q == C \div M
           r == (C % M)
<1>1. C = M * q + r /\ q \in Int /\ r \in 0 .. M - 1
  BY DivMod
<1> HIDE DEF q, r
<1>2. n <= q
  <2> SUFFICES ASSUME n - q >= 1 PROVE FALSE
    BY <1>1
  <2>1. M * (n - q) >= M
    BY <1>1, TurnsPositive
  <2>2. M * (n - q) = n * M - M * q
    BY <1>1
  <2>3. n * M \in Int /\ M * q \in Int
    BY <1>1
  <2> QED
    BY <1>1, <2>1, <2>2, <2>3
<1> QED
  BY <1>1, <1>2 DEF q

\* The unread frames fit the buffer, so there are no more of them than smallest
\* frames fit.
LEMMA UnreadFit ==
  ASSUME NEW at, Inv(at), opts.sizes # {}
  PROVE  Len(sent) - Len(out) <= Capacity \div FrameTotal(Min(opts.sizes))
<1> DEFINE M == FrameTotal(Min(opts.sizes))
<1>1. /\ TypeInv /\ MessageInv /\ Places(at) /\ Apart(at)
      /\ head \in Nat /\ tail \in Nat /\ Capacity \in Nat
  BY InUse DEF Inv, Basics, Layout, TypeInv
<1>2. Len(sent) \in Nat /\ Len(out) \in Nat /\ Len(out) <= Len(sent) /\ Frames = 1..Len(sent)
  BY <1>1, Lengths
<1>3. M \in Nat /\ M >= 2 /\ \A z \in opts.sizes : M <= FrameTotal(z)
  BY <1>1, SmallestFrame
<1>4. PICK k : k = Len(out) + 1
  OBVIOUS
<1>5. PICK m : m = Len(sent)
  OBVIOUS
<1>6. CASE Len(out) < Len(sent)
  <2>1. k \in Unread /\ m \in Unread /\ k \in Frames /\ m \in Frames /\ k <= m /\ k \in Nat /\ m \in Nat
    BY <1>2, <1>4, <1>5, <1>6 DEF Unread
  <2>2. head <= at[k] /\ at[m] + Total(m) <= tail /\ at[k] \in Nat /\ at[m] \in Nat
    BY <1>1, <2>1, Window
  <2>3. M <= Total(m) /\ Total(m) \in Nat
    BY <1>1, <1>3, <2>1, TotalIn DEF Total
  <2>4. at[k] + (m - k) * M <= at[m]
    <3>1. CASE k = m
      <4>1. (m - k) * M = 0
        BY <1>3, <2>1, <3>1
      <4> QED
        BY <2>2, <3>1, <4>1
    <3>2. CASE k # m
      <4>1. k < m
        BY <2>1, <3>2
      <4> QED
        BY <1>1, <2>1, <4>1 DEF Apart
    <3> QED
      BY <3>1, <3>2
  <2>5. tail <= head + Capacity
    BY <1>1 DEF Places
  <2> HIDE DEF M
  <2>6. (m - k + 1) * M = (m - k) * M + M /\ (m - k) * M \in Int /\ m - k + 1 \in Nat
    BY <1>3, <2>1
  <2>7. (m - k + 1) * M <= Capacity
    BY <1>1, <1>3, <2>2, <2>3, <2>4, <2>5, <2>6
  <2>8. m - k + 1 <= Capacity \div M
    BY <1>1, <1>3, <2>6, <2>7, Quotient
  <2>9. m - k + 1 = Len(sent) - Len(out)
    BY <1>2, <1>4, <1>5
  <2> QED
    BY <2>8, <2>9 DEF M
<1>7. CASE ~(Len(out) < Len(sent))
  <2> HIDE DEF M
  <2>1. 0 * M <= Capacity /\ 0 \in Nat
    BY <1>1, <1>3
  <2>2. 0 <= Capacity \div M
    BY <1>1, <1>3, <2>1, Quotient
  <2>3. Len(sent) - Len(out) = 0
    BY <1>2, <1>7
  <2> QED
    BY <2>2, <2>3 DEF M
<1> QED
  BY <1>6, <1>7

\* Sequences by index: what SubSeq holds.
LEMMA SubSeqFacts ==
  ASSUME NEW S, NEW s \in Seq(S), NEW m \in Nat, NEW n \in Nat, m <= n, n <= Len(s)
  PROVE  /\ SubSeq(s, m + 1, n) \in Seq(S)
         /\ Len(SubSeq(s, m + 1, n)) = n - m
         /\ \A i \in 1..(n - m) : SubSeq(s, m + 1, n)[i] = s[m + i]
  OBVIOUS

LEMMA SubSeqAppend ==
  ASSUME NEW S, NEW s \in Seq(S), NEW e \in S, NEW m \in Nat, m <= Len(s)
  PROVE  SubSeq(Append(s, e), m + 1, Len(s) + 1) = Append(SubSeq(s, m + 1, Len(s)), e)
<1> DEFINE u == SubSeq(Append(s, e), m + 1, Len(s) + 1)
           v == SubSeq(s, m + 1, Len(s))
<1>1. /\ Append(s, e) \in Seq(S) /\ Len(Append(s, e)) = Len(s) + 1 /\ Len(s) \in Nat
      /\ Append(s, e)[Len(s) + 1] = e
      /\ \A i \in 1..Len(s) : Append(s, e)[i] = s[i]
  OBVIOUS
<1>2. u \in Seq(S) /\ Len(u) = Len(s) + 1 - m /\ \A i \in 1..(Len(s) + 1 - m) : u[i] = Append(s, e)[m + i]
  BY <1>1, SubSeqFacts
<1>3. v \in Seq(S) /\ Len(v) = Len(s) - m /\ \A i \in 1..(Len(s) - m) : v[i] = s[m + i]
  BY <1>1, SubSeqFacts
<1> HIDE DEF u, v
<1>4. /\ Append(v, e) \in Seq(S) /\ Len(Append(v, e)) = Len(s) + 1 - m
      /\ Append(v, e)[Len(s) + 1 - m] = e
      /\ \A i \in 1..(Len(s) - m) : Append(v, e)[i] = s[m + i]
  BY <1>1, <1>3
<1>5. ASSUME NEW i \in 1..Len(u) PROVE u[i] = Append(v, e)[i]
  <2>1. CASE i = Len(s) + 1 - m
    BY <1>1, <1>2, <1>4, <2>1
  <2>2. CASE i # Len(s) + 1 - m
    <3>1. i \in 1..(Len(s) - m) /\ m + i \in 1..Len(s) /\ i \in 1..(Len(s) + 1 - m)
      <4>1. i \in Nat /\ i >= 1 /\ i <= Len(s) + 1 - m /\ Len(s) \in Nat
        BY <1>1, <1>2
      <4> QED
        BY <2>2, <4>1
    <3> QED
      BY <1>1, <1>2, <1>4, <3>1
  <2> QED
    BY <2>1, <2>2
<1>6. u = Append(v, e)
  BY <1>1, <1>2, <1>4, <1>5, SeqEqual
<1> QED
  BY <1>6 DEF u, v

\* The bound of the channel holds of each ring.
LEMMA Roomiest ==
  ASSUME TypeInv, IsFiniteSet(Scenarios), \A s \in Scenarios : s.sizes # {}
  PROVE  LET bound == Max({s.capacity \div FrameTotal(Min(s.sizes)) : s \in Scenarios})
         IN /\ bound \in Nat
            /\ Capacity \div FrameTotal(Min(opts.sizes)) <= bound
<1> DEFINE S == {s.capacity \div FrameTotal(Min(s.sizes)) : s \in Scenarios}
<1>1. ASSUME NEW s \in Scenarios PROVE s.capacity \div FrameTotal(Min(s.sizes)) \in Nat
  <2>1. /\ s.capacity \in Nat /\ HdrCells \in Nat /\ HdrCells >= 2
        /\ s.sizes \subseteq Nat /\ s.sizes # {}
    BY RingAssumption DEF Scenario
  <2>2. Min(s.sizes) \in Nat
    BY <2>1, LeastNumber
  <2>3. FrameTotal(Min(s.sizes)) \in Nat \ {0}
    BY <2>1, <2>2 DEF FrameTotal
  <2>4. 0 * FrameTotal(Min(s.sizes)) <= s.capacity /\ 0 \in Nat
    BY <2>1, <2>3
  <2> QED
    BY <2>1, <2>3, <2>4, Quotient
<1>2. opts \in Scenarios
  BY DEF TypeInv
<1>3. S \subseteq Nat /\ S # {}
  BY <1>1, <1>2
<1>4. IsFiniteSet(S)
  <2> DEFINE f == [s \in Scenarios |-> s.capacity \div FrameTotal(Min(s.sizes))]
  <2>1. f \in Surjection(Scenarios, S)
    BY DEF Surjection
  <2> QED
    BY <2>1, FS_Surjection
<1>5. Capacity \div FrameTotal(Min(opts.sizes)) \in S
  BY <1>2 DEF Capacity
<1> HIDE DEF S
<1>6. Max(S) \in S /\ \A y \in S : y <= Max(S)
  BY <1>3, <1>4, GreatestNumber
<1> QED
  BY <1>3, <1>5, <1>6 DEF S

\* The room for the unread frames, before and after a step.
LEMMA AlwaysFit ==
  \A at : Inv(at) /\ opts.sizes # {} =>
    Len(sent) - Len(out) <= Capacity \div FrameTotal(Min(opts.sizes))
  BY UnreadFit

LEMMA AlwaysFitNext ==
  (\A at : Inv(at) /\ opts.sizes # {} =>
     Len(sent) - Len(out) <= Capacity \div FrameTotal(Min(opts.sizes)))'
  BY AlwaysFit, PTL

\* The publication of tail puts a message in.
LEMMA PublishPuts ==
  ASSUME ~RelaxedStores, IsFiniteSet(Scenarios), \A s \in Scenarios : s.sizes # {},
         NEW at, Inv(at), PublishTail
  PROVE  Channel!Put(pl.msg) /\ pl.msg \in AllMessages
<1>1. PICK n : n = Len(sent)
  OBVIOUS
<1>2. PICK x : x = tail + pl.pad
  OBVIOUS
<1>3. PICK z : Reserved(n, x, z)
  BY <1>1, <1>2, ReservedFact DEF PublishTail
<1>4. /\ sent' = Append(sent, pl.msg) /\ pl.msg \in AllMessages /\ sent' \in Seq(AllMessages)
      /\ Len(sent') = n + 1 /\ \A i \in 1..n : sent'[i] = sent[i]
      /\ out' = out /\ opts' = opts /\ Len(out) \in Nat /\ Len(out) <= n /\ n \in Nat
  BY <1>3, PublishedFrames
<1>5. sent'[n + 1] = pl.msg
  BY <1>1, <1>4
<1>6. sent \in Seq(AllMessages) /\ out \in Seq(AllMessages)
  BY DEF Inv, Basics, MessageInv
<1>7. Len(sent') - Len(out') <= Capacity' \div FrameTotal(Min(opts.sizes))
  <2>1. PICK new : Inv(new)'
    BY PublishTailInv
  <2>2. opts'.sizes # {}
    BY <1>4 DEF Inv, Basics, TypeInv
  <2>3. (Len(sent) - Len(out) <= Capacity \div FrameTotal(Min(opts.sizes)))'
    BY <2>1, <2>2, AlwaysFitNext
  <2> QED
    BY <1>4, <2>3 DEF FrameTotal
<1> DEFINE chan  == SubSeq(sent, Len(out) + 1, Len(sent))
           bound == Max({s.capacity \div FrameTotal(Min(s.sizes)) : s \in Scenarios})
<1>8. bound \in Nat /\ n + 1 - Len(out) <= bound
  <2>1. TypeInv
    BY DEF Inv, Basics
  <2>2. bound \in Nat /\ Capacity \div FrameTotal(Min(opts.sizes)) <= bound
    BY <2>1, Roomiest
  <2>3. Capacity' = Capacity
    BY <1>4 DEF Capacity
  <2>4. n + 1 - Len(out) <= Capacity \div FrameTotal(Min(opts.sizes))
    BY <1>4, <1>7, <2>3
  <2>5. Capacity \div FrameTotal(Min(opts.sizes)) \in Int
    <3>1. Capacity \in Int /\ FrameTotal(Min(opts.sizes)) \in Nat \ {0}
      <4>1. opts \in Scenarios /\ opts.sizes # {}
        BY <2>1 DEF TypeInv
      <4>2. PICK y \in opts.sizes : TRUE
        BY <4>1
      <4> QED
        BY <2>1, <4>2, SmallestFrame, InUse
    <3> QED
      BY <3>1, DivMod
  <2> HIDE DEF bound
  <2> QED
    BY <1>4, <2>2, <2>4, <2>5
<1>9. Len(chan) < bound
  <2>1. Len(chan) = n - Len(out)
    BY <1>1, <1>4, <1>6, SubSeqProperties
  <2> HIDE DEF chan, bound
  <2> QED
    BY <1>4, <1>8, <2>1
<1>10. chan' = Append(chan, pl.msg)
  <2>1. chan' = SubSeq(Append(sent, pl.msg), Len(out) + 1, Len(sent) + 1)
    BY <1>1, <1>4
  <2> QED
    BY <1>1, <1>4, <1>6, <2>1, SubSeqAppend
<1> QED
  BY <1>4, <1>9, <1>10 DEF Channel!Put

\* The advance of head takes the oldest message out.
LEMMA AdvanceTakes ==
  ASSUME NEW at, Inv(at), NEW p \in Readers, AdvanceHead(p) PROVE Channel!Take
<1>1. PICK k : k = Len(out) + 1
  OBVIOUS
<1>2. /\ rpc[p] = "advance" /\ out' = Append(out, rl[p].msg) /\ sent' = sent
  BY DEF AdvanceHead
<1>3. rl[p].msg = sent[k] /\ k \in Unread
  <2>1. ReaderOK(at, p)
    BY PopStarted
  <2>2. rl[p].msg = sent[k]
    BY <1>1, <1>2, <2>1 DEF ReaderOK
  <2>3. k \in Unread
    BY <1>1, <1>2, ReadFrame
  <2> QED
    BY <2>2, <2>3
<1>4. /\ sent \in Seq(AllMessages) /\ out \in Seq(AllMessages)
      /\ Len(sent) \in Nat /\ Len(out) \in Nat /\ Len(out) + 1 <= Len(sent)
  <2>1. MessageInv
    BY DEF Inv, Basics
  <2>2. Len(sent) \in Nat /\ Len(out) \in Nat
    BY <2>1, Lengths
  <2> QED
    BY <1>1, <1>3, <2>1, <2>2 DEF Unread, MessageInv
<1> DEFINE chan == SubSeq(sent, Len(out) + 1, Len(sent))
<1>5. chan # <<>> /\ Head(chan) = sent[k] /\ Tail(chan) = SubSeq(sent, k + 1, Len(sent))
  <2>1. k \in 1..Len(sent) /\ Len(sent) \in k..Len(sent)
    BY <1>1, <1>4
  <2>2. Len(chan) = Len(sent) - Len(out)
    BY <1>4, SubSeqFacts
  <2>3. chan # <<>>
    <3>1. Len(chan) # 0
      <4> HIDE DEF chan
      <4> QED
        BY <1>4, <2>2
    <3> HIDE DEF chan
    <3> QED
      BY <3>1
  <2> QED
    BY <1>1, <1>4, <2>1, <2>3, HeadTailOfSubSeq
<1>6. chan' = Tail(chan)
  <2>1. Len(out') = Len(out) + 1
    <3>1. sent[k] \in AllMessages
      BY <1>1, <1>4
    <3> QED
      BY <1>2, <1>3, <1>4, <3>1
  <2> QED
    BY <1>1, <1>2, <1>5, <2>1
<1>7. out' = Append(out, Head(chan))
  BY <1>2, <1>3, <1>5
<1> QED
  BY <1>5, <1>6, <1>7 DEF Channel!Take

\* A FAST queue is a bounded FIFO channel: every other step is invisible.
THEOREM RingIsChannel ==
  ASSUME ~RelaxedStores, \A s \in Scenarios : Sound(s) /\ s.sizes # {}, IsFiniteSet(Scenarios)
  PROVE  Spec => ImplementsChannel
<1>1. Init => Channel!Init
  BY DEF Init, Channel!Init
<1>2. IInv /\ [Next]_vars => [Channel!Next]_(Channel!chanVars)
  <2> SUFFICES ASSUME NEW at, Inv(at), [Next]_vars PROVE [Channel!Next]_(Channel!chanVars)
    BY DEF IInv
  <2>1. CASE UNCHANGED <<sent, out>>
    BY <2>1 DEF Channel!chanVars
  <2>2. CASE PublishTail
    BY <2>2, PublishPuts DEF Channel!Next, AllMessages
  <2>3. ASSUME NEW p \in Readers, AdvanceHead(p) PROVE Channel!Next
    BY <2>3, AdvanceTakes DEF Channel!Next
  <2>4. ASSUME ~PublishTail, \A p \in Readers : ~AdvanceHead(p) PROVE UNCHANGED <<sent, out>>
    BY <2>4
      DEF Next, PushStep, PopStep, vars, histVars, PushCall, LoadHead, Fill, StoreLength, StoreBody,
          StoreStatus, CountPush, PopCall, ClaimCall, ReleaseClaim, LoadIndex, LoadStatus,
          LoadLength, SkipPadding, Copy, ClearStatus, CountPop
  <2> QED
    BY <2>1, <2>2, <2>3, <2>4
<1>3. Spec => []IInv
  BY RingInvariance
<1> QED
  BY <1>1, <1>2, <1>3, PTL DEF Spec, ImplementsChannel, Channel!Spec
=============================================================================
