------------------------------- MODULE LfqRing -------------------------------
(***************************************************************************)
(* The byte ring behind FAST queues (core/src/core/emq_lfq.c) together     *)
(* with the queue layer that drives it (core/src/primitives/emq_fifo.c):   *)
(* one producer thread, one consumer thread, every access to a word the    *)
(* two threads share a step of its own.                                    *)
(*                                                                         *)
(* The ring is an array of Capacity cells (a cell stands for 8 bytes, the  *)
(* alignment of every frame).  head and tail are stream offsets that only  *)
(* Idx maps into the buffer.  A frame is HdrCells header cells, the first  *)
(* of which holds <length, status>, followed by its payload cells.  A cell *)
(* is always a pair [len, st]: what a reader finds when it takes the cell  *)
(* for the first word of a frame header, whatever was written there.       *)
(*                                                                         *)
(* The program's u64 offsets never reach 2^64; the one subtraction that    *)
(* can wrap, tail - head, is written out in NoRoom.                        *)
(***************************************************************************)
EXTENDS Integers, Sequences, FiniteSetsExt

CONSTANTS
  Scenarios,      \* the queues to be looked at and how each of them is used
  HdrCells,       \* header cells of a frame; >= 2: <length,status> and msg_id
  RelaxedStores,  \* TRUE: the stores of a frame become visible in any order
  MaxMsgs         \* no scenario accepts more pushes

\* A queue (its ring, its backpressure policy, its limit in messages, 0 for
\* none) and its use: the payload sizes that are pushed, in cells, the buffers
\* the consumer pops into, the buffer a push drops a message into, what a
\* payload cell reads as when taken for a status, whether the consumer also
\* claims, whether one thread makes all the calls, one after another, and the
\* bound on the number of accepted pushes.
Scenario ==
  [capacity : Nat, backpressure : {"drop_new", "drop_old", "block", "spill"}, limit : Nat,
   sizes : SUBSET Nat, bufs : SUBSET Nat, trash : Nat, payload : 0..2,
   claims : BOOLEAN, one_thread : BOOLEAN, pushes : 0..MaxMsgs]

ASSUME RingAssumption ==
  /\ HdrCells \in Nat \ {0, 1} /\ MaxMsgs \in Nat /\ RelaxedStores \in BOOLEAN
  /\ \A s \in Scenarios :
       /\ s \in Scenario
       /\ HdrCells <= s.capacity
       /\ \E n \in 0..s.capacity : s.capacity = 2^n

VARIABLES
  opts,           \* the scenario: a queue and its use never change
  head, tail,     \* q->head, q->tail
  mem,            \* q->buf, by cell
  depth,          \* hot.depth
  ppc, pl,        \* producer: program counter and locals
  rpc, rl,        \* readers: program counter and locals
  sent,           \* history: the messages in the order of their reservation
  out             \* history: the messages head advanced over, popped or dropped

Capacity == opts.capacity   \* cells of the buffer (q->capacity / 8), a power of two

ringVars == <<head, tail, mem>>
prodVars == <<ppc, pl>>
readVars == <<rpc, rl>>
histVars == <<sent, out>>
vars == <<opts, ringVars, depth, prodVars, readVars, histVars>>

EMPTY     == 0
CLAIMED   == 1  \* declared by the code, never stored
COMMITTED == 2

\* The producer thread reads the ring too: DROP_OLD pops from inside a push.
Readers == {"cons", "prod"}

Idx(offset) == offset % Capacity
FrameTotal(size) == HdrCells + size
Cells(offset, n) == {Idx(offset) + i : i \in 0..(n - 1)}

-----------------------------------------------------------------------------
\* What the cells of a frame hold.  The high half of a msg_id word is the
\* queue's id shifted left and never a status; flags and priority are zero.
PadWord(pad)    == [len |-> -pad, st |-> COMMITTED]
IdWord(id)      == [len |-> id, st |-> EMPTY]
ZeroWord        == [len |-> 0, st |-> EMPTY]
PayloadWord(id) == [len |-> id, st |-> opts.payload]

BodyWord(m, i) ==
  IF i = 1 THEN IdWord(m.id)
  ELSE IF i < HdrCells THEN ZeroWord ELSE PayloadWord(m.id)

\* The buffer after a padding header at offset: the header's first word, its
\* zeroed rest as far as the buffer goes.
WithPadding(offset, pad) ==
  [c \in DOMAIN mem |->
     IF c = Idx(offset) THEN PadWord(pad)
     ELSE IF c > Idx(offset) /\ c < Idx(offset) + HdrCells THEN ZeroWord
     ELSE mem[c]]

\* What a copy of the frame at offset yields when its length is size.
MessageAt(offset, size) ==
  [id |-> mem[Idx(offset + 1)].len,
   size |-> size,
   data |-> [i \in 1..size |-> mem[Idx(offset + HdrCells + i - 1)].len]]

Message(id, size) == [id |-> id, size |-> size, data |-> [i \in 1..size |-> id]]

-----------------------------------------------------------------------------
\* emq_policy_decide_full over the message count.  A negative hot.depth is a
\* huge number once cast to uint32_t.
AtLimit(d) == opts.limit # 0 /\ (d < 0 \/ d >= opts.limit)

DecideFull(d) ==
  IF ~AtLimit(d) THEN "accept"
  ELSE CASE opts.backpressure \in {"drop_new", "block"} -> "refuse"
         [] opts.backpressure = "drop_old"              -> "drop"
         [] OTHER                                  -> "accept"

\* Wrap padding needed in front of a frame that would cross the buffer's end.
Padding(need) ==
  IF Idx(tail) + need > Capacity THEN Capacity - Idx(tail) ELSE 0

\* Mutant of NoRoom: the frame to come is left out of the account.
NoRoom_forgets_claim(h, claim) == tail - h > Capacity

\* tail - head + claim_bytes > capacity in uint64_t: a negative sum is huge.
NoRoom(h, claim) ==
  LET used == tail - h + claim IN used < 0 \/ used > Capacity

-----------------------------------------------------------------------------
\* The call of a push, up to the reservation: the fullness decision reads the
\* message count, and under drop_old starts a pop on the producer's thread.
PushCall(size) ==
  /\ ppc = "idle"
  /\ opts.one_thread => rpc["cons"] \in {"idle", "hold"}
  /\ Len(sent) < opts.pushes
  /\ FrameTotal(size) <= Capacity
  /\ DecideFull(depth) # "refuse"
  /\ ppc' = "load"
  /\ pl' = [pl EXCEPT !.msg = Message(Len(sent) + 1, size)]
  /\ IF DecideFull(depth) = "drop"
     THEN /\ rpc' = [rpc EXCEPT !["prod"] = "index"]
          /\ rl' = [rl EXCEPT !["prod"].mode = "take", !["prod"].cap = opts.trash]
     ELSE UNCHANGED readVars
  /\ UNCHANGED <<opts, ringVars, depth, histVars>>

\* emq_lfq_reserve: the acquire load of head and the space check.
LoadHead ==
  /\ ppc = "load" /\ rpc["prod"] = "idle"
  /\ LET need == FrameTotal(pl.msg.size)
         pad  == Padding(need)
     IN IF NoRoom(head, pad + need)
        THEN ppc' = "idle" /\ UNCHANGED pl
        ELSE ppc' = "publish" /\ pl' = [pl EXCEPT !.pad = pad]
  /\ UNCHANGED <<opts, ringVars, depth, readVars, histVars>>

\* The padding header is written behind tail and published with it by the
\* release store; the frame itself is still unwritten.
PublishTail ==
  /\ ppc = "publish"
  /\ mem' = IF pl.pad > 0 THEN WithPadding(tail, pl.pad) ELSE mem
  /\ tail' = tail + pl.pad + FrameTotal(pl.msg.size)
  /\ ppc' = "fill"
  /\ pl' = [pl EXCEPT !.off = tail + pl.pad, !.todo = {"length", "body", "status"}]
  /\ sent' = Append(sent, pl.msg)
  /\ UNCHANGED <<opts, head, depth, readVars, out>>

\* Stores of one frame are issued length, body, status.  The status store is
\* relaxed: nothing orders the others before it for another thread.
MayStore(what) ==
  /\ ppc = "fill" /\ what \in pl.todo
  /\ \/ RelaxedStores
     \/ what = "length"
     \/ what = "body" /\ "length" \notin pl.todo
     \/ what = "status" /\ pl.todo = {"status"}

Stored(what) ==
  LET rest == pl.todo \ {what} IN
  /\ pl' = [pl EXCEPT !.todo = rest]
  /\ ppc' = IF rest = {} THEN "count" ELSE "fill"

StoreLength ==
  /\ MayStore("length") /\ Stored("length")
  /\ mem' = [mem EXCEPT ![Idx(pl.off)].len = pl.msg.size]
  /\ UNCHANGED <<opts, head, tail, depth, readVars, histVars>>

StoreBody ==
  /\ MayStore("body") /\ Stored("body")
  /\ mem' = [c \in DOMAIN mem |->
               LET i == c - Idx(pl.off) IN
               IF i > 0 /\ i < FrameTotal(pl.msg.size)
               THEN BodyWord(pl.msg, i) ELSE mem[c]]
  /\ UNCHANGED <<opts, head, tail, depth, readVars, histVars>>

StoreStatus ==
  /\ MayStore("status") /\ Stored("status")
  /\ mem' = [mem EXCEPT ![Idx(pl.off)].st = COMMITTED]
  /\ UNCHANGED <<opts, head, tail, depth, readVars, histVars>>

\* The rest of emq_fifo_push_lfq: the message count, after the message is out.
CountPush ==
  /\ ppc = "count"
  /\ depth' = depth + 1
  /\ ppc' = "idle"
  /\ UNCHANGED <<opts, ringVars, pl, readVars, histVars>>

Fill == StoreLength \/ StoreBody \/ StoreStatus
PushStep == LoadHead \/ PublishTail \/ Fill \/ CountPush

-----------------------------------------------------------------------------
GoTo(p, label) == rpc' = [rpc EXCEPT ![p] = label]

\* The consumer's calls: pop_into and pop look at the length first ("peek")
\* and then pop ("take"); claim leaves the frame in place.
PopCall(cap) ==
  /\ rpc["cons"] = "idle"
  /\ opts.one_thread => ppc = "idle"
  /\ GoTo("cons", "index")
  /\ rl' = [rl EXCEPT !["cons"].mode = "peek", !["cons"].cap = cap]
  /\ UNCHANGED <<opts, ringVars, depth, prodVars, histVars>>

ClaimCall ==
  /\ opts.claims
  /\ rpc["cons"] = "idle"
  /\ opts.one_thread => ppc = "idle"
  /\ GoTo("cons", "index")
  /\ rl' = [rl EXCEPT !["cons"].mode = "claim"]
  /\ UNCHANGED <<opts, ringVars, depth, prodVars, histVars>>

LoadIndex(p) ==
  /\ rpc[p] = "index"
  /\ rl' = [rl EXCEPT ![p].h = head]
  /\ GoTo(p, IF head >= tail THEN "idle" ELSE "status")
  /\ UNCHANGED <<opts, ringVars, depth, prodVars, histVars>>

\* Mutant of LoadStatus: a published tail is taken for a written frame.
LoadStatus_unchecked(p) ==
  /\ rpc[p] = "status"
  /\ GoTo(p, "length")
  /\ UNCHANGED <<opts, ringVars, depth, prodVars, rl, histVars>>

LoadStatus(p) ==
  /\ rpc[p] = "status"
  /\ GoTo(p, IF mem[Idx(rl[p].h)].st = COMMITTED THEN "length" ELSE "idle")
  /\ UNCHANGED <<opts, ringVars, depth, prodVars, rl, histVars>>

\* A negative length is padding.  A frame larger than the caller's buffer
\* stays queued; the drop of a push retries with a buffer that fits.
LoadLength(p) ==
  /\ rpc[p] = "length"
  /\ LET len  == mem[Idx(rl[p].h)].len
         mode == rl[p].mode
     IN \/ /\ len < 0
           /\ GoTo(p, "skip") /\ rl' = [rl EXCEPT ![p].len = len]
        \/ /\ len >= 0 /\ mode # "claim" /\ len > rl[p].cap
           /\ IF p = "prod"
              THEN GoTo(p, "index") /\ rl' = [rl EXCEPT ![p].cap = len]
              ELSE GoTo(p, "idle") /\ UNCHANGED rl
        \/ /\ len >= 0 /\ mode = "peek" /\ len <= rl[p].cap
           /\ GoTo(p, "index") /\ rl' = [rl EXCEPT ![p].mode = "take"]
        \/ /\ len >= 0 /\ (mode = "take" => len <= rl[p].cap) /\ mode # "peek"
           /\ GoTo(p, "copy") /\ rl' = [rl EXCEPT ![p].len = len]
  /\ UNCHANGED <<opts, ringVars, depth, prodVars, histVars>>

\* Mutant of SkipPadding: head stays in front of the padding.
SkipPadding_stays(p) ==
  /\ rpc[p] = "skip"
  /\ GoTo(p, "index")
  /\ UNCHANGED <<opts, ringVars, depth, prodVars, rl, histVars>>

\* Padding is skipped by moving head only: its status stays COMMITTED.
SkipPadding(p) ==
  /\ rpc[p] = "skip"
  /\ head' = rl[p].h - rl[p].len
  /\ GoTo(p, "index")
  /\ UNCHANGED <<opts, tail, mem, depth, prodVars, rl, histVars>>

Copy(p) ==
  /\ rpc[p] = "copy"
  /\ rl' = [rl EXCEPT ![p].msg = MessageAt(rl[p].h, rl[p].len)]
  /\ GoTo(p, IF rl[p].mode = "claim" THEN "hold" ELSE "clear")
  /\ UNCHANGED <<opts, ringVars, depth, prodVars, histVars>>

ReleaseClaim ==
  /\ rpc["cons"] = "hold"
  /\ opts.one_thread => ppc = "idle"
  /\ GoTo("cons", "clear")
  /\ UNCHANGED <<opts, ringVars, depth, prodVars, rl, histVars>>

\* Mutants of ClearStatus: the status is left as it is; it is stored as CLAIMED.
ClearStatus_forgets(p) ==
  /\ rpc[p] = "clear"
  /\ GoTo(p, "advance")
  /\ UNCHANGED <<opts, ringVars, depth, prodVars, rl, histVars>>

ClearStatus_claims(p) ==
  /\ rpc[p] = "clear"
  /\ mem' = [mem EXCEPT ![Idx(rl[p].h)].st = CLAIMED]
  /\ GoTo(p, "advance")
  /\ UNCHANGED <<opts, head, tail, depth, prodVars, rl, histVars>>

ClearStatus(p) ==
  /\ rpc[p] = "clear"
  /\ mem' = [mem EXCEPT ![Idx(rl[p].h)].st = EMPTY]
  /\ GoTo(p, "advance")
  /\ UNCHANGED <<opts, head, tail, depth, prodVars, rl, histVars>>

AdvanceHead(p) ==
  /\ rpc[p] = "advance"
  /\ head' = rl[p].h + FrameTotal(rl[p].len)
  /\ out' = Append(out, rl[p].msg)
  /\ GoTo(p, "count")
  /\ UNCHANGED <<opts, tail, mem, depth, prodVars, rl, sent>>

\* Mutant of CountPop: the count is forgotten.
CountPop_forgets(p) ==
  /\ rpc[p] = "count"
  /\ GoTo(p, "idle")
  /\ UNCHANGED <<opts, ringVars, depth, prodVars, rl, histVars>>

CountPop(p) ==
  /\ rpc[p] = "count"
  /\ depth' = depth - 1
  /\ GoTo(p, "idle")
  /\ UNCHANGED <<opts, ringVars, prodVars, rl, histVars>>

PopStep(p) ==
  \/ LoadIndex(p) \/ LoadStatus(p) \/ LoadLength(p) \/ SkipPadding(p)
  \/ Copy(p) \/ ClearStatus(p) \/ AdvanceHead(p) \/ CountPop(p)

-----------------------------------------------------------------------------
NoMessage == [id |-> 0, size |-> 0, data |-> <<>>]

Init ==
  /\ opts \in Scenarios
  /\ head = 0 /\ tail = 0 /\ depth = 0
  /\ mem = [c \in 0..(Capacity - 1) |-> ZeroWord]
  /\ ppc = "idle"
  /\ pl = [msg |-> NoMessage, pad |-> 0, off |-> 0, todo |-> {}]
  /\ rpc = [p \in Readers |-> "idle"]
  /\ rl = [p \in Readers |->
             [mode |-> "peek", cap |-> 0, h |-> 0, len |-> 0, msg |-> NoMessage]]
  /\ sent = <<>> /\ out = <<>>

Next ==
  \/ \E size \in opts.sizes : PushCall(size)
  \/ PushStep
  \/ \E cap \in opts.bufs : PopCall(cap)
  \/ ClaimCall
  \/ ReleaseClaim
  \/ \E p \in Readers : PopStep(p)

\* A thread that is inside a call keeps running, a claim is given back, and of
\* the consumer's calls some are, time and again, pops into a buffer that takes
\* any message; the producer need not call at all.
Fairness ==
  /\ WF_vars(PushStep) /\ WF_vars(PopStep("prod"))
  /\ WF_vars(PopStep("cons")) /\ SF_vars(ReleaseClaim)
  /\ SF_vars(\E cap \in opts.bufs : (\A size \in opts.sizes : size <= cap) /\ PopCall(cap))

Spec == Init /\ [][Next]_vars
FairSpec == Spec /\ Fairness

-----------------------------------------------------------------------------
\* Properties.

\* The types of the variables; every offset a reader holds is a stream offset.
TypeOK ==
  /\ head \in Nat /\ tail \in Nat /\ depth \in Int
  /\ DOMAIN mem = 0..(Capacity - 1)
  /\ \A c \in DOMAIN mem : mem[c].len \in Int /\ mem[c].st \in {EMPTY, COMMITTED, opts.payload}
  /\ ppc \in {"idle", "load", "publish", "fill", "count"}
  /\ rpc \in [Readers -> {"idle", "index", "status", "length", "skip", "copy",
                          "hold", "clear", "advance", "count"}]
  /\ pl.pad \in Nat /\ pl.off \in Nat

\* Every message comes out once, in the order the frames were reserved, with
\* the id, the length and the payload that was pushed: what head has passed
\* over (taken by the consumer or dropped by DROP_OLD) is a prefix of what the
\* producer reserved.  Hazards: the tail published before the frame is
\* written, stale bytes where a header will be, two poppers.
Fifo ==
  /\ Len(out) <= Len(sent)
  /\ \A i \in 1..Len(out) : out[i] = sent[i]

\* The ring never holds more than it has room for, padding included, and head
\* never overtakes tail, so the producer never writes over an unread frame.  A
\* policy that refuses or drops at the limit keeps the messages inside within
\* it, though it decides by a count that lags behind the ring, and drop_old
\* pushes whether or not its pop found a message to drop.
SpaceBound ==
  /\ head <= tail /\ tail <= head + Capacity
  /\ opts.limit # 0 /\ opts.backpressure # "spill" => Len(sent) - Len(out) <= opts.limit

\* Nobody copies out of a frame the producer is still writing.
NoTornRead ==
  \A p \in Readers :
    ppc = "fill" /\ rpc[p] \in {"copy", "hold", "clear"} =>
      Cells(pl.off, FrameTotal(pl.msg.size))
        \cap Cells(rl[p].h, FrameTotal(rl[p].len)) = {}

\* The message count agrees with the ring whenever no call is in progress.
DepthSettles ==
  ppc = "idle" /\ (\A p \in Readers : rpc[p] \in {"idle", "hold"})
    => depth = Len(sent) - Len(out)

\* While a claim is out, the payload it lends to the consumer stays as it is:
\* emq_claim hands out a pointer into the ring, good until emq_release_claim.
ClaimStable ==
  [][rpc["cons"] = "hold" =>
       \A c \in Cells(rl["cons"].h + HdrCells, rl["cons"].len) : mem'[c] = mem[c]]_vars

\* The ring is a bounded FIFO channel of the messages pushed: the publication
\* of tail puts a message in, the advance of head takes the oldest out, and at
\* most as many are inside as smallest frames fit (in the largest of the
\* scenarios' rings; SpaceBound says it of each).
Channel == INSTANCE FifoChannel WITH
  Messages <- {Message(id, z) : id \in 1..MaxMsgs, z \in UNION {s.sizes : s \in Scenarios}},
  Bound <- Max({s.capacity \div FrameTotal(Min(s.sizes)) : s \in Scenarios}),
  chan  <- SubSeq(sent, Len(out) + 1, Len(sent)),
  taken <- out
ImplementsChannel == Channel!Spec

\* Whatever was reserved comes out, if the consumer keeps popping.
AllDelivered ==
  \A n \in 1..MaxMsgs : Len(sent) >= n ~> Len(out) >= n
=============================================================================
