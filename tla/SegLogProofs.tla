---------------------------- MODULE SegLogProofs -----------------------------
(***************************************************************************)
(* What the log promises holds for segments and records of any length, any *)
(* number of appends, crashes, headers and generations, and any policy:    *)
(* the index in memory is that of the files, no header names files that    *)
(* are not there, and no promised message is lost.                         *)
(***************************************************************************)
EXTENDS SegLog, Integers, FiniteSetTheorems, WellFoundedInduction, TLAPS

-----------------------------------------------------------------------------
\* Types.
Rec == [id : Ids, size : 1 .. SegCells, blob : Nat]
Cell == [rec : Rec, part : 1 .. SegCells]
Segment == [cells : Seq(Cell), synced : Nat]
BlobFile == [cells : Seq(Ids), synced : Nat]
Meta == [seq : Nat, gen : 0 .. MaxGen, base : Nat, trim : Nat]

GenOK(g) ==
    /\ g \in [segs : Seq(Segment), blob : BlobFile]
    /\ \A i \in DOMAIN g.segs : /\ Len(g.segs[i].cells) <= SegCells
                                /\ g.segs[i].synced <= Len(g.segs[i].cells)
    /\ g.blob.synced <= Len(g.blob.cells)

\* The records of a generation, and what the messages in them are.
Count(g) == Len(Walk(g)) - 1
Msg(g, k) == Payload(RecordAt(g, Walk(g)[k]), g.blob.cells)

\* Nothing lies behind the last record.
End(g) == <<Len(g.segs), Len(Last(g.segs).cells)>>
Clean(g) == EndOfLog(g) = End(g)
Lengths(g) == [i \in DOMAIN g.segs |-> Len(g.segs[i].cells)]

\* A record is on the medium with its blob; the first n records are.
Kept(g, at) ==
    /\ at[2] + RecordAt(g, at).size <= g.segs[at[1]].synced
    /\ RecordAt(g, at).blob <= g.blob.synced
OnMedium(g, n) == n <= Count(g) /\ \A k \in 1 .. n : Kept(g, Walk(g)[k])

\* If recovery loads header m and finds files g, it finds the past from the trim
\* point on, and of it at least what is safe, whatever a crash leaves of the files.
Survives(m, g, past, safe) ==
    /\ m \in Meta /\ m.base <= m.trim /\ m.trim <= Len(past)
    /\ IF g = Absent THEN m = NoMeta /\ past = <<>>
       ELSE /\ g.segs # <<>>
            /\ OnMedium(g, m.trim - m.base) /\ OnMedium(g, safe - m.base)
            /\ \A k \in 1 .. Count(g) :
                 m.trim < m.base + k /\ m.base + k <= Len(past) => Msg(g, k) = past[m.base + k]

\* The entries of the messages from one offset up to another.
EntryRec == [off : Nat, seg : Nat, pos : Nat, id : Ids]
Index(g, base, from, next) ==
    [k \in 1 .. next - from |-> Entry(g, Walk(g)[from - base + k], from + k - 1)]

\* The log as it is in memory.
LogRec == [gen : 0 .. MaxGen, base : Nat, trim : Nat, seq : Nat, next : Nat,
           entries : Seq(EntryRec), used : Seq(Nat)]
First(l) == IF l.entries = <<>> THEN l.next ELSE l.entries[1].off

\* It is the index of files g, in which the messages up to next are, and more.
Indexes(l, g, more) ==
    /\ g.segs # <<>> /\ Clean(g) /\ l.used = Lengths(g)
    /\ Count(g) = l.next - l.base + more
    /\ First(l) \in l.base .. l.next
    /\ l.entries = Index(g, l.base, First(l), l.next)

-----------------------------------------------------------------------------
\* The header.

\* A slot that the header of sequence s makes count for nothing.
Older(m, s) == m \in Meta /\ (m.seq < s \/ m = NoMeta)

\* Slot s % 2 holds the header of sequence s.
HeaderAt(sl, s) ==
    /\ sl = [i \in {0, 1} |-> sl[i]]
    /\ sl[s % 2] = Durable(sl[s % 2].val)
    /\ sl[s % 2].val \in Meta /\ sl[s % 2].val.seq = s
    /\ s = 0 => sl[s % 2].val = NoMeta

\* The other slot is older; or the next header is being written to it.
Quiet(sl, s) ==
    /\ HeaderAt(sl, s)
    /\ sl[(s + 1) % 2] = Durable(sl[(s + 1) % 2].val) /\ Older(sl[(s + 1) % 2].val, s)
Writing(sl, s) ==
    LET other == sl[(s + 1) % 2] IN
    /\ HeaderAt(sl, s)
    /\ other = [val |-> other.val, old |-> other.old, synced |-> FALSE]
    /\ Older(other.old, s) /\ other.val \in Meta /\ other.val.seq = s + 1

Pending == op.at \in {"commit", "switch"}
Mine == slots[log.seq % 2].val
Coming == slots[(log.seq + 1) % 2].val
Sound(m) == Survives(m, files[m.gen], hist, stable)

-----------------------------------------------------------------------------
\* The invariant.
TypeInv ==
    /\ fsync \in Policies /\ status \in {"down", "up"}
    /\ files = [g \in Gens |-> files[g]] /\ \A g \in Gens : GenOK(files[g])
    /\ ids \in 0 .. MaxAppends /\ downs \in 0 .. MaxDowns
    /\ hist \in Seq(Ids) /\ stable \in 0 .. Len(hist)
    /\ promised \subseteq (Nat \X Ids)
    /\ fsync = "every_write" => stable = Len(hist)

PromiseInv == \A p \in promised : p[1] < stable /\ hist[p[1] + 1] = p[2]

\* The header and files m, g that recovery would find hold the whole history.
Holds(m, g) ==
    /\ Survives(m, g, hist, stable)
    /\ g # Absent => m.base + Count(g) = Len(hist)
    /\ \A p \in promised : m.trim <= p[1]

DownInv ==
    /\ log = Closed /\ op = Idle
    /\ \E s \in Nat : Quiet(slots, s) /\ Holds(slots[s % 2].val, files[slots[s % 2].val.gen])

LogInv ==
    /\ log \in LogRec /\ log.next = Len(hist)
    /\ Indexes(log, Cur, IF op.at = "sync" THEN 1 ELSE 0)
    /\ \A p \in promised : First(log) <= p[1]

SlotInv ==
    /\ IF Pending THEN Writing(slots, log.seq) ELSE Quiet(slots, log.seq)
    /\ Mine.gen = log.gen /\ Mine.base = log.base /\ Mine.trim <= First(log) /\ Sound(Mine)
    /\ Pending => Coming.trim <= First(log) /\ Sound(Coming)

\* What the operation under way has done so far.
Writes ==
    /\ op = [at |-> "write", rec |-> op.rec] /\ op.rec \in Rec
    /\ op.rec.blob <= Len(Cur.blob.cells) /\ Payload(op.rec, Cur.blob.cells) = op.rec.id
Syncs ==
    /\ op = [at |-> "sync", rec |-> op.rec, seg |-> op.seg, pos |-> op.pos] /\ op.rec \in Rec
    /\ Walk(Cur)[Count(Cur)] = <<op.seg, op.pos>> /\ Msg(Cur, Count(Cur)) = op.rec.id
Commits ==
    /\ op = [at |-> "commit", snapshot |-> op.snapshot] /\ op.snapshot \in BOOLEAN
    /\ Coming.gen = log.gen /\ Coming.base = log.base
    /\ op.snapshot => OnMedium(Cur, log.next - log.base)

\* The copy of the first entries in the next generation, by its files and op.
Copied(new, locs, used) ==
    /\ new.segs # <<>> /\ Clean(new) /\ used = Lengths(new)
    /\ locs \in Seq([seg : Nat, pos : Nat]) /\ Len(locs) <= Len(log.entries)
    /\ Count(new) = Len(locs)
    /\ \A k \in 1 .. Len(locs) : /\ Walk(new)[k] = <<locs[k].seg, locs[k].pos>>
                                 /\ Msg(new, k) = log.entries[k].id
Copies ==
    /\ op = [at |-> op.at, locs |-> op.locs, used |-> op.used] /\ log.gen < MaxGen
    /\ Copied(files[log.gen + 1], op.locs, op.used)
Switches ==
    /\ Len(op.locs) = Len(log.entries)
    /\ Coming.gen = log.gen + 1 /\ Coming.base = First(log) /\ Coming.trim = First(log)
    /\ OnMedium(files[log.gen + 1], Len(op.locs))

OpInv ==
    \/ op = Idle
    \/ op = [at |-> "opened"] /\ log.trim = Mine.trim
    \/ op.at = "write" /\ Writes
    \/ op.at = "sync" /\ Syncs
    \/ op.at = "commit" /\ Commits
    \/ op.at = "copy" /\ Copies
    \/ op.at = "switch" /\ Copies /\ Switches
    \/ op = [at |-> "remove"] /\ log.gen > 0

UpInv == LogInv /\ SlotInv /\ OpInv

IInv ==
    /\ TypeInv /\ PromiseInv
    /\ status = "down" => DownInv
    /\ status = "up" => UpInv
-----------------------------------------------------------------------------
\* Induction.
LEMMA LeastElement ==
  ASSUME NEW T, T \subseteq Nat, T # {}
  PROVE  \E n \in T : \A m \in T : n <= m
<1>1. PICK n \in T : \A m \in T : <<m, n>> \notin OpToRel(<, Nat)
  BY NatLessThanWellFounded, WFMin
<1>2. \A m \in T : ~(m < n)
  BY <1>1 DEF OpToRel
<1> QED
  BY <1>2

\* Induction up to l, for a set in place of a predicate.
LEMMA Upwards ==
  ASSUME NEW l \in Nat, NEW Q, 0 \in Q, \A i \in 0 .. l - 1 : i \in Q => i + 1 \in Q
  PROVE  \A i \in 0 .. l : i \in Q
<1> SUFFICES ASSUME { n \in Nat : n <= l /\ n \notin Q } # {} PROVE FALSE
  OBVIOUS
<1>1. PICK n \in { m \in Nat : m <= l /\ m \notin Q } :
        \A m \in { k \in Nat : k <= l /\ k \notin Q } : n <= m
  BY LeastElement
<1>2. n # 0 /\ n - 1 \in 0 .. l - 1
  BY <1>1
<1>3. n - 1 \in Q
  BY <1>1, <1>2
<1> QED
  BY <1>1, <1>2, <1>3

-----------------------------------------------------------------------------
\* Places in the files of a generation.
Spots(g) == { at \in (1 .. Len(g.segs)) \X Nat : at[2] <= Len(g.segs[at[1]].cells) }

\* A segment holds at least one cell.
LEMMA Bounds == SegCells \in Nat /\ SegCells > 0 /\ SegCells + 1 \in Nat
  BY SegLogAssumption

\* A segment of a generation, as a record of its parts.
LEMMA SegOK ==
  ASSUME NEW g, GenOK(g), NEW i \in 1 .. Len(g.segs)
  PROVE  /\ g.segs[i] = [cells |-> g.segs[i].cells, synced |-> g.segs[i].synced]
         /\ g.segs[i].cells \in Seq(Cell) /\ g.segs[i].synced \in Nat
         /\ Len(g.segs[i].cells) \in Nat /\ Len(g.segs[i].cells) <= SegCells
         /\ g.segs[i].synced <= Len(g.segs[i].cells)
         /\ g.segs \in Seq(Segment) /\ Len(g.segs) \in Nat /\ i \in Nat /\ i >= 1
         /\ DOMAIN g.segs = 1 .. Len(g.segs)
<1>1. g.segs \in Seq(Segment) /\ i \in DOMAIN g.segs /\ DOMAIN g.segs = 1 .. Len(g.segs)
  BY DEF GenOK
<1>2. g.segs[i] \in Segment
  BY <1>1
<1> QED
  BY <1>1, <1>2 DEF GenOK, Segment

\* The blob file of a generation, likewise.
LEMMA BlobOK ==
  ASSUME NEW g, GenOK(g)
  PROVE  /\ g.blob = [cells |-> g.blob.cells, synced |-> g.blob.synced]
         /\ g.blob.cells \in Seq(Ids) /\ g.blob.synced \in Nat
         /\ Len(g.blob.cells) \in Nat /\ g.blob.synced <= Len(g.blob.cells)
         /\ g = [segs |-> g.segs, blob |-> g.blob]
BY DEF GenOK, BlobFile

\* Reading goes on at the next cell, if there is one.
LEMMA OnwardHere ==
  ASSUME NEW g, NEW at, at[2] < Len(g.segs[at[1]].cells)
  PROVE  Onward(g, at) = at
BY DEF Onward

\* Or in the next segment that is not empty.
LEMMA OnwardThere ==
  ASSUME NEW g, GenOK(g), NEW at, at[1] \in Nat, ~(at[2] < Len(g.segs[at[1]].cells)),
         NEW j \in 1 .. Len(g.segs), at[1] < j, Len(g.segs[j].cells) > 0,
         \A i \in 1 .. Len(g.segs) : at[1] < i /\ i < j => Len(g.segs[i].cells) = 0
  PROVE  Onward(g, at) = <<j, 0>>
<1> DEFINE rest == { i \in DOMAIN g.segs : i > at[1] /\ g.segs[i].cells # <<>> }
<1>1. DOMAIN g.segs = 1 .. Len(g.segs) /\ Len(g.segs) \in Nat
  BY SegOK
<1>2. \A i \in 1 .. Len(g.segs) : g.segs[i].cells # <<>> <=> Len(g.segs[i].cells) > 0
  <2> TAKE i \in 1 .. Len(g.segs)
  <2>1. g.segs[i].cells \in Seq(Cell)
    BY SegOK
  <2> QED
    BY <2>1
<1>3. j \in rest /\ \A i \in rest : j <= i
  BY <1>1, <1>2
<1>4. Min(rest) = j
  <2>1. Min(rest) = CHOOSE x \in rest : \A y \in rest : x <= y
    BY DEF Min
  <2>2. \A x \in rest : x \in Nat
    BY <1>1
  <2> HIDE DEF rest
  <2>3. \A x \in rest : (\A y \in rest : x <= y) => x = j
    BY <1>3, <2>2
  <2> QED
    BY <1>3, <2>1, <2>3
<1>5. Onward(g, at) = IF at[2] < Len(g.segs[at[1]].cells) THEN at
                      ELSE IF rest # {} THEN <<Min(rest), 0>>
                      ELSE <<Len(g.segs), Len(Last(g.segs).cells)>>
  BY DEF Onward
<1> HIDE DEF rest
<1> QED
  BY <1>3, <1>4, <1>5

\* Or nowhere.
LEMMA OnwardEnd ==
  ASSUME NEW g, GenOK(g), NEW at, at[1] \in Nat, ~(at[2] < Len(g.segs[at[1]].cells)),
         \A i \in 1 .. Len(g.segs) : at[1] < i => Len(g.segs[i].cells) = 0
  PROVE  Onward(g, at) = End(g)
<1> DEFINE rest == { i \in DOMAIN g.segs : i > at[1] /\ g.segs[i].cells # <<>> }
<1>1. rest = {}
  <2> SUFFICES ASSUME NEW i \in DOMAIN g.segs, i > at[1], g.segs[i].cells # <<>> PROVE FALSE
    OBVIOUS
  <2>1. i \in 1 .. Len(g.segs)
    BY DEF GenOK
  <2>2. g.segs[i].cells \in Seq(Cell) /\ i \in Nat
    BY <2>1, SegOK
  <2>3. Len(g.segs[i].cells) = 0
    BY <2>1, <2>2
  <2> QED
    BY <2>2, <2>3
<1>2. Onward(g, at) = IF at[2] < Len(g.segs[at[1]].cells) THEN at
                      ELSE IF rest # {} THEN <<Min(rest), 0>>
                      ELSE <<Len(g.segs), Len(Last(g.segs).cells)>>
  BY DEF Onward
<1> QED
  BY <1>1, <1>2 DEF End

\* There is no fourth way.
LEMMA OnwardWays ==
  ASSUME NEW g, GenOK(g), g.segs # <<>>, NEW at \in Spots(g)
  PROVE  \/ at[2] < Len(g.segs[at[1]].cells) /\ Onward(g, at) = at
         \/ /\ ~(at[2] < Len(g.segs[at[1]].cells))
            /\ \E j \in 1 .. Len(g.segs) :
                 /\ at[1] < j /\ Len(g.segs[j].cells) > 0
                 /\ \A i \in 1 .. Len(g.segs) : at[1] < i /\ i < j => Len(g.segs[i].cells) = 0
                 /\ Onward(g, at) = <<j, 0>>
         \/ /\ ~(at[2] < Len(g.segs[at[1]].cells))
            /\ \A i \in 1 .. Len(g.segs) : at[1] < i => Len(g.segs[i].cells) = 0
            /\ Onward(g, at) = End(g)
<1>1. CASE at[2] < Len(g.segs[at[1]].cells)
  BY <1>1, OnwardHere
<1>0. at[1] \in 1 .. Len(g.segs) /\ at[1] \in Nat
  BY DEF Spots
<1>2. CASE /\ ~(at[2] < Len(g.segs[at[1]].cells))
           /\ \A i \in 1 .. Len(g.segs) : at[1] < i => Len(g.segs[i].cells) = 0
  BY <1>0, <1>2, OnwardEnd
<1>3. CASE /\ ~(at[2] < Len(g.segs[at[1]].cells))
           /\ \E i \in 1 .. Len(g.segs) : at[1] < i /\ Len(g.segs[i].cells) # 0
  <2> DEFINE T == { i \in 1 .. Len(g.segs) : at[1] < i /\ Len(g.segs[i].cells) # 0 }
  <2>1. T \subseteq Nat /\ T # {}
    BY <1>3
  <2>2. PICK j \in T : \A i \in T : j <= i
    BY <2>1, LeastElement
  <2>3. j \in 1 .. Len(g.segs) /\ at[1] < j /\ Len(g.segs[j].cells) # 0
    BY <2>2
  <2>4. Len(g.segs[j].cells) > 0
    <3>1. Len(g.segs[j].cells) \in Nat
      BY <2>3, SegOK
    <3> QED
      BY <2>3, <3>1
  <2>5. \A i \in 1 .. Len(g.segs) : at[1] < i /\ i < j => Len(g.segs[i].cells) = 0
    BY <2>2
  <2>6. Onward(g, at) = <<j, 0>>
    BY <1>0, <1>3, <2>3, <2>4, <2>5, OnwardThere
  <2> QED
    BY <1>3, <2>3, <2>4, <2>5, <2>6
<1> QED
  BY <1>1, <1>2, <1>3

\* The end of the files is a place in them.
LEMMA EndIn ==
  ASSUME NEW g, GenOK(g), g.segs # <<>>
  PROVE  /\ End(g) \in Spots(g) /\ End(g)[1] = Len(g.segs) /\ Len(g.segs) \in 1 .. Len(g.segs)
         /\ End(g)[2] = Len(g.segs[Len(g.segs)].cells)
<1>1. g.segs \in Seq(Segment) /\ Len(g.segs) \in 1 .. Len(g.segs)
  BY DEF GenOK
<1>2. Last(g.segs) = g.segs[Len(g.segs)]
  BY DEF Last
<1>3. Len(g.segs[Len(g.segs)].cells) \in Nat
  BY <1>1, SegOK
<1> QED
  BY <1>1, <1>2, <1>3 DEF End, Spots

\* Reading on leads to a place.
LEMMA OnwardIn ==
  ASSUME NEW g, GenOK(g), g.segs # <<>>, NEW at \in Spots(g)
  PROVE  Onward(g, at) \in Spots(g)
<1>1. CASE Onward(g, at) = at
  BY <1>1
<1>2. CASE Onward(g, at) = End(g)
  BY <1>2, EndIn
<1>3. ASSUME NEW j \in 1 .. Len(g.segs), Onward(g, at) = <<j, 0>> PROVE Onward(g, at) \in Spots(g)
  <2>1. Len(g.segs[j].cells) \in Nat
    BY SegOK
  <2> QED
    BY <1>3, <2>1 DEF Spots
<1> QED
  BY <1>1, <1>2, <1>3, OnwardWays

-----------------------------------------------------------------------------
\* Records.
LEMMA RecordIn ==
  ASSUME NEW g, GenOK(g), NEW at \in Spots(g), at[2] < Len(g.segs[at[1]].cells)
  PROVE  /\ RecordAt(g, at) \in Rec /\ RecordAt(g, at).size \in Nat /\ RecordAt(g, at).size > 0
         /\ RecordAt(g, at).blob \in Nat /\ RecordAt(g, at).id \in Ids
         /\ at[1] \in 1 .. Len(g.segs) /\ at[2] \in Nat /\ at[1] \in Nat
<1>1. at[1] \in 1 .. Len(g.segs) /\ at[2] \in Nat /\ at[1] \in Nat
  BY DEF Spots
<1>2. g.segs[at[1]].cells \in Seq(Cell) /\ at[2] + 1 \in 1 .. Len(g.segs[at[1]].cells)
  <2>1. g.segs[at[1]].cells \in Seq(Cell) /\ Len(g.segs[at[1]].cells) \in Nat
    BY <1>1, SegOK
  <2> QED
    BY SMTT(30), <1>1, <2>1
<1>3. g.segs[at[1]].cells[at[2] + 1] \in Cell
  BY <1>2
<1>4. RecordAt(g, at) \in Rec
  BY <1>3 DEF RecordAt, Cell
<1> QED
  BY <1>1, <1>4 DEF Rec

\* When the cells behind a position are those of a record, cell by cell.
LEMMA CellsAre ==
  ASSUME NEW cells \in Seq(Cell), NEW pos \in Nat, NEW r \in Rec, pos + r.size <= Len(cells)
  PROVE  SubSeq(cells, pos + 1, pos + r.size) = CellsOf(r) <=>
           \A j \in 1 .. r.size : cells[pos + j] = [rec |-> r, part |-> j]
<1> DEFINE n == r.size
<1>1. n \in Nat /\ n > 0
  BY DEF Rec
<1>2. SubSeq(cells, pos + 1, pos + n) = [j \in 1 .. n |-> cells[pos + j]]
  <2>1. SubSeq(cells, pos + 1, pos + n) \in Seq(Cell) /\ Len(SubSeq(cells, pos + 1, pos + n)) = n
    BY <1>1
  <2>2. \A j \in 1 .. n : SubSeq(cells, pos + 1, pos + n)[j] = cells[pos + j]
    BY <1>1
  <2> QED
    BY <2>1, <2>2
<1>3. CellsOf(r) = [j \in 1 .. n |-> [rec |-> r, part |-> j]]
  BY DEF CellsOf
<1> HIDE DEF n
<1>4. SubSeq(cells, pos + 1, pos + n) = CellsOf(r) <=>
        \A j \in 1 .. n : cells[pos + j] = [rec |-> r, part |-> j]
  BY ZenonT(40), <1>2, <1>3
<1> QED
  BY <1>4 DEF n

\* When a record stands at a place, cell by cell.
LEMMA DecodesIs ==
  ASSUME NEW g, GenOK(g), NEW at \in Spots(g)
  PROVE  Decodes(g, at) <=>
           /\ at[2] < Len(g.segs[at[1]].cells)
           /\ at[2] + RecordAt(g, at).size <= Len(g.segs[at[1]].cells)
           /\ \A j \in 1 .. RecordAt(g, at).size :
                g.segs[at[1]].cells[at[2] + j] = [rec |-> RecordAt(g, at), part |-> j]
           /\ RecordAt(g, at).blob <= Len(g.blob.cells)
<1>1. CASE at[2] < Len(g.segs[at[1]].cells) /\ at[2] + RecordAt(g, at).size <= Len(g.segs[at[1]].cells)
  <2>1. /\ RecordAt(g, at) \in Rec /\ at[2] \in Nat /\ g.segs[at[1]].cells \in Seq(Cell)
    BY <1>1, RecordIn, SegOK
  <2> DEFINE cells == g.segs[at[1]].cells
             pos == at[2]
             r == RecordAt(g, at)
  <2>2. SubSeq(cells, pos + 1, pos + r.size) = CellsOf(r) <=>
           \A j \in 1 .. r.size : cells[pos + j] = [rec |-> r, part |-> j]
    <3>1. cells \in Seq(Cell) /\ pos \in Nat /\ r \in Rec /\ pos + r.size <= Len(cells)
      BY <1>1, <2>1
    <3> HIDE DEF cells, pos, r
    <3> QED
      BY <3>1, CellsAre
  <2> QED
    BY <1>1, <2>2 DEF Decodes
<1>2. CASE ~(at[2] < Len(g.segs[at[1]].cells) /\ at[2] + RecordAt(g, at).size <= Len(g.segs[at[1]].cells))
  BY <1>2 DEF Decodes
<1> QED
  BY <1>1, <1>2

\* A record that decodes has its types and ends inside its segment.
LEMMA DecodesIn ==
  ASSUME NEW g, GenOK(g), NEW at \in Spots(g), Decodes(g, at)
  PROVE  /\ RecordAt(g, at) \in Rec /\ RecordAt(g, at).size \in Nat /\ RecordAt(g, at).size > 0
         /\ RecordAt(g, at).blob \in Nat /\ RecordAt(g, at).id \in Ids
         /\ RecordAt(g, at).blob <= Len(g.blob.cells)
         /\ at[1] \in 1 .. Len(g.segs) /\ at[2] \in Nat /\ at[1] \in Nat
         /\ at[2] < Len(g.segs[at[1]].cells)
         /\ at[2] + RecordAt(g, at).size <= Len(g.segs[at[1]].cells)
         /\ After(g, at) \in Spots(g) /\ After(g, at)[1] = at[1]
         /\ After(g, at)[2] = at[2] + RecordAt(g, at).size
         /\ Payload(RecordAt(g, at), g.blob.cells) \in Ids
<1>1. /\ at[2] < Len(g.segs[at[1]].cells)
      /\ at[2] + RecordAt(g, at).size <= Len(g.segs[at[1]].cells)
      /\ RecordAt(g, at).blob <= Len(g.blob.cells)
  BY DecodesIs
<1>2. /\ RecordAt(g, at) \in Rec /\ RecordAt(g, at).size \in Nat /\ RecordAt(g, at).size > 0
      /\ RecordAt(g, at).blob \in Nat /\ RecordAt(g, at).id \in Ids
      /\ at[1] \in 1 .. Len(g.segs) /\ at[2] \in Nat /\ at[1] \in Nat
  BY <1>1, RecordIn
<1>3. /\ After(g, at) \in Spots(g) /\ After(g, at)[1] = at[1]
      /\ After(g, at)[2] = at[2] + RecordAt(g, at).size
  BY <1>1, <1>2 DEF After, Spots
<1>4. Payload(RecordAt(g, at), g.blob.cells) \in Ids
  <2>1. g.blob.cells \in Seq(Ids)
    BY BlobOK
  <2> QED
    BY <1>1, <1>2, <2>1 DEF Payload
<1> QED
  BY <1>1, <1>2, <1>3, <1>4

-----------------------------------------------------------------------------
\* The walk of recovery.
Start(g, p, k) == IF k = 1 THEN <<1, 0>> ELSE After(g, p[k - 1])

Path(g, p) ==
    /\ p \in Seq(Spots(g)) /\ Len(p) >= 1
    /\ \A k \in 1 .. Len(p) : p[k] = Onward(g, Start(g, p, k))
    /\ \A k \in 1 .. Len(p) - 1 : Decodes(g, p[k])

\* Reading begins at a place.
LEMMA FirstIn ==
  ASSUME NEW g, GenOK(g), g.segs # <<>>
  PROVE  <<1, 0>> \in Spots(g)
<1>1. 1 \in 1 .. Len(g.segs)
  BY DEF GenOK
<1>2. Len(g.segs[1].cells) \in Nat
  BY <1>1, SegOK
<1> QED
  BY <1>1, <1>2 DEF Spots

\* The places of a path are places of the generation.
LEMMA PathIn ==
  ASSUME NEW g, GenOK(g), g.segs # <<>>, NEW p, Path(g, p), NEW k \in 1 .. Len(p)
  PROVE  /\ p[k] \in Spots(g) /\ Start(g, p, k) \in Spots(g) /\ p[k] = Onward(g, Start(g, p, k))
         /\ Len(p) \in Nat
<1>1. p[k] \in Spots(g) /\ Len(p) \in Nat
  BY DEF Path
<1>2. CASE k = 1
  BY <1>1, <1>2, FirstIn DEF Path, Start
<1>3. CASE k # 1
  <2>1. k - 1 \in 1 .. Len(p) - 1 /\ k - 1 \in 1 .. Len(p)
    BY <1>1, <1>3
  <2>2. Decodes(g, p[k - 1]) /\ p[k - 1] \in Spots(g)
    BY <2>1 DEF Path
  <2>3. After(g, p[k - 1]) \in Spots(g)
    BY <2>2, DecodesIn
  <2> QED
    BY <1>1, <1>3, <2>3 DEF Path, Start
<1> QED
  BY <1>2, <1>3

\* The walk goes forward: its n-th place has at least n - 1 places before it.
Rank(at) == (at[1] - 1) * (SegCells + 1) + at[2]

\* A place has a rank, of which there are finitely many.
LEMMA RankIn ==
  ASSUME NEW g, GenOK(g), NEW at \in Spots(g)
  PROVE  Rank(at) \in Nat /\ Rank(at) < Len(g.segs) * (SegCells + 1)
<1>1. /\ at[1] \in 1 .. Len(g.segs) /\ at[2] \in Nat /\ at[2] <= SegCells /\ Len(g.segs) \in Nat
  <2>1. at[1] \in 1 .. Len(g.segs) /\ at[2] \in Nat /\ at[2] <= Len(g.segs[at[1]].cells)
    BY DEF Spots
  <2>2. Len(g.segs[at[1]].cells) \in Nat /\ Len(g.segs[at[1]].cells) <= SegCells
    BY <2>1, SegOK
  <2> QED
    BY <2>1, <2>2, Bounds, SegOK
<1>2. PICK a \in Nat : a = at[1] - 1
  BY <1>1
<1>6. PICK b \in Nat : b = at[2]
  BY <1>1
<1>7. PICK c \in Nat : c = SegCells + 1
  BY Bounds
<1>8. PICK n \in Nat : n = Len(g.segs)
  BY <1>1
<1>3. a <= n - 1 /\ b < c
  BY <1>1, <1>2, <1>6, <1>7, <1>8, Bounds
<1>4. a * c + b < n * c /\ a * c + b \in Nat
  <2>1. PICK d \in Nat : n = a + d + 1
    <3>1. n - 1 - a \in Nat
      BY <1>3
    <3> QED
      BY <3>1
  <2>2. n * c = a * c + d * c + c /\ d * c \in Nat /\ a * c \in Nat
    BY <2>1
  <2> QED
    BY <1>3, <2>2
<1> QED
  BY <1>2, <1>4, <1>6, <1>7, <1>8 DEF Rank

\* Past a record the rank grows.
LEMMA RankGrows ==
  ASSUME NEW g, GenOK(g), g.segs # <<>>, NEW at \in Spots(g), Decodes(g, at)
  PROVE  Rank(at) + 1 <= Rank(Onward(g, After(g, at)))
<1> DEFINE from == After(g, at)
<1>1. from \in Spots(g) /\ from[1] = at[1] /\ from[2] >= at[2] + 1 /\ at[2] \in Nat /\ from[2] \in Nat
      /\ at[1] \in Nat /\ at[1] >= 1 /\ from[2] <= SegCells
  <2>1. /\ from \in Spots(g) /\ from[1] = at[1] /\ from[2] = at[2] + RecordAt(g, at).size
        /\ at[1] \in 1 .. Len(g.segs) /\ at[2] \in Nat /\ RecordAt(g, at).size \in Nat
        /\ RecordAt(g, at).size > 0 /\ at[1] \in Nat
        /\ at[2] + RecordAt(g, at).size <= Len(g.segs[at[1]].cells)
    BY DecodesIn
  <2>2. Len(g.segs[at[1]].cells) \in Nat /\ Len(g.segs[at[1]].cells) <= SegCells
    BY <2>1, SegOK
  <2> HIDE DEF from
  <2> QED
    BY SMTT(30), <2>1, <2>2, Bounds
<1> HIDE DEF from
<1>2. ASSUME NEW q \in Spots(g),
             (q[1] = from[1] /\ q[2] >= from[2]) \/ q[1] > from[1]
      PROVE  Rank(at) + 1 <= Rank(q)
  <2>1. q[1] \in Nat /\ q[2] \in Nat
    BY <1>2 DEF Spots
  <2>10. PICK a \in Nat : a = at[1] - 1
    BY <1>1
  <2>11. PICK b \in Nat : b = at[2]
    BY <1>1
  <2>12. PICK c \in Nat : c = SegCells + 1
    BY Bounds
  <2>13. PICK x \in Nat : x = q[1] - 1
    BY <1>1, <1>2, <2>1
  <2>14. PICK y \in Nat : y = q[2]
    BY <2>1
  <2>2. Rank(at) = a * c + b /\ Rank(q) = x * c + y
    BY <2>10, <2>11, <2>12, <2>13, <2>14 DEF Rank
  <2>15. b + 1 <= c /\ ((x = a /\ y >= b + 1) \/ x > a)
    <3>1. b + 1 <= c
      BY <1>1, <2>11, <2>12, Bounds
    <3>2. CASE q[1] = from[1] /\ q[2] >= from[2]
      BY <1>1, <3>1, <3>2, <2>10, <2>11, <2>13, <2>14
    <3>3. CASE q[1] > from[1]
      BY <1>1, <3>1, <3>3, <2>1, <2>10, <2>13
    <3> QED
      BY <1>2, <3>2, <3>3
  <2>3. CASE x = a /\ y >= b + 1
    <3>1. a * c \in Nat
      OBVIOUS
    <3> QED
      BY <2>2, <2>3, <3>1
  <2>4. CASE x > a /\ b + 1 <= c
    <3>1. PICK d \in Nat : x = a + d + 1
      <4>1. x - a - 1 \in Nat
        BY <2>4
      <4> QED
        BY <4>1
    <3>2. x * c = a * c + d * c + c /\ d * c \in Nat /\ a * c \in Nat
      BY <3>1
    <3>3. a * c + b + 1 <= x * c + y
      BY <2>4, <3>2
    <3> QED
      BY <2>2, <3>3
  <2> QED
    BY <2>3, <2>4, <2>15
<1>3. ASSUME Onward(g, from) = from PROVE Rank(at) + 1 <= Rank(Onward(g, from))
  <2>1. from \in Spots(g) /\ (from[1] = from[1] /\ from[2] >= from[2])
    BY <1>1
  <2>2. Rank(at) + 1 <= Rank(from)
    BY <1>2, <2>1
  <2> QED
    BY <1>3, <2>2
<1>4. ASSUME NEW j \in 1 .. Len(g.segs), from[1] < j, Onward(g, from) = <<j, 0>>
      PROVE  Rank(at) + 1 <= Rank(Onward(g, from))
  <2>1. <<j, 0>> \in Spots(g) /\ <<j, 0>>[1] = j
    BY <1>1, <1>4, OnwardIn
  <2> QED
    BY <1>1, <1>2, <1>4, <2>1, SegOK
<1>5. ASSUME ~(from[2] < Len(g.segs[from[1]].cells)), Onward(g, from) = End(g)
      PROVE  Rank(at) + 1 <= Rank(Onward(g, from))
  <2>1. /\ End(g) \in Spots(g) /\ End(g)[1] = Len(g.segs) /\ Len(g.segs) \in 1 .. Len(g.segs)
        /\ End(g)[2] = Len(g.segs[Len(g.segs)].cells)
    BY EndIn
  <2>2. from[1] \in 1 .. Len(g.segs) /\ from[2] <= Len(g.segs[from[1]].cells)
    BY <1>1 DEF Spots
  <2>3. from[1] = Len(g.segs) => End(g)[2] >= from[2]
    BY <2>1, <2>2, <1>1, SegOK
  <2>4. (End(g)[1] = from[1] /\ End(g)[2] >= from[2]) \/ End(g)[1] > from[1]
    BY <2>1, <2>2, <2>3
  <2> QED
    BY <1>2, <1>5, <2>1, <2>4
<1>6. Rank(at) + 1 <= Rank(Onward(g, from))
  <2>1. \/ Onward(g, from) = from
        \/ \E j \in 1 .. Len(g.segs) : from[1] < j /\ Onward(g, from) = <<j, 0>>
        \/ ~(from[2] < Len(g.segs[from[1]].cells)) /\ Onward(g, from) = End(g)
    BY <1>1, OnwardWays
  <2> QED
    BY <1>3, <1>4, <1>5, <2>1
<1> QED
  BY <1>6 DEF from

\* The bound of a walk is a number.
LEMMA MostIn ==
  ASSUME NEW g, GenOK(g)
  PROVE  Len(g.segs) * (SegCells + 1) \in Nat
<1>1. PICK n \in Nat : n = Len(g.segs)
  BY DEF GenOK
<1>2. PICK c \in Nat : c = SegCells + 1
  BY Bounds
<1>3. n * c \in Nat
  OBVIOUS
<1> QED
  BY <1>1, <1>2, <1>3

\* The first place read is a path.
LEMMA PathFirst ==
  ASSUME NEW g, GenOK(g), g.segs # <<>>
  PROVE  Path(g, <<Onward(g, <<1, 0>>)>>)
<1> DEFINE p == <<Onward(g, <<1, 0>>)>>
<1>1. Onward(g, <<1, 0>>) \in Spots(g)
  BY FirstIn, OnwardIn
<1>2. p \in Seq(Spots(g)) /\ Len(p) = 1 /\ p[1] = Onward(g, <<1, 0>>)
  BY <1>1
<1>3. Start(g, p, 1) = <<1, 0>>
  BY DEF Start
<1> HIDE DEF p
<1> QED
  <2>1. \A k \in 1 .. Len(p) : k = 1
    BY <1>2
  <2>2. \A k \in 1 .. Len(p) : p[k] = Onward(g, Start(g, p, k))
    BY <1>2, <1>3, <2>1
  <2>3. \A k \in 1 .. Len(p) - 1 : Decodes(g, p[k])
    BY <1>2
  <2>4. Path(g, p)
    BY <1>2, <2>2, <2>3 DEF Path
  <2> QED
    BY <2>4 DEF p

\* A path goes on from its last record.
LEMMA PathOn ==
  ASSUME NEW g, GenOK(g), g.segs # <<>>, NEW p, Path(g, p), Decodes(g, p[Len(p)])
  PROVE  Path(g, Append(p, Onward(g, After(g, p[Len(p)]))))
<1> DEFINE n == Len(p)
           q == Onward(g, After(g, p[n]))
           r == Append(p, q)
<1>1. p \in Seq(Spots(g)) /\ n \in Nat /\ n >= 1 /\ n \in 1 .. n
  BY DEF Path
<1>2. p[n] \in Spots(g)
  BY <1>1
<1>3. q \in Spots(g)
  BY <1>2, DecodesIn, OnwardIn
<1> HIDE DEF q
<1>4. /\ r \in Seq(Spots(g)) /\ Len(r) = n + 1 /\ r[n + 1] = q
      /\ \A k \in 1 .. n : r[k] = p[k]
  BY <1>1, <1>3
<1> HIDE DEF n, r
<1>5. \A k \in 1 .. n : p[k] = Onward(g, Start(g, p, k))
  BY DEF Path, n
<1>6. ASSUME NEW k \in 1 .. n + 1 PROVE r[k] = Onward(g, Start(g, r, k))
  <2>1. CASE k = n + 1
    <3>1. Start(g, r, k) = After(g, p[n])
      BY <1>1, <1>4, <2>1 DEF Start
    <3> QED
      BY <1>4, <2>1, <3>1 DEF q
  <2>2. CASE k # n + 1
    <3>1. k \in 1 .. n
      BY <1>1, <2>2
    <3>2. k # 1 => k - 1 \in 1 .. n
      BY <1>1, <3>1
    <3>3. Start(g, r, k) = Start(g, p, k)
      BY <1>4, <3>2 DEF Start
    <3> QED
      BY <1>4, <1>5, <3>1, <3>3
  <2> QED
    BY <2>1, <2>2
<1>7. ASSUME NEW k \in 1 .. n PROVE Decodes(g, r[k])
  <2>1. CASE k = n
    BY <1>4, <2>1 DEF n
  <2>2. CASE k # n
    <3>1. k \in 1 .. n - 1
      BY <1>1, <2>2
    <3> QED
      BY <1>4, <3>1 DEF Path, n
  <2> QED
    BY <2>1, <2>2
<1>8. Path(g, r)
  <2>1. Len(r) >= 1 /\ Len(r) - 1 = n
    BY <1>1, <1>4
  <2> QED
    BY <1>4, <1>6, <1>7, <2>1 DEF Path
<1> QED
  BY <1>8 DEF r, q, n

\* A walk is what reading on as often as there are places makes of the first.
LEMMA WalkReads ==
  ASSUME NEW g, GenOK(g)
  PROVE  \E f : /\ f[0] = <<Onward(g, <<1, 0>>)>>
                /\ \A n \in 1 .. Len(g.segs) * (SegCells + 1) : f[n] = ReadOn(g, f[n - 1])
                /\ Walk(g) = f[Len(g.segs) * (SegCells + 1)]
<1> DEFINE most == Len(g.segs) * (SegCells + 1)
           first == <<Onward(g, <<1, 0>>)>>
           Reads(f, n) == f = [i \in 0 .. n |-> IF i = 0 THEN first ELSE ReadOn(g, f[i - 1])]
           Q == { n \in Nat : \E f : Reads(f, n) }
<1>1. most \in Nat
  BY MostIn
<1> HIDE DEF most, first
<1>2. 0 \in Q
  <2>1. Reads([i \in 0 .. 0 |-> first], 0)
    OBVIOUS
  <2> QED
    BY <2>1
<1>3. ASSUME NEW n \in Nat, n \in Q PROVE n + 1 \in Q
  <2>1. PICK f : Reads(f, n)
    BY <1>3
  <2> DEFINE h == [i \in 0 .. n + 1 |-> IF i <= n THEN f[i] ELSE ReadOn(g, f[n])]
  <2>2. /\ h = [i \in 0 .. n + 1 |-> h[i]]
        /\ \A i \in 0 .. n : h[i] = f[i]
        /\ h[n + 1] = ReadOn(g, f[n])
    OBVIOUS
  <2> HIDE DEF h
  <2>3. ASSUME NEW i \in 0 .. n + 1 PROVE h[i] = IF i = 0 THEN first ELSE ReadOn(g, h[i - 1])
    <3>1. CASE i = n + 1
      <4>1. i - 1 = n /\ n \in 0 .. n /\ i # 0
        BY <3>1
      <4> QED
        BY <2>2, <3>1, <4>1
    <3>2. CASE i # n + 1
      <4>1. i \in 0 .. n /\ (i # 0 => i - 1 \in 0 .. n)
        BY <3>2
      <4>2. f[i] = IF i = 0 THEN first ELSE ReadOn(g, f[i - 1])
        BY <2>1, <4>1
      <4> QED
        BY <2>2, <4>1, <4>2
    <3> QED
      BY <3>1, <3>2
  <2>4. Reads(h, n + 1)
    BY <2>2, <2>3
  <2> QED
    BY <2>4
<1> HIDE DEF Q
<1>4. most \in Q
  <2>1. \A i \in 0 .. most - 1 : i \in Q => i + 1 \in Q
    BY <1>1, <1>3
  <2>2. \A i \in 0 .. most : i \in Q
    BY <1>1, <1>2, <2>1, Upwards
  <2> QED
    BY <1>1, <2>2
<1>5. \E f : f = [i \in 0 .. most |-> IF i = 0 THEN first ELSE ReadOn(g, f[i - 1])]
  BY <1>4 DEF Q
<1> DEFINE read[n \in 0 .. most] == IF n = 0 THEN first ELSE ReadOn(g, read[n - 1])
<1>6. Walk(g) = read[most]
  BY DEF Walk, most, first
<1>7. read = [n \in 0 .. most |-> IF n = 0 THEN first ELSE ReadOn(g, read[n - 1])]
  BY <1>5
<1> HIDE DEF read
<1>8. read[0] = first /\ \A n \in 1 .. most : read[n] = ReadOn(g, read[n - 1])
  <2>1. 0 \in 0 .. most /\ \A n \in 1 .. most : n \in 0 .. most /\ n # 0
    BY <1>1
  <2> QED
    BY <1>7, <2>1
<1> QED
  BY <1>6, <1>8 DEF first, most

\* It reads to the end.
LEMMA WalkIs ==
  ASSUME NEW g, GenOK(g), g.segs # <<>>
  PROVE  Path(g, Walk(g)) /\ ~Decodes(g, Walk(g)[Len(Walk(g))])
<1> DEFINE most == Len(g.segs) * (SegCells + 1)
<1>1. most \in Nat
  BY MostIn
<1>2. PICK f : /\ f[0] = <<Onward(g, <<1, 0>>)>>
               /\ \A n \in 1 .. most : f[n] = ReadOn(g, f[n - 1])
               /\ Walk(g) = f[most]
  BY WalkReads
<1>9. \A at \in Spots(g) : Rank(at) \in Nat /\ Rank(at) < most
  BY RankIn
<1> HIDE DEF most
<1> DEFINE end(n) == f[n][Len(f[n])]
           Q == { n \in Nat : Path(g, f[n]) /\ (Decodes(g, end(n)) => Rank(end(n)) >= n) }
<1>3. ASSUME NEW n, Path(g, f[n]) PROVE end(n) \in Spots(g) /\ Rank(end(n)) \in Nat
  <2>1. f[n] \in Seq(Spots(g)) /\ Len(f[n]) \in 1 .. Len(f[n])
    BY <1>3 DEF Path
  <2>2. end(n) \in Spots(g)
    BY <2>1
  <2> QED
    BY <1>9, <2>2
<1>4. 0 \in Q
  <2>1. Path(g, f[0])
    BY <1>2, PathFirst
  <2> QED
    BY <1>3, <2>1
<1>5. ASSUME NEW n \in 0 .. most - 1, n \in Q PROVE n + 1 \in Q
  <2>1. f[n + 1] = ReadOn(g, f[n])
    <3>1. n + 1 \in 1 .. most /\ (n + 1) - 1 = n
      BY <1>1
    <3> QED
      BY <1>2, <3>1
  <2>2. Path(g, f[n]) /\ (Decodes(g, end(n)) => Rank(end(n)) >= n) /\ n \in Nat
    BY <1>5
  <2>3. Last(f[n]) = end(n)
    BY DEF Last
  <2>4. CASE Decodes(g, end(n))
    <3> DEFINE q == Onward(g, After(g, end(n)))
    <3>1. f[n + 1] = Append(f[n], q)
      BY <2>1, <2>3, <2>4 DEF ReadOn
    <3>2. Path(g, f[n + 1])
      BY <2>2, <2>4, <3>1, PathOn
    <3>3. f[n] \in Seq(Spots(g))
      BY <2>2 DEF Path
    <3>4. end(n + 1) = q
      BY <3>1, <3>3
    <3>5. end(n) \in Spots(g) /\ Rank(end(n)) \in Nat
      BY <1>3, <2>2
    <3>6. Rank(end(n)) + 1 <= Rank(q)
      BY <2>4, <3>5, RankGrows
    <3>7. Rank(end(n + 1)) \in Nat
      BY <1>3, <3>2
    <3>8. Rank(end(n + 1)) >= n + 1
      <4> HIDE DEF q
      <4> QED
        BY <2>2, <2>4, <3>4, <3>5, <3>6, <3>7
    <3> QED
      BY <2>2, <3>2, <3>8
  <2>5. CASE ~Decodes(g, end(n))
    <3>1. f[n + 1] = f[n]
      BY <2>1, <2>3, <2>5 DEF ReadOn
    <3> QED
      BY <2>2, <2>5, <3>1
  <2> QED
    BY <2>4, <2>5
<1> HIDE DEF Q
<1>6. most \in Q
  <2>1. \A i \in 0 .. most : i \in Q
    BY <1>1, <1>4, <1>5, Upwards
  <2> QED
    BY <1>1, <2>1
<1>7. Path(g, f[most]) /\ (Decodes(g, end(most)) => Rank(end(most)) >= most)
  BY <1>6 DEF Q
<1>8. ~Decodes(g, end(most))
  <2>1. end(most) \in Spots(g)
    BY <1>3, <1>7
  <2>2. Rank(end(most)) \in Nat /\ Rank(end(most)) < most
    BY <1>9, <2>1
  <2> QED
    BY <1>1, <1>7, <2>2
<1> QED
  BY <1>2, <1>7, <1>8

\* There is one path.
LEMMA PathsAgree ==
  ASSUME NEW g, GenOK(g), NEW p, NEW q, Path(g, p), Path(g, q),
         NEW k \in 1 .. Len(p), k <= Len(q)
  PROVE  p[k] = q[k]
<1> DEFINE Q == { n \in Nat : n + 1 <= Len(p) /\ n + 1 <= Len(q) => p[n + 1] = q[n + 1] }
<1>1. Len(p) \in Nat /\ Len(q) \in Nat /\ Len(p) >= 1 /\ Len(q) >= 1
  BY DEF Path
<1>2. 0 \in Q
  <2>1. p[1] = Onward(g, Start(g, p, 1)) /\ q[1] = Onward(g, Start(g, q, 1))
    BY <1>1 DEF Path
  <2>2. Start(g, p, 1) = Start(g, q, 1)
    BY DEF Start
  <2> QED
    BY <2>1, <2>2
<1>3. ASSUME NEW n \in Nat, n \in Q PROVE n + 1 \in Q
  <2> SUFFICES ASSUME n + 2 <= Len(p), n + 2 <= Len(q) PROVE p[n + 2] = q[n + 2]
    BY <1>1
  <2>1. p[n + 1] = q[n + 1]
    BY <1>1, <1>3
  <2>2. n + 2 \in 1 .. Len(p) /\ n + 2 \in 1 .. Len(q) /\ (n + 2) - 1 = n + 1 /\ n + 2 # 1
    BY <1>1
  <2>3. p[n + 2] = Onward(g, Start(g, p, n + 2)) /\ q[n + 2] = Onward(g, Start(g, q, n + 2))
    BY <2>2 DEF Path
  <2>4. Start(g, p, n + 2) = Start(g, q, n + 2)
    BY <2>1, <2>2 DEF Start
  <2> QED
    BY <2>3, <2>4
<1> HIDE DEF Q
<1>4. k - 1 \in Q
  <2>1. \A i \in 0 .. k - 1 - 1 : i \in Q => i + 1 \in Q
    BY <1>3
  <2>3. k - 1 \in Nat
    OBVIOUS
  <2>2. \A i \in 0 .. k - 1 : i \in Q
    BY <1>2, <2>1, <2>3, Upwards
  <2> QED
    BY <2>2, <2>3
<1> QED
  BY <1>1, <1>4 DEF Q

\* A walk: its records decode, and what it ends at does not.
LEMMA WalkFacts ==
  ASSUME NEW g, GenOK(g), g.segs # <<>>
  PROVE  /\ Count(g) \in Nat /\ Len(Walk(g)) = Count(g) + 1 /\ Path(g, Walk(g))
         /\ \A k \in 1 .. Count(g) + 1 : Walk(g)[k] \in Spots(g)
         /\ \A k \in 1 .. Count(g) : Decodes(g, Walk(g)[k])
         /\ ~Decodes(g, Walk(g)[Count(g) + 1]) /\ EndOfLog(g) = Walk(g)[Count(g) + 1]
         /\ \A k \in 1 .. Count(g) : Msg(g, k) \in Ids
<1>1. Path(g, Walk(g)) /\ ~Decodes(g, Walk(g)[Len(Walk(g))])
  BY WalkIs
<1>2. Len(Walk(g)) \in Nat /\ Len(Walk(g)) >= 1
  BY <1>1 DEF Path
<1>3. Count(g) \in Nat /\ Len(Walk(g)) = Count(g) + 1 /\ Count(g) = Len(Walk(g)) - 1
  BY <1>2 DEF Count
<1>4. \A k \in 1 .. Count(g) + 1 : Walk(g)[k] \in Spots(g)
  BY <1>1, <1>3, PathIn
<1>5. \A k \in 1 .. Count(g) : Decodes(g, Walk(g)[k])
  BY <1>1, <1>3 DEF Path
<1>6. EndOfLog(g) = Walk(g)[Count(g) + 1]
  BY <1>3 DEF EndOfLog, Last
<1>7. ASSUME NEW k \in 1 .. Count(g) PROVE Msg(g, k) \in Ids
  <2>1. Walk(g)[k] \in Spots(g) /\ Decodes(g, Walk(g)[k])
    BY <1>3, <1>4, <1>5
  <2> QED
    BY <2>1, DecodesIn DEF Msg
<1> QED
  BY <1>1, <1>3, <1>4, <1>5, <1>6, <1>7

\* A path that ends at no record is the walk.
LEMMA PathIsWalk ==
  ASSUME NEW g, GenOK(g), g.segs # <<>>, NEW p, Path(g, p), ~Decodes(g, p[Len(p)])
  PROVE  Walk(g) = p
<1> DEFINE w == Walk(g)
<1>1. Path(g, w) /\ ~Decodes(g, w[Len(w)])
  BY WalkIs
<1> HIDE DEF w
<1>2. /\ p \in Seq(Spots(g)) /\ w \in Seq(Spots(g))
      /\ Len(p) \in Nat /\ Len(w) \in Nat /\ Len(p) >= 1 /\ Len(w) >= 1
  BY <1>1 DEF Path
<1>3. \A k \in 1 .. Len(p) : k <= Len(w) => p[k] = w[k]
  BY <1>1, PathsAgree
<1>4. ~(Len(p) < Len(w))
  <2> SUFFICES ASSUME Len(p) < Len(w) PROVE FALSE
    OBVIOUS
  <2>1. Len(p) \in 1 .. Len(w) - 1 /\ p[Len(p)] = w[Len(p)]
    BY <1>2, <1>3
  <2>2. Decodes(g, w[Len(p)])
    BY <1>1, <2>1 DEF Path
  <2> QED
    BY <2>1, <2>2
<1>5. ~(Len(w) < Len(p))
  <2> SUFFICES ASSUME Len(w) < Len(p) PROVE FALSE
    OBVIOUS
  <2>1. Len(w) \in 1 .. Len(p) - 1 /\ p[Len(w)] = w[Len(w)]
    BY <1>2, <1>3
  <2>2. Decodes(g, p[Len(w)])
    BY <2>1 DEF Path
  <2> QED
    BY <1>1, <2>1, <2>2
<1>6. Len(p) = Len(w) /\ \A k \in 1 .. Len(p) : p[k] = w[k]
  BY <1>2, <1>3, <1>4, <1>5
<1>7. p = w
  BY <1>2, <1>6
<1> QED
  BY <1>7 DEF w

\* A path that ends with a record is part of the walk.
LEMMA PathIsPart ==
  ASSUME NEW g, GenOK(g), g.segs # <<>>, NEW p, Path(g, p), Decodes(g, p[Len(p)])
  PROVE  Len(p) <= Count(g) /\ \A k \in 1 .. Len(p) : Walk(g)[k] = p[k]
<1>1. Path(g, Walk(g)) /\ ~Decodes(g, Walk(g)[Count(g) + 1]) /\ Count(g) \in Nat
      /\ Len(Walk(g)) = Count(g) + 1
  BY WalkFacts
<1>2. Len(p) \in Nat /\ Len(p) >= 1
  BY DEF Path
<1>3. \A k \in 1 .. Len(p) : k <= Count(g) + 1 => p[k] = Walk(g)[k]
  BY <1>1, PathsAgree
<1>4. ~(Len(p) > Count(g))
  <2> SUFFICES ASSUME Len(p) > Count(g) PROVE FALSE
    OBVIOUS
  <2>1. Count(g) + 1 \in 1 .. Len(p) /\ p[Count(g) + 1] = Walk(g)[Count(g) + 1]
    BY <1>1, <1>2, <1>3
  <2>2. CASE Count(g) + 1 = Len(p)
    BY <1>1, <2>1, <2>2
  <2>3. CASE Count(g) + 1 # Len(p)
    <3>1. Count(g) + 1 \in 1 .. Len(p) - 1
      BY <1>1, <1>2, <2>1, <2>3
    <3>2. Decodes(g, p[Count(g) + 1])
      BY <3>1 DEF Path
    <3> QED
      BY <1>1, <2>1, <3>2
  <2> QED
    BY <2>2, <2>3
<1> QED
  BY <1>1, <1>2, <1>3, <1>4

-----------------------------------------------------------------------------
\* Records that stand at the same places in another state of the files.
StandsAt(g, h, k) ==
    LET q == Walk(g)[k]
        r == RecordAt(g, q)
        s == Start(g, Walk(g), k)
    IN /\ q[1] \in 1 .. Len(h.segs) /\ q[2] + r.size <= Len(h.segs[q[1]].cells)
       /\ \A j \in 1 .. r.size : h.segs[q[1]].cells[q[2] + j] = g.segs[q[1]].cells[q[2] + j]
       /\ r.blob <= Len(h.blob.cells)
       /\ r.blob # 0 => h.blob.cells[r.blob] = g.blob.cells[r.blob]
       /\ \A i \in 1 .. Len(g.segs) : s[1] <= i /\ i < q[1] =>
             Len(h.segs[i].cells) = Len(g.segs[i].cells)

Stand(g, h, n) == \A k \in 1 .. n : StandsAt(g, h, k)

\* Both are states of the files of a generation, and the first n records stand.
Alike(g, h, n) ==
    /\ GenOK(g) /\ g.segs # <<>> /\ GenOK(h) /\ h.segs # <<>>
    /\ n \in Nat /\ n <= Count(g) /\ Stand(g, h, n)

\* Where two generations are alike a record of one stands in the other.
LEMMA RecordStands ==
  ASSUME NEW g, NEW h, NEW n, Alike(g, h, n), NEW k \in 1 .. n
  PROVE  /\ Walk(g)[k] \in Spots(h) /\ Decodes(h, Walk(g)[k])
         /\ RecordAt(h, Walk(g)[k]) = RecordAt(g, Walk(g)[k])
         /\ After(h, Walk(g)[k]) = After(g, Walk(g)[k])
         /\ Payload(RecordAt(h, Walk(g)[k]), h.blob.cells)
              = Payload(RecordAt(g, Walk(g)[k]), g.blob.cells)
<1> DEFINE q == Walk(g)[k]
           r == RecordAt(g, q)
<1>1. GenOK(g) /\ g.segs # <<>> /\ GenOK(h) /\ h.segs # <<>> /\ n \in Nat /\ k \in 1 .. Count(g)
      /\ StandsAt(g, h, k) /\ Count(g) \in Nat
  BY WalkFacts DEF Alike, Stand
<1>2. q \in Spots(g) /\ Decodes(g, q)
  BY <1>1, WalkFacts
<1>3. /\ r \in Rec /\ r.size \in Nat /\ r.size > 0 /\ r.blob \in Nat /\ r.blob <= Len(g.blob.cells)
      /\ q[1] \in 1 .. Len(g.segs) /\ q[2] \in Nat
  BY <1>1, <1>2, DecodesIn
<1>4. /\ q[1] \in 1 .. Len(h.segs) /\ q[2] + r.size <= Len(h.segs[q[1]].cells)
      /\ \A j \in 1 .. r.size : h.segs[q[1]].cells[q[2] + j] = g.segs[q[1]].cells[q[2] + j]
      /\ r.blob <= Len(h.blob.cells)
      /\ r.blob # 0 => h.blob.cells[r.blob] = g.blob.cells[r.blob]
  BY <1>1 DEF StandsAt
<1>5. RecordAt(h, q) = r
  <2>1. 1 \in 1 .. r.size
    BY <1>3
  <2>2. h.segs[q[1]].cells[q[2] + 1] = g.segs[q[1]].cells[q[2] + 1]
    BY <1>4, <2>1
  <2> QED
    BY <2>2 DEF RecordAt
<1>6. Payload(r, h.blob.cells) = Payload(r, g.blob.cells)
  BY <1>4 DEF Payload
<1>7. After(h, q) = After(g, q)
  BY <1>5 DEF After
<1>8. q \in Spots(h) /\ q[2] < Len(h.segs[q[1]].cells)
  <2>1. Len(h.segs[q[1]].cells) \in Nat
    BY <1>1, <1>4, SegOK
  <2>2. q = <<q[1], q[2]>>
    BY <1>2 DEF Spots
  <2>3. q[2] <= Len(h.segs[q[1]].cells) /\ q[2] < Len(h.segs[q[1]].cells)
    <3> HIDE DEF q, r
    <3> QED
      BY SMTT(30), <1>3, <1>4, <2>1
  <2> HIDE DEF q
  <2> QED
    BY <1>3, <1>4, <2>2, <2>3 DEF Spots
<1>9. Decodes(h, q)
  <2>1. \A j \in 1 .. r.size : g.segs[q[1]].cells[q[2] + j] = [rec |-> r, part |-> j]
    BY <1>1, <1>2, DecodesIs
  <2>2. \A j \in 1 .. r.size : h.segs[q[1]].cells[q[2] + j] = [rec |-> r, part |-> j]
    BY <1>4, <2>1
  <2>3. Decodes(h, q) <=>
           /\ q[2] < Len(h.segs[q[1]].cells)
           /\ q[2] + r.size <= Len(h.segs[q[1]].cells)
           /\ \A j \in 1 .. r.size : h.segs[q[1]].cells[q[2] + j] = [rec |-> r, part |-> j]
           /\ r.blob <= Len(h.blob.cells)
    <3>1. Decodes(h, q) <=>
           /\ q[2] < Len(h.segs[q[1]].cells)
           /\ q[2] + RecordAt(h, q).size <= Len(h.segs[q[1]].cells)
           /\ \A j \in 1 .. RecordAt(h, q).size :
                h.segs[q[1]].cells[q[2] + j] = [rec |-> RecordAt(h, q), part |-> j]
           /\ RecordAt(h, q).blob <= Len(h.blob.cells)
      BY <1>1, <1>8, DecodesIs
    <3> HIDE DEF q, r
    <3> QED
      BY <1>5, <3>1
  <2> QED
    BY <1>4, <1>8, <2>2, <2>3
<1> QED
  BY <1>5, <1>6, <1>7, <1>8, <1>9

\* And reading goes on to the same place.
LEMMA StepStands ==
  ASSUME NEW g, NEW h, NEW n, Alike(g, h, n), NEW k \in 1 .. n
  PROVE  Walk(g)[k] = Onward(h, Start(h, Walk(g), k))
<1> DEFINE w == Walk(g)
           q == w[k]
           s == Start(g, w, k)
<1>1. GenOK(g) /\ g.segs # <<>> /\ GenOK(h) /\ h.segs # <<>> /\ n \in Nat /\ k \in 1 .. Count(g)
      /\ StandsAt(g, h, k) /\ Count(g) \in Nat /\ Path(g, w) /\ k \in 1 .. Len(w)
  BY WalkFacts DEF Alike, Stand
<1>2. s \in Spots(g) /\ q \in Spots(g) /\ q = Onward(g, s) /\ Decodes(g, q)
  BY <1>1, PathIn, WalkFacts
<1>3. Start(h, w, k) = s
  <2>1. CASE k = 1
    BY <2>1 DEF Start
  <2>2. CASE k # 1
    <3>1. k - 1 \in 1 .. n
      BY <1>1, <2>2
    <3>2. After(h, w[k - 1]) = After(g, w[k - 1])
      BY <3>1, RecordStands
    <3> QED
      BY <2>2, <3>2 DEF Start
  <2> QED
    BY <2>1, <2>2
<1>4. /\ q[2] < Len(h.segs[q[1]].cells) /\ q[1] \in 1 .. Len(h.segs)
      /\ q[2] < Len(g.segs[q[1]].cells) /\ q[2] \in Nat
  <2>1. q \in Spots(h) /\ Decodes(h, q)
    BY RecordStands
  <2> QED
    BY <1>1, <1>2, <2>1, DecodesIn
<1>5. \A i \in 1 .. Len(g.segs) : s[1] <= i /\ i < q[1] => Len(h.segs[i].cells) = Len(g.segs[i].cells)
  BY <1>1 DEF StandsAt
<1>6. s[1] \in 1 .. Len(g.segs) /\ s[1] \in Nat /\ s[2] \in Nat
  BY <1>2 DEF Spots
<1>10. Len(h.segs) \in Nat /\ Len(g.segs) \in Nat
  BY <1>1 DEF GenOK
<1> HIDE DEF s, q, w
<1>8. ASSUME ~(s[2] < Len(g.segs[s[1]].cells)),
             NEW j \in 1 .. Len(g.segs), s[1] < j, q = <<j, 0>>,
             \A i \in 1 .. Len(g.segs) : s[1] < i /\ i < j => Len(g.segs[i].cells) = 0
      PROVE  Onward(h, s) = q
  <2>1. q[1] = j /\ q[2] = 0 /\ j \in 1 .. Len(h.segs) /\ Len(h.segs[j].cells) > 0
    BY <1>4, <1>8
  <2>2. ~(s[2] < Len(h.segs[s[1]].cells))
    <3>1. Len(h.segs[s[1]].cells) = Len(g.segs[s[1]].cells)
      <4>1. s[1] <= s[1] /\ s[1] < q[1] /\ s[1] \in 1 .. Len(g.segs)
        BY <1>6, <1>8, <2>1
      <4> QED
        BY <1>5, <4>1
    <3> QED
      BY <1>8, <3>1
  <2>3. ASSUME NEW i \in 1 .. Len(h.segs), s[1] < i, i < j PROVE Len(h.segs[i].cells) = 0
    <3>1. i \in 1 .. Len(g.segs) /\ s[1] <= i
      BY <1>6, <1>8, <1>10, <2>3
    <3> QED
      BY <1>5, <1>8, <2>1, <2>3, <3>1
  <2> QED
    BY <1>1, <1>6, <1>8, <2>1, <2>2, <2>3, OnwardThere
<1>9. ~(q = End(g))
  <2>1. End(g)[1] = Len(g.segs) /\ End(g)[2] = Len(g.segs[Len(g.segs)].cells)
    BY <1>1, EndIn
  <2>2. q = End(g) => q[2] = Len(g.segs[q[1]].cells)
    BY <2>1
  <2> QED
    BY <1>4, <2>2
<1>11. Onward(h, s) = q
  <2>1. \/ Onward(g, s) = s
        \/ /\ ~(s[2] < Len(g.segs[s[1]].cells))
           /\ \E j \in 1 .. Len(g.segs) :
                 /\ s[1] < j
                 /\ \A i \in 1 .. Len(g.segs) : s[1] < i /\ i < j => Len(g.segs[i].cells) = 0
                 /\ Onward(g, s) = <<j, 0>>
        \/ Onward(g, s) = End(g)
    BY <1>1, <1>2, OnwardWays
  <2>2. CASE q = s
    BY <1>4, <2>2, OnwardHere
  <2> QED
    BY <1>2, <1>8, <1>9, <2>1, <2>2
<1> QED
  BY <1>3, <1>11 DEF q, w

\* So the walks are the same up to there.
LEMMA Standing ==
  ASSUME NEW g, NEW h, NEW n, Alike(g, h, n)
  PROVE  /\ n <= Count(h)
         /\ \A k \in 1 .. n : /\ Walk(h)[k] = Walk(g)[k] /\ Msg(h, k) = Msg(g, k)
                              /\ RecordAt(h, Walk(h)[k]) = RecordAt(g, Walk(g)[k])
         /\ Start(h, Walk(h), n + 1) = Start(g, Walk(g), n + 1)
<1>1. GenOK(h) /\ h.segs # <<>> /\ n \in Nat /\ Count(h) \in Nat
  BY WalkFacts DEF Alike
<1>2. CASE n = 0
  <2>1. Start(h, Walk(h), n + 1) = Start(g, Walk(g), n + 1)
    BY <1>2 DEF Start
  <2> QED
    BY <1>1, <1>2, <2>1
<1>3. CASE n # 0
  <2> DEFINE w == Walk(g)
             p == [k \in 1 .. n |-> w[k]]
  <2>1. n >= 1 /\ n \in 1 .. n
    BY <1>1, <1>3
  <2>2. \A k \in 1 .. n : w[k] \in Spots(h) /\ Decodes(h, w[k]) /\ w[k] = Onward(h, Start(h, w, k))
    BY RecordStands, StepStands
  <2> HIDE DEF w
  <2>3. p \in Seq(Spots(h)) /\ Len(p) = n /\ \A k \in 1 .. n : p[k] = w[k]
    BY <1>1, <2>2
  <2> HIDE DEF p
  <2>4. ASSUME NEW k \in 1 .. n PROVE Start(h, p, k) = Start(h, w, k)
    <3>1. k # 1 => k - 1 \in 1 .. n
      BY <1>1
    <3> QED
      BY <2>3, <3>1 DEF Start
  <2>5. Path(h, p)
    <3>1. \A k \in 1 .. n : p[k] = Onward(h, Start(h, p, k)) /\ Decodes(h, p[k])
      BY <2>2, <2>3, <2>4
    <3>2. \A k \in 1 .. n - 1 : k \in 1 .. n
      BY <1>1
    <3> QED
      BY <2>1, <2>3, <3>1, <3>2 DEF Path
  <2>6. n <= Count(h) /\ \A k \in 1 .. n : Walk(h)[k] = w[k]
    <3>1. Decodes(h, p[Len(p)])
      BY <2>1, <2>2, <2>3
    <3>2. Len(p) <= Count(h) /\ \A k \in 1 .. Len(p) : Walk(h)[k] = p[k]
      BY <1>1, <2>5, <3>1, PathIsPart
    <3> QED
      BY <2>3, <3>2
  <2>7. \A k \in 1 .. n : /\ Msg(h, k) = Msg(g, k)
                          /\ RecordAt(h, Walk(h)[k]) = RecordAt(g, Walk(g)[k])
    <3> TAKE k \in 1 .. n
    <3>1. /\ RecordAt(h, Walk(g)[k]) = RecordAt(g, Walk(g)[k])
          /\ Payload(RecordAt(h, Walk(g)[k]), h.blob.cells)
                = Payload(RecordAt(g, Walk(g)[k]), g.blob.cells)
      BY RecordStands
    <3> QED
      BY <2>6, <3>1 DEF Msg, w
  <2>8. Start(h, Walk(h), n + 1) = Start(g, w, n + 1)
    <3>1. After(h, w[n]) = After(g, w[n])
      BY <2>1, RecordStands DEF w
    <3>2. n + 1 # 1 /\ (n + 1) - 1 = n
      BY <1>1, <1>3
    <3> QED
      BY <2>1, <2>6, <3>1, <3>2 DEF Start
  <2> QED
    BY <2>6, <2>7, <2>8 DEF w
<1> QED
  BY <1>2, <1>3

\* What is on the medium stays on it.
LEMMA MediumStands ==
  ASSUME NEW g, NEW h, Alike(g, h, Count(g)),
         \A i \in 1 .. Len(g.segs) : g.segs[i].synced <= h.segs[i].synced,
         g.blob.synced <= h.blob.synced, NEW n \in Int, OnMedium(g, n)
  PROVE  OnMedium(h, n)
<1>1. GenOK(g) /\ g.segs # <<>> /\ GenOK(h) /\ h.segs # <<>> /\ Count(g) \in Nat /\ Count(h) \in Nat
  BY WalkFacts DEF Alike
<1>2. n <= Count(g) /\ \A k \in 1 .. n : Kept(g, Walk(g)[k])
  BY DEF OnMedium
<1>3. /\ Count(g) <= Count(h)
      /\ \A k \in 1 .. Count(g) : /\ Walk(h)[k] = Walk(g)[k]
                                  /\ RecordAt(h, Walk(h)[k]) = RecordAt(g, Walk(g)[k])
  BY Standing
<1>4. ASSUME NEW k \in 1 .. n PROVE Kept(h, Walk(h)[k])
  <2> DEFINE q == Walk(g)[k]
             r == RecordAt(g, q)
  <2>1. k \in 1 .. Count(g)
    BY <1>1, <1>2
  <2>2. q \in Spots(g) /\ Decodes(g, q) /\ q \in Spots(h)
    BY <1>1, <2>1, WalkFacts, RecordStands
  <2>3. q[1] \in 1 .. Len(g.segs) /\ q[2] \in Nat /\ r.size \in Nat /\ r.blob \in Nat
    BY <1>1, <2>2, DecodesIn
  <2>4. q[2] + r.size <= g.segs[q[1]].synced /\ r.blob <= g.blob.synced
    BY <1>2 DEF Kept
  <2>5. Walk(h)[k] = q /\ RecordAt(h, q) = r
    BY <1>3, <2>1
  <2>6. g.segs[q[1]].synced <= h.segs[q[1]].synced
    BY <2>3
  <2>9. q[1] \in 1 .. Len(h.segs)
    BY <2>2 DEF Spots
  <2>7. /\ g.segs[q[1]].synced \in Nat /\ h.segs[q[1]].synced \in Nat
        /\ g.blob.synced \in Nat /\ h.blob.synced \in Nat
    BY <1>1, <2>3, <2>9, SegOK, BlobOK
  <2> HIDE DEF q, r
  <2>8. \A x, y \in Nat : \A a, b \in Nat : x + y <= a /\ a <= b => x + y <= b
    OBVIOUS
  <2>10. q[2] + r.size <= h.segs[q[1]].synced
    BY <2>3, <2>4, <2>6, <2>7, <2>8
  <2>11. r.blob <= h.blob.synced
    BY <2>3, <2>4, <2>7
  <2> QED
    BY <2>5, <2>10, <2>11 DEF Kept
<1>5. n <= Count(h)
  BY <1>1, <1>2, <1>3
<1> QED
  BY <1>4, <1>5 DEF OnMedium

\* Where the walk goes behind n of its records.
LEMMA WalkGoes ==
  ASSUME NEW g, GenOK(g), g.segs # <<>>, NEW n \in Nat, n <= Count(g)
  PROVE  /\ Walk(g)[n + 1] = Onward(g, Start(g, Walk(g), n + 1))
         /\ Walk(g)[n + 1] \in Spots(g) /\ Start(g, Walk(g), n + 1) \in Spots(g)
         /\ ~Decodes(g, Walk(g)[n + 1]) => Count(g) = n
         /\ Decodes(g, Walk(g)[n + 1]) => n + 1 <= Count(g)
<1>1. /\ Count(g) \in Nat /\ Len(Walk(g)) = Count(g) + 1 /\ Path(g, Walk(g))
      /\ \A k \in 1 .. Count(g) : Decodes(g, Walk(g)[k])
      /\ ~Decodes(g, Walk(g)[Count(g) + 1])
  BY WalkFacts
<1>2. n + 1 \in 1 .. Len(Walk(g))
  BY <1>1
<1>3. /\ Walk(g)[n + 1] = Onward(g, Start(g, Walk(g), n + 1))
      /\ Walk(g)[n + 1] \in Spots(g) /\ Start(g, Walk(g), n + 1) \in Spots(g)
  BY <1>1, <1>2, PathIn
<1>4. n # Count(g) => n + 1 \in 1 .. Count(g)
  BY <1>1
<1>5. Decodes(g, Walk(g)[n + 1]) => n # Count(g)
  BY <1>1
<1> QED
  BY <1>1, <1>3, <1>4, <1>5

\* At the end of the files there is no record.
LEMMA EndNot ==
  ASSUME NEW g, GenOK(g), g.segs # <<>>
  PROVE  ~Decodes(g, End(g))
<1>1. /\ End(g) \in Spots(g) /\ End(g)[1] = Len(g.segs) /\ Len(g.segs) \in 1 .. Len(g.segs)
      /\ End(g)[2] = Len(g.segs[Len(g.segs)].cells)
  BY EndIn
<1> QED
  BY <1>1, DecodesIn

\* Where reading goes on depends on the lengths.
LEMMA SameOnward ==
  ASSUME NEW g, NEW h, GenOK(g), GenOK(h), g.segs # <<>>, Len(h.segs) = Len(g.segs),
         \A i \in 1 .. Len(g.segs) : Len(h.segs[i].cells) = Len(g.segs[i].cells),
         NEW at \in Spots(g)
  PROVE  Onward(h, at) = Onward(g, at) /\ End(h) = End(g) /\ h.segs # <<>>
<1>1. /\ End(g)[1] = Len(g.segs) /\ Len(g.segs) \in 1 .. Len(g.segs)
      /\ End(g)[2] = Len(g.segs[Len(g.segs)].cells)
  BY EndIn
<1>2. h.segs # <<>>
  BY <1>1 DEF GenOK
<1>3. End(h) = End(g)
  <2>1. Last(h.segs) = h.segs[Len(h.segs)] /\ Last(g.segs) = g.segs[Len(g.segs)]
    BY DEF Last
  <2> QED
    BY <1>1, <2>1 DEF End
<1>4. at[1] \in 1 .. Len(g.segs) /\ at[1] \in Nat
  BY DEF Spots
<1>5. CASE at[2] < Len(g.segs[at[1]].cells)
  <2>1. at[2] < Len(h.segs[at[1]].cells)
    BY <1>4, <1>5
  <2>2. Onward(h, at) = at /\ Onward(g, at) = at
    BY <1>5, <2>1, OnwardHere
  <2> QED
    BY <1>2, <1>3, <2>2
<1>6. ASSUME ~(at[2] < Len(g.segs[at[1]].cells)),
             NEW j \in 1 .. Len(g.segs), at[1] < j, Len(g.segs[j].cells) > 0,
             \A i \in 1 .. Len(g.segs) : at[1] < i /\ i < j => Len(g.segs[i].cells) = 0
      PROVE  Onward(h, at) = <<j, 0>>
  BY <1>4, <1>6, OnwardThere
<1>7. ASSUME ~(at[2] < Len(g.segs[at[1]].cells)),
             \A i \in 1 .. Len(g.segs) : at[1] < i => Len(g.segs[i].cells) = 0
      PROVE  Onward(h, at) = End(g)
  BY <1>3, <1>4, <1>7, OnwardEnd
<1> QED
  BY <1>2, <1>3, <1>5, <1>6, <1>7, OnwardWays

-----------------------------------------------------------------------------
\* Files that were written to the medium further, or whose blob file grew.
Grown(g, h) ==
    /\ GenOK(g) /\ g.segs # <<>> /\ GenOK(h) /\ Len(h.segs) = Len(g.segs)
    /\ \A i \in 1 .. Len(g.segs) : /\ h.segs[i].cells = g.segs[i].cells
                                   /\ g.segs[i].synced <= h.segs[i].synced
    /\ Len(g.blob.cells) <= Len(h.blob.cells)
    /\ \A i \in 1 .. Len(g.blob.cells) : h.blob.cells[i] = g.blob.cells[i]
    /\ g.blob.synced <= h.blob.synced

\* A sync changes nothing that is read, and keeps what is on the medium.
LEMMA GrownStands ==
  ASSUME NEW g, NEW h, Grown(g, h), Clean(g)
  PROVE  /\ h.segs # <<>> /\ Clean(h) /\ Count(h) = Count(g) /\ Lengths(h) = Lengths(g)
         /\ \A k \in 1 .. Count(g) : /\ Walk(h)[k] = Walk(g)[k] /\ Msg(h, k) = Msg(g, k)
                                     /\ RecordAt(h, Walk(h)[k]) = RecordAt(g, Walk(g)[k])
         /\ \A n \in Int : OnMedium(g, n) => OnMedium(h, n)
<1>1. /\ GenOK(g) /\ g.segs # <<>> /\ GenOK(h) /\ Len(h.segs) = Len(g.segs)
      /\ Count(g) \in Nat /\ End(h) = End(g) /\ h.segs # <<>>
      /\ \A at \in Spots(g) : Onward(h, at) = Onward(g, at)
  <2>1. <<1, 0>> \in Spots(g)
    BY FirstIn DEF Grown
  <2> QED
    BY <2>1, WalkFacts, SameOnward DEF Grown
<1>2. ASSUME NEW k \in 1 .. Count(g) PROVE StandsAt(g, h, k)
  <2> DEFINE q == Walk(g)[k]
  <2>1. q \in Spots(g) /\ Decodes(g, q)
    BY <1>1, WalkFacts
  <2>2. /\ q[1] \in 1 .. Len(g.segs) /\ q[2] \in Nat
        /\ q[2] + RecordAt(g, q).size <= Len(g.segs[q[1]].cells)
        /\ RecordAt(g, q).blob <= Len(g.blob.cells) /\ RecordAt(g, q).blob \in Nat
    BY <1>1, <2>1, DecodesIn
  <2>3. /\ h.segs[q[1]].cells = g.segs[q[1]].cells
        /\ RecordAt(g, q).blob <= Len(h.blob.cells)
        /\ RecordAt(g, q).blob # 0 => h.blob.cells[RecordAt(g, q).blob] = g.blob.cells[RecordAt(g, q).blob]
    <3>1. Len(g.blob.cells) \in Nat /\ Len(h.blob.cells) \in Nat
      BY <1>1, BlobOK
    <3>2. RecordAt(g, q).blob # 0 => RecordAt(g, q).blob \in 1 .. Len(g.blob.cells)
      BY <2>2, <3>1
    <3> DEFINE b == RecordAt(g, q).blob
    <3>3. b <= Len(g.blob.cells) /\ b \in Nat /\ q[1] \in 1 .. Len(g.segs)
          /\ (b # 0 => b \in 1 .. Len(g.blob.cells))
      BY <2>2, <3>2
    <3> HIDE DEF q, b
    <3>4. h.segs[q[1]].cells = g.segs[q[1]].cells
      BY <3>3 DEF Grown
    <3>5. b <= Len(h.blob.cells)
      BY <3>1, <3>3 DEF Grown
    <3>6. b # 0 => h.blob.cells[b] = g.blob.cells[b]
      BY <3>3 DEF Grown
    <3> QED
      BY <3>4, <3>5, <3>6 DEF b
  <2>4. \A i \in 1 .. Len(g.segs) : Len(h.segs[i].cells) = Len(g.segs[i].cells)
    BY DEF Grown
  <2> QED
    BY <1>1, <2>2, <2>3, <2>4 DEF StandsAt
<1>3. Alike(g, h, Count(g))
  BY <1>1, <1>2 DEF Alike, Stand
<1>4. /\ Count(g) <= Count(h)
      /\ \A k \in 1 .. Count(g) : /\ Walk(h)[k] = Walk(g)[k] /\ Msg(h, k) = Msg(g, k)
                                  /\ RecordAt(h, Walk(h)[k]) = RecordAt(g, Walk(g)[k])
      /\ Start(h, Walk(h), Count(g) + 1) = Start(g, Walk(g), Count(g) + 1)
  BY <1>3, Standing
<1>5. Walk(h)[Count(g) + 1] = End(h)
  <2>1. /\ Walk(g)[Count(g) + 1] = Onward(g, Start(g, Walk(g), Count(g) + 1))
        /\ Start(g, Walk(g), Count(g) + 1) \in Spots(g)
    BY <1>1, WalkGoes
  <2>2. Walk(h)[Count(g) + 1] = Onward(h, Start(h, Walk(h), Count(g) + 1))
    BY <1>1, <1>4, WalkGoes
  <2>3. Walk(g)[Count(g) + 1] = End(g)
    BY <1>1, WalkFacts DEF Clean
  <2> QED
    BY <1>1, <1>4, <2>1, <2>2, <2>3
<1>6. Count(h) = Count(g)
  BY <1>1, <1>4, <1>5, EndNot, WalkGoes
<1>7. Clean(h)
  BY <1>1, <1>5, <1>6, WalkFacts DEF Clean
<1>8. Lengths(h) = Lengths(g)
  <2>1. DOMAIN h.segs = 1 .. Len(g.segs) /\ DOMAIN g.segs = 1 .. Len(g.segs)
    BY <1>1 DEF GenOK
  <2> QED
    BY <2>1 DEF Lengths, Grown
<1>9. \A n \in Int : OnMedium(g, n) => OnMedium(h, n)
  <2>1. \A i \in 1 .. Len(g.segs) : g.segs[i].synced <= h.segs[i].synced
    BY DEF Grown
  <2>2. g.blob.synced <= h.blob.synced
    BY DEF Grown
  <2> QED
    BY <1>3, <2>1, <2>2, MediumStands
<1> QED
  BY <1>1, <1>4, <1>6, <1>7, <1>8, <1>9

-----------------------------------------------------------------------------
\* A record written behind the last one.
LEMMA MinOfTwo ==
  ASSUME NEW a \in Nat, NEW b \in Nat
  PROVE  /\ a <= b => Min({a, b}) = a
         /\ b <= a => Min({a, b}) = b
<1>1. Min({a, b}) = CHOOSE x \in {a, b} : \A y \in {a, b} : x <= y
  BY DEF Min
<1>2. a <= b => Min({a, b}) = a
  BY <1>1
<1>3. b <= a => Min({a, b}) = b
  BY <1>1
<1> QED
  BY <1>2, <1>3

\* The cells of a record.
LEMMA CellsIn ==
  ASSUME NEW r \in Rec
  PROVE  /\ CellsOf(r) \in Seq(Cell) /\ Len(CellsOf(r)) = r.size /\ r.size \in Nat /\ r.size > 0
         /\ r.size <= SegCells
         /\ \A j \in 1 .. r.size : CellsOf(r)[j] = [rec |-> r, part |-> j]
<1>1. r.size \in Nat /\ r.size > 0 /\ r.size <= SegCells
  BY Bounds DEF Rec
<1>2. \A j \in 1 .. r.size : [rec |-> r, part |-> j] \in Cell
  BY <1>1, Bounds DEF Cell
<1> QED
  BY <1>1, <1>2 DEF CellsOf

\* A write at the end of a file appends.
LEMMA OverwriteEnd ==
  ASSUME NEW f, f.cells \in Seq(Cell), f.synced \in Nat, f.synced <= Len(f.cells),
         NEW c \in Seq(Cell)
  PROVE  Overwrite(f, Len(f.cells), c) = [cells |-> f.cells \o c, synced |-> f.synced]
<1> DEFINE n == Len(f.cells)
<1>1. n \in Nat
  OBVIOUS
<1>2. Min({f.synced, n}) = f.synced
  BY <1>1, MinOfTwo
<1>3. SubSeq(f.cells, 1, n) = f.cells
  OBVIOUS
<1>4. SubSeq(f.cells, n + Len(c) + 1, n) = <<>>
  OBVIOUS
<1>5. (f.cells \o c) \o <<>> = f.cells \o c
  OBVIOUS
<1> QED
  BY <1>2, <1>3, <1>4, <1>5 DEF Overwrite

\* What a write of record r makes of the files, placed at s, p.
PutAt(g, h, r, s, p) ==
    LET n == Len(g.segs) IN
    /\ GenOK(h) /\ h.segs # <<>> /\ Len(h.segs) = s /\ h.blob = g.blob
    /\ \/ s = n /\ p = Len(g.segs[n].cells)
       \/ s = n + 1 /\ p = 0
    /\ \A i \in 1 .. n : /\ i # s => h.segs[i] = g.segs[i]
                         /\ h.segs[i].synced = g.segs[i].synced
                         /\ Len(g.segs[i].cells) <= Len(h.segs[i].cells)
                         /\ \A j \in 1 .. Len(g.segs[i].cells) :
                              h.segs[i].cells[j] = g.segs[i].cells[j]
    /\ Len(h.segs[s].cells) = p + r.size
    /\ \A j \in 1 .. r.size : h.segs[s].cells[p + j] = [rec |-> r, part |-> j]

\* A record is put behind everything there is.
LEMMA PutIs ==
  ASSUME NEW g, GenOK(g), g.segs # <<>>, NEW r \in Rec
  PROVE  LET at == Place(Lengths(g), r.size)
             h == Put(g, at, CellsOf(r))
         IN PutAt(g, h, r, at.seg, at.pos) /\ Lengths(h) = UsedAfter(Lengths(g), at, r.size)
<1> DEFINE n == Len(g.segs)
           m == Len(g.segs[n].cells)
           used == Lengths(g)
           at == Place(used, r.size)
           h == Put(g, at, CellsOf(r))
           c == CellsOf(r)
<1>1. /\ g.segs \in Seq(Segment) /\ n \in Nat /\ n \in 1 .. n /\ DOMAIN g.segs = 1 .. n
      /\ g = [segs |-> g.segs, blob |-> g.blob] /\ g.blob \in BlobFile
      /\ g.blob.synced <= Len(g.blob.cells)
  BY DEF GenOK
<1>2. /\ m \in Nat /\ m <= SegCells /\ g.segs[n].cells \in Seq(Cell)
      /\ g.segs[n] = [cells |-> g.segs[n].cells, synced |-> g.segs[n].synced]
      /\ g.segs[n].synced \in Nat /\ g.segs[n].synced <= m
  BY <1>1, SegOK
<1>3. /\ c \in Seq(Cell) /\ Len(c) = r.size /\ r.size \in Nat /\ r.size > 0 /\ r.size <= SegCells
      /\ \A j \in 1 .. r.size : c[j] = [rec |-> r, part |-> j]
  BY CellsIn
<1>4. used \in Seq(Nat) /\ Len(used) = n /\ used[n] = m /\ \A i \in 1 .. n : used[i] = Len(g.segs[i].cells)
  <2>1. \A i \in 1 .. n : Len(g.segs[i].cells) \in Nat
    BY SegOK
  <2> QED
    BY <1>1, <2>1 DEF Lengths
<1>5. at = IF m # 0 /\ m > SegCells - r.size THEN [seg |-> n + 1, pos |-> 0]
                                              ELSE [seg |-> n, pos |-> m]
  BY <1>4 DEF Place
<1> HIDE DEF used, c, at
<1>6. \A i \in 1 .. n : /\ g.segs[i] \in Segment /\ g.segs[i].synced <= Len(g.segs[i].cells)
                        /\ Len(g.segs[i].cells) <= SegCells /\ Len(g.segs[i].cells) \in Nat
  <2> TAKE i \in 1 .. n
  <2>1. g.segs[i] \in Segment
    BY <1>1
  <2>2. /\ g.segs[i].synced <= Len(g.segs[i].cells)
        /\ Len(g.segs[i].cells) <= SegCells /\ Len(g.segs[i].cells) \in Nat
    BY SegOK
  <2> QED
    BY <2>1, <2>2
<1>7. CASE m # 0 /\ m > SegCells - r.size
  <2> DEFINE new == [cells |-> c, synced |-> 0]
  <2>1. at = [seg |-> n + 1, pos |-> 0] /\ at.seg = n + 1 /\ at.pos = 0
    BY <1>5, <1>7
  <2>2. Overwrite(NewFile, 0, c) = new
    <3>1. NewFile.cells \in Seq(Cell) /\ NewFile.synced \in Nat /\ Len(NewFile.cells) = 0
          /\ NewFile.synced <= Len(NewFile.cells) /\ NewFile.synced = 0 /\ NewFile.cells = <<>>
      BY DEF NewFile
    <3>2. <<>> \o c = c
      BY <1>3
    <3>3. Overwrite(NewFile, Len(NewFile.cells), c)
            = [cells |-> NewFile.cells \o c, synced |-> NewFile.synced]
      BY <1>3, <3>1, OverwriteEnd
    <3> QED
      BY <3>1, <3>2, <3>3
  <2>3. h = [segs |-> Append(g.segs, new), blob |-> g.blob]
    <3>1. at.seg > Len(g.segs)
      BY <1>1, <2>1
    <3> QED
      BY <1>1, <2>2, <3>1 DEF Put, c
  <2>4. new \in Segment
    BY <1>3 DEF Segment
  <2>5. /\ h.segs = Append(g.segs, new) /\ h.blob = g.blob
        /\ h.segs \in Seq(Segment) /\ Len(h.segs) = n + 1 /\ h.segs[n + 1] = new
        /\ \A i \in 1 .. n : h.segs[i] = g.segs[i]
    <3> HIDE DEF new, h
    <3> QED
      BY <1>1, <2>3, <2>4
  <2>6. GenOK(h) /\ h.segs # <<>>
    <3>1. h \in [segs : Seq(Segment), blob : BlobFile]
      BY <1>1, <2>3, <2>5
    <3>2. new.synced <= Len(new.cells) /\ Len(new.cells) <= SegCells
      BY <1>3
    <3>3. \A i \in 1 .. n + 1 : i = n + 1 \/ i \in 1 .. n
      BY <1>1
    <3> HIDE DEF new, h
    <3>4. \A i \in 1 .. n + 1 : Len(h.segs[i].cells) <= SegCells /\ h.segs[i].synced <= Len(h.segs[i].cells)
      BY <1>6, <2>5, <3>2, <3>3
    <3>5. DOMAIN h.segs = 1 .. n + 1 /\ h.segs # <<>>
      BY <1>1, <2>5
    <3> QED
      BY <1>1, <2>5, <3>1, <3>4, <3>5 DEF GenOK
  <2> HIDE DEF h
  <2>7. PutAt(g, h, r, n + 1, 0)
    <3>1. ASSUME NEW i \in 1 .. n
          PROVE /\ i # n + 1 => h.segs[i] = g.segs[i]
                /\ h.segs[i].synced = g.segs[i].synced
                /\ Len(g.segs[i].cells) <= Len(h.segs[i].cells)
                /\ \A j \in 1 .. Len(g.segs[i].cells) : h.segs[i].cells[j] = g.segs[i].cells[j]
      <4>1. h.segs[i] = g.segs[i] /\ Len(g.segs[i].cells) \in Nat
        BY <1>6, <2>5
      <4> QED
        BY <4>1
    <3>2. Len(h.segs[n + 1].cells) = 0 + r.size
          /\ \A j \in 1 .. r.size : h.segs[n + 1].cells[0 + j] = [rec |-> r, part |-> j]
      BY <1>3, <2>5
    <3> QED
      BY <2>5, <2>6, <3>1, <3>2 DEF PutAt
  <2>8. Lengths(h) = UsedAfter(used, at, r.size)
    <3>1. UsedAfter(used, at, r.size) = Append(used, r.size)
      <4>1. at.seg > Len(used)
        BY <1>1, <1>4, <2>1
      <4> QED
        BY <4>1 DEF UsedAfter
    <3>2. DOMAIN h.segs = 1 .. n + 1
      BY <1>1, <2>5
    <3>3. Lengths(h) = [i \in 1 .. n + 1 |-> Len(h.segs[i].cells)]
      BY <3>2 DEF Lengths
    <3>4. \A i \in 1 .. n + 1 : Len(h.segs[i].cells) = Append(used, r.size)[i]
      <4> TAKE i \in 1 .. n + 1
      <4>1. CASE i = n + 1
        <5>1. Append(used, r.size)[n + 1] = r.size
          BY <1>1, <1>3, <1>4
        <5> QED
          BY <1>3, <2>5, <4>1, <5>1
      <4>2. CASE i # n + 1
        <5>1. i \in 1 .. n /\ Append(used, r.size)[i] = used[i]
          BY <1>1, <1>3, <1>4, <4>2
        <5> QED
          BY <1>4, <2>5, <5>1
      <4> QED
        BY <4>1, <4>2
    <3>5. Append(used, r.size) = [i \in 1 .. n + 1 |-> Append(used, r.size)[i]]
      BY <1>1, <1>3, <1>4
    <3> QED
      BY <3>1, <3>3, <3>4, <3>5
  <2> QED
    BY <2>1, <2>7, <2>8 DEF h, at, used, c
<1>8. CASE ~(m # 0 /\ m > SegCells - r.size)
  <2> DEFINE new == [cells |-> g.segs[n].cells \o c, synced |-> g.segs[n].synced]
  <2>1. at = [seg |-> n, pos |-> m] /\ at.seg = n /\ at.pos = m
    BY <1>5, <1>8
  <2>2. Overwrite(g.segs[n], m, c) = new
    BY <1>2, <1>3, OverwriteEnd
  <2>3. h = [segs |-> [g.segs EXCEPT ![n] = new], blob |-> g.blob]
    <3>1. ~(at.seg > Len(g.segs))
      BY <1>1, <2>1
    <3>2. h = [g EXCEPT !.segs[n] = Overwrite(@, m, c)]
      BY <2>1, <3>1 DEF Put, c
    <3> QED
      BY <1>1, <2>2, <3>2
  <2>4. /\ new \in Segment /\ Len(new.cells) = m + r.size /\ new.synced <= Len(new.cells)
        /\ Len(new.cells) <= SegCells /\ new.synced = g.segs[n].synced
        /\ \A j \in 1 .. m : new.cells[j] = g.segs[n].cells[j]
        /\ \A j \in 1 .. r.size : new.cells[m + j] = c[j]
    <3> DEFINE a == g.segs[n].cells
               l == r.size
    <3>4. a \in Seq(Cell) /\ Len(a) = m /\ m \in Nat
      BY <1>2
    <3>5. c \in Seq(Cell) /\ Len(c) = l /\ l \in Nat
      BY <1>3
    <3> HIDE DEF a, m, l
    <3>6. a \o c \in Seq(Cell) /\ Len(a \o c) = m + l
      BY <3>4, <3>5
    <3>7. \A j \in 1 .. m : (a \o c)[j] = a[j]
      BY <3>4, <3>5
    <3>8. \A j \in 1 .. l : (a \o c)[m + j] = c[j]
      BY <3>4, <3>5
    <3>1. /\ g.segs[n].cells \o c \in Seq(Cell) /\ Len(g.segs[n].cells \o c) = m + r.size
          /\ \A j \in 1 .. m : (g.segs[n].cells \o c)[j] = g.segs[n].cells[j]
          /\ \A j \in 1 .. r.size : (g.segs[n].cells \o c)[m + j] = c[j]
      BY <3>6, <3>7, <3>8 DEF a, l
    <3>2. m + r.size <= SegCells
      BY <1>2, <1>3, <1>8, Bounds
    <3>3. g.segs[n].synced <= m + r.size
      BY <1>2, <1>3
    <3> QED
      BY <1>2, <3>1, <3>2, <3>3 DEF Segment
  <2>5. /\ h.segs = [g.segs EXCEPT ![n] = new] /\ h.blob = g.blob
        /\ h.segs \in Seq(Segment) /\ Len(h.segs) = n /\ h.segs[n] = new
        /\ \A i \in 1 .. n : i # n => h.segs[i] = g.segs[i]
    <3> HIDE DEF new, h
    <3> QED
      BY <1>1, <2>3, <2>4
  <2> HIDE DEF new
  <2>6. GenOK(h) /\ h.segs # <<>>
    <3>1. h \in [segs : Seq(Segment), blob : BlobFile]
      BY <1>1, <2>3, <2>5
    <3> HIDE DEF h
    <3>4. \A i \in 1 .. n : Len(h.segs[i].cells) <= SegCells /\ h.segs[i].synced <= Len(h.segs[i].cells)
      BY <1>6, <2>4, <2>5
    <3>5. DOMAIN h.segs = 1 .. n /\ h.segs # <<>>
      BY <1>1, <2>5
    <3> QED
      BY <1>1, <2>5, <3>1, <3>4, <3>5 DEF GenOK
  <2> HIDE DEF h
  <2>7. PutAt(g, h, r, n, m)
    <3>1. ASSUME NEW i \in 1 .. n
          PROVE /\ i # n => h.segs[i] = g.segs[i]
                /\ h.segs[i].synced = g.segs[i].synced
                /\ Len(g.segs[i].cells) <= Len(h.segs[i].cells)
                /\ \A j \in 1 .. Len(g.segs[i].cells) : h.segs[i].cells[j] = g.segs[i].cells[j]
      <4>1. CASE i # n
        <5>1. h.segs[i] = g.segs[i] /\ Len(g.segs[i].cells) \in Nat
          BY <1>6, <2>5, <4>1
        <5> QED
          BY <5>1
      <4>2. CASE i = n
        <5>1. h.segs[i] = new /\ Len(g.segs[i].cells) = m /\ m <= m + r.size
          BY <1>2, <1>3, <2>5, <4>2
        <5> QED
          BY <2>4, <4>2, <5>1
      <4> QED
        BY <4>1, <4>2
    <3>2. Len(h.segs[n].cells) = m + r.size
          /\ \A j \in 1 .. r.size : h.segs[n].cells[m + j] = [rec |-> r, part |-> j]
      BY <1>3, <2>4, <2>5
    <3> QED
      BY <2>5, <2>6, <3>1, <3>2 DEF PutAt
  <2>8. Lengths(h) = UsedAfter(used, at, r.size)
    <3>1. UsedAfter(used, at, r.size) = [used EXCEPT ![n] = m + r.size]
      <4>1. ~(at.seg > Len(used))
        BY <1>1, <1>4, <2>1
      <4> QED
        BY <2>1, <4>1 DEF UsedAfter
    <3>2. DOMAIN h.segs = 1 .. n
      BY <1>1, <2>5
    <3>3. Lengths(h) = [i \in 1 .. n |-> Len(h.segs[i].cells)]
      BY <3>2 DEF Lengths
    <3>4. \A i \in 1 .. n : Len(h.segs[i].cells) = [used EXCEPT ![n] = m + r.size][i]
      <4> TAKE i \in 1 .. n
      <4>0. DOMAIN used = 1 .. n
        BY <1>4
      <4>1. CASE i = n
        BY <2>4, <2>5, <4>0, <4>1
      <4>2. CASE i # n
        BY <1>4, <2>5, <4>0, <4>2
      <4> QED
        BY <4>1, <4>2
    <3>5. DOMAIN [used EXCEPT ![n] = m + r.size] = 1 .. n
      BY <1>4
    <3> QED
      BY <3>1, <3>3, <3>4, <3>5
  <2> QED
    BY <2>1, <2>7, <2>8 DEF h, at, used, c
<1> QED
  BY <1>7, <1>8

\* The last place goes behind the last record.
LEMMA EndOnward ==
  ASSUME NEW g, GenOK(g), g.segs # <<>>
  PROVE  Onward(g, End(g)) = End(g)
<1>1. /\ End(g) \in Spots(g) /\ End(g)[1] = Len(g.segs) /\ Len(g.segs) \in 1 .. Len(g.segs)
      /\ End(g)[2] = Len(g.segs[Len(g.segs)].cells)
  BY EndIn
<1>2. Len(g.segs[Len(g.segs)].cells) \in Nat /\ Len(g.segs) \in Nat
  BY <1>1, SegOK
<1>3. ~(End(g)[2] < Len(g.segs[End(g)[1]].cells))
  BY <1>1, <1>2
<1>4. \A i \in 1 .. Len(g.segs) : End(g)[1] < i => Len(g.segs[i].cells) = 0
  BY <1>1, <1>2
<1> QED
  BY <1>1, <1>2, <1>3, <1>4, OnwardEnd

\* Where reading comes to the last place from, there is nothing further.
LEMMA OnwardToEnd ==
  ASSUME NEW g, GenOK(g), g.segs # <<>>, NEW at \in Spots(g), Onward(g, at) = End(g)
  PROVE  /\ ~(at[2] < Len(g.segs[at[1]].cells))
         /\ \A i \in 1 .. Len(g.segs) : at[1] < i => Len(g.segs[i].cells) = 0
<1>1. /\ End(g)[1] = Len(g.segs) /\ Len(g.segs) \in 1 .. Len(g.segs)
      /\ End(g)[2] = Len(g.segs[Len(g.segs)].cells)
  BY EndIn
<1>2. Len(g.segs[Len(g.segs)].cells) \in Nat
  BY <1>1, SegOK
<1>3. ~(at[2] < Len(g.segs[at[1]].cells) /\ Onward(g, at) = at)
  <2> SUFFICES ASSUME at[2] < Len(g.segs[at[1]].cells), at = End(g) PROVE FALSE
    OBVIOUS
  <2> QED
    BY <1>1, <1>2
<1>4. ASSUME NEW j \in 1 .. Len(g.segs), Len(g.segs[j].cells) > 0, Onward(g, at) = <<j, 0>>
      PROVE FALSE
  <2>1. End(g)[1] = j /\ End(g)[2] = 0
    BY <1>4
  <2> QED
    BY <1>1, <1>2, <1>4, <2>1
<1> QED
  BY <1>3, <1>4, OnwardWays

\* Which makes the walk one record longer and changes nothing before it.
LEMMA PutStands ==
  ASSUME NEW g, GenOK(g), g.segs # <<>>, Clean(g), NEW r \in Rec, r.blob <= Len(g.blob.cells),
         NEW h, NEW s, NEW p, PutAt(g, h, r, s, p)
  PROVE  /\ GenOK(h) /\ h.segs # <<>> /\ Clean(h) /\ Count(h) = Count(g) + 1
         /\ \A k \in 1 .. Count(g) : /\ Walk(h)[k] = Walk(g)[k] /\ Msg(h, k) = Msg(g, k)
                                     /\ RecordAt(h, Walk(h)[k]) = RecordAt(g, Walk(g)[k])
         /\ Walk(h)[Count(h)] = <<s, p>> /\ RecordAt(h, <<s, p>>) = r
         /\ Msg(h, Count(h)) = Payload(r, g.blob.cells)
         /\ \A n \in Int : OnMedium(g, n) => OnMedium(h, n)
<1> DEFINE n == Len(g.segs)
           w == Walk(g)
           st == Start(g, w, Count(g) + 1)
           at == <<s, p>>
<1>1. /\ GenOK(h) /\ h.segs # <<>> /\ Len(h.segs) = s /\ h.blob = g.blob
      /\ \/ s = n /\ p = Len(g.segs[n].cells)
         \/ s = n + 1 /\ p = 0
      /\ Len(h.segs[s].cells) = p + r.size
      /\ \A j \in 1 .. r.size : h.segs[s].cells[p + j] = [rec |-> r, part |-> j]
  BY DEF PutAt
<1>2. \A i \in 1 .. n : /\ i # s => h.segs[i] = g.segs[i]
                        /\ h.segs[i].synced = g.segs[i].synced
                        /\ Len(g.segs[i].cells) <= Len(h.segs[i].cells)
                        /\ \A j \in 1 .. Len(g.segs[i].cells) :
                             h.segs[i].cells[j] = g.segs[i].cells[j]
  BY DEF PutAt
<1>3. /\ n \in Nat /\ n \in 1 .. n /\ n >= 1 /\ Len(g.segs[n].cells) \in Nat
      /\ s \in Nat /\ p \in Nat /\ s >= n /\ s \in 1 .. Len(h.segs)
      /\ r.size \in Nat /\ r.size > 0 /\ r.blob \in Nat
  <2>1. n \in Nat /\ n \in 1 .. n
    BY DEF GenOK
  <2>2. Len(g.segs[n].cells) \in Nat
    BY <2>1, SegOK
  <2> QED
    BY <1>1, <2>1, <2>2, CellsIn DEF Rec
<1>4. /\ Count(g) \in Nat /\ Count(h) \in Nat /\ w[Count(g) + 1] = End(g)
      /\ w[Count(g) + 1] = Onward(g, st) /\ st \in Spots(g)
  BY <1>1, WalkFacts, WalkGoes DEF Clean
<1>5. ASSUME NEW k \in 1 .. Count(g) PROVE StandsAt(g, h, k)
  <2> DEFINE q == w[k]
             o == RecordAt(g, q)
  <2>1. q \in Spots(g) /\ Decodes(g, q)
    BY <1>4, WalkFacts
  <2>2. /\ q[1] \in 1 .. n /\ q[2] \in Nat /\ o.size \in Nat
        /\ q[2] + o.size <= Len(g.segs[q[1]].cells)
        /\ o.blob <= Len(g.blob.cells) /\ o.blob \in Nat
    BY <2>1, DecodesIn
  <2>3. /\ Len(g.segs[q[1]].cells) <= Len(h.segs[q[1]].cells)
        /\ \A j \in 1 .. Len(g.segs[q[1]].cells) : h.segs[q[1]].cells[j] = g.segs[q[1]].cells[j]
    BY <1>2, <2>2
  <2>9. q[1] \in 1 .. Len(h.segs)
    BY <1>1, <1>3, <2>2
  <2>4. Len(g.segs[q[1]].cells) \in Nat /\ Len(h.segs[q[1]].cells) \in Nat
    BY <1>1, <2>2, <2>9, SegOK
  <2>10. q[2] \in Nat /\ o.size \in Nat /\ q[2] + o.size <= Len(g.segs[q[1]].cells)
    BY <2>2
  <2>5. \A i \in 1 .. n : i < q[1] => Len(h.segs[i].cells) = Len(g.segs[i].cells)
    <3> TAKE i \in 1 .. n
    <3> SUFFICES ASSUME i < q[1] PROVE Len(h.segs[i].cells) = Len(g.segs[i].cells)
      OBVIOUS
    <3>1. i # s
      BY <1>3, <2>2
    <3> QED
      BY <1>2, <3>1
  <2> HIDE DEF o
  <2>11. \A x, y \in Nat : \A a, b \in Nat : x + y <= a /\ a <= b => x + y <= b
    OBVIOUS
  <2>6. q[2] + o.size <= Len(h.segs[q[1]].cells)
    BY <2>3, <2>4, <2>10, <2>11
  <2>7. \A j \in 1 .. o.size : h.segs[q[1]].cells[q[2] + j] = g.segs[q[1]].cells[q[2] + j]
    <3> TAKE j \in 1 .. o.size
    <3>2. \A x, y \in Nat : \A a \in Nat : \A i \in 1 .. y : x + y <= a => x + i \in 1 .. a
      OBVIOUS
    <3>1. q[2] + j \in 1 .. Len(g.segs[q[1]].cells)
      BY <2>4, <2>10, <3>2
    <3> QED
      BY <2>3, <3>1
  <2>8. o.blob <= Len(h.blob.cells) /\ (o.blob # 0 => h.blob.cells[o.blob] = g.blob.cells[o.blob])
    BY <1>1, <2>2
  <2> QED
    BY <1>1, <2>5, <2>6, <2>7, <2>8, <2>9 DEF StandsAt, o
<1>6. Alike(g, h, Count(g))
  BY <1>1, <1>4, <1>5 DEF Alike, Stand
<1>7. /\ Count(g) <= Count(h)
      /\ \A k \in 1 .. Count(g) : /\ Walk(h)[k] = w[k] /\ Msg(h, k) = Msg(g, k)
                                  /\ RecordAt(h, Walk(h)[k]) = RecordAt(g, w[k])
      /\ Start(h, Walk(h), Count(g) + 1) = st
  BY <1>6, Standing
<1> HIDE DEF st, w
<1>8. at \in Spots(h) /\ at[1] = s /\ at[2] = p /\ at[2] < Len(h.segs[at[1]].cells)
  BY <1>1, <1>3 DEF Spots
<1>9. RecordAt(h, at) = r
  <2>1. 1 \in 1 .. r.size
    BY <1>3
  <2>2. h.segs[s].cells[p + 1] = [rec |-> r, part |-> 1]
    BY <1>1, <2>1
  <2> QED
    BY <1>8, <2>2 DEF RecordAt
<1>10. Decodes(h, at)
  <2>1. \A j \in 1 .. r.size : h.segs[at[1]].cells[at[2] + j] = [rec |-> r, part |-> j]
    BY <1>1, <1>8
  <2>2. at[2] + r.size <= Len(h.segs[at[1]].cells)
    BY <1>1, <1>3, <1>8
  <2>3. Decodes(h, at) <=>
           /\ at[2] < Len(h.segs[at[1]].cells)
           /\ at[2] + RecordAt(h, at).size <= Len(h.segs[at[1]].cells)
           /\ \A j \in 1 .. RecordAt(h, at).size :
                h.segs[at[1]].cells[at[2] + j] = [rec |-> RecordAt(h, at), part |-> j]
           /\ RecordAt(h, at).blob <= Len(h.blob.cells)
    BY <1>1, <1>8, DecodesIs
  <2> HIDE DEF at
  <2> QED
    BY <1>1, <1>8, <1>9, <2>1, <2>2, <2>3
<1>11. Onward(h, st) = at
  <2>1. /\ ~(st[2] < Len(g.segs[st[1]].cells))
        /\ \A i \in 1 .. n : st[1] < i => Len(g.segs[i].cells) = 0
    BY <1>4, OnwardToEnd
  <2>2. /\ st[1] \in 1 .. n /\ st[1] \in Nat /\ st[2] \in Nat /\ st = <<st[1], st[2]>>
        /\ st[2] <= Len(g.segs[st[1]].cells)
    BY <1>4 DEF Spots
  <2>3. Len(g.segs[st[1]].cells) \in Nat
    BY <2>2, SegOK
  <2>4. st[2] = Len(g.segs[st[1]].cells)
    BY <2>1, <2>2, <2>3
  <2>5. CASE s = n /\ st[1] = n
    <3>1. p = Len(g.segs[n].cells)
      BY <1>1, <1>3, <2>5
    <3>2. st = at
      BY <2>2, <2>4, <2>5, <3>1
    <3> QED
      BY <1>8, <3>2, OnwardHere
  <2>6. CASE ~(s = n /\ st[1] = n)
    <3>1. st[1] < s
      BY <1>1, <1>3, <2>2, <2>6
    <3>2. p = 0
      <4>1. CASE s = n
        BY <1>1, <1>3, <2>1, <3>1, <4>1
      <4>2. CASE s # n
        BY <1>1, <4>2
      <4> QED
        BY <4>1, <4>2
    <3>3. ~(st[2] < Len(h.segs[st[1]].cells))
      <4>1. st[1] # s
        BY <1>3, <2>2, <3>1
      <4>2. h.segs[st[1]] = g.segs[st[1]]
        BY <1>2, <2>2, <4>1
      <4> QED
        BY <2>1, <4>2
    <3>4. ASSUME NEW i \in 1 .. Len(h.segs), st[1] < i, i < s PROVE Len(h.segs[i].cells) = 0
      <4>1. i \in 1 .. n /\ i # s
        BY <1>1, <1>3, <3>4
      <4> QED
        BY <1>2, <2>1, <3>4, <4>1
    <3>5. Len(h.segs[s].cells) > 0
      BY <1>1, <1>3
    <3>6. Onward(h, st) = <<s, 0>>
      <4>1. GenOK(h) /\ s \in 1 .. Len(h.segs) /\ st[1] \in Nat
        BY <1>1, <1>3, <2>2
      <4> QED
        BY <3>1, <3>3, <3>4, <3>5, <4>1, OnwardThere
    <3> QED
      BY <3>2, <3>6
  <2> QED
    BY <2>5, <2>6
<1>12. Walk(h)[Count(g) + 1] = at /\ Count(g) + 1 <= Count(h)
  BY ZenonT(40), <1>1, <1>4, <1>7, <1>10, <1>11, WalkGoes
<1>13. Walk(h)[Count(g) + 2] = End(h)
  <2>1. Count(g) + 1 \in Nat /\ (Count(g) + 1) + 1 = Count(g) + 2 /\ (Count(g) + 2) - 1 = Count(g) + 1
        /\ Count(g) + 2 # 1
    BY <1>4
  <2>2. Walk(h)[Count(g) + 2] = Onward(h, Start(h, Walk(h), Count(g) + 2))
    BY <1>1, <1>12, <2>1, WalkGoes
  <2>3. Start(h, Walk(h), Count(g) + 2) = After(h, at)
    BY <1>12, <2>1 DEF Start
  <2>4. After(h, at) = End(h)
    <3>1. After(h, at) = <<s, p + r.size>>
      BY <1>8, <1>9 DEF After
    <3>2. Last(h.segs) = h.segs[s]
      BY <1>1 DEF Last
    <3> QED
      BY <1>1, <3>1, <3>2 DEF End
  <2> QED
    BY <1>1, <2>2, <2>3, <2>4, EndOnward
<1>14. Count(h) = Count(g) + 1
  <2>1. Count(g) + 1 \in Nat /\ (Count(g) + 1) + 1 = Count(g) + 2
    BY <1>4
  <2>2. ~Decodes(h, Walk(h)[(Count(g) + 1) + 1])
    BY <1>1, <1>13, <2>1, EndNot
  <2> QED
    BY <1>1, <1>12, <2>1, <2>2, WalkGoes
<1>15. Clean(h)
  <2>1. (Count(g) + 1) + 1 = Count(g) + 2
    BY <1>4
  <2> QED
    BY <1>1, <1>13, <1>14, <2>1, WalkFacts DEF Clean
<1>16. Msg(h, Count(h)) = Payload(r, g.blob.cells)
  BY <1>1, <1>9, <1>12, <1>14 DEF Msg
<1>17. ASSUME NEW l \in Int, OnMedium(g, l) PROVE OnMedium(h, l)
  <2>1. \A i \in 1 .. Len(g.segs) : g.segs[i].synced <= h.segs[i].synced
    <3> TAKE i \in 1 .. Len(g.segs)
    <3>1. g.segs[i].synced \in Nat
      BY SegOK
    <3> QED
      BY <1>2, <3>1
  <2>2. g.blob.synced <= h.blob.synced
    <3>1. g.blob.synced \in Nat
      BY BlobOK
    <3> QED
      BY <1>1, <3>1
  <2> QED
    BY <1>6, <1>17, <2>1, <2>2, MediumStands
<1> QED
  BY <1>1, <1>7, <1>9, <1>12, <1>14, <1>15, <1>16, <1>17 DEF w

-----------------------------------------------------------------------------
\* What a crash leaves of the files.
CutOf(g, h) ==
    /\ GenOK(h) /\ Len(h.segs) = Len(g.segs)
    /\ \A i \in 1 .. Len(g.segs) :
         /\ g.segs[i].synced <= h.segs[i].synced
         /\ h.segs[i].synced = Len(h.segs[i].cells)
         /\ Len(h.segs[i].cells) <= Len(g.segs[i].cells)
         /\ \A j \in 1 .. Len(h.segs[i].cells) : h.segs[i].cells[j] = g.segs[i].cells[j]
    /\ g.blob.synced <= h.blob.synced
    /\ h.blob.synced = Len(h.blob.cells)
    /\ Len(h.blob.cells) <= Len(g.blob.cells)
    /\ \A j \in 1 .. Len(h.blob.cells) : h.blob.cells[j] = g.blob.cells[j]

\* What a crash leaves of a file is a prefix, with all that was on the medium.
LEMMA CutFile ==
  ASSUME NEW S, NEW f, f.cells \in Seq(S), f.synced \in Nat, f.synced <= Len(f.cells),
         NEW c \in Cuts(f)
  PROVE  /\ c = [cells |-> c.cells, synced |-> c.synced]
         /\ c.cells \in Seq(S) /\ c.synced \in Nat /\ c.synced = Len(c.cells)
         /\ f.synced <= c.synced /\ Len(c.cells) <= Len(f.cells)
         /\ \A j \in 1 .. Len(c.cells) : c.cells[j] = f.cells[j]
<1>1. PICK n \in f.synced .. Len(f.cells) : c = [cells |-> SubSeq(f.cells, 1, n), synced |-> n]
  BY DEF Cuts
<1> DEFINE a == f.cells
<1>2. a \in Seq(S) /\ n \in 0 .. Len(a) /\ Len(a) \in Nat
  <2>1. Len(f.cells) \in Nat
    OBVIOUS
  <2> QED
    BY <1>1, <2>1
<1> HIDE DEF a
<1>3. /\ SubSeq(a, 1, n) \in Seq(S) /\ Len(SubSeq(a, 1, n)) = n
      /\ \A j \in 1 .. n : SubSeq(a, 1, n)[j] = a[j]
  BY <1>2
<1>4. c.cells = SubSeq(a, 1, n) /\ c.synced = n
  BY <1>1 DEF a
<1> QED
  BY <1>1, <1>2, <1>3, <1>4 DEF a

\* What a crash leaves of a generation, file by file.
LEMMA CutIs ==
  ASSUME NEW g, GenOK(g), NEW h \in GenCuts(g)
  PROVE  CutOf(g, h)
<1>1. PICK t, b : /\ h = [segs |-> t, blob |-> b] /\ b \in Cuts(g.blob)
                  /\ t \in [DOMAIN g.segs -> UNION { Cuts(g.segs[i]) : i \in DOMAIN g.segs }]
                  /\ \A i \in DOMAIN t : t[i] \in Cuts(g.segs[i])
  BY DEF GenCuts
<1>2. DOMAIN g.segs = 1 .. Len(g.segs) /\ Len(g.segs) \in Nat
  BY DEF GenOK
<1>3. /\ t = [i \in 1 .. Len(g.segs) |-> t[i]] /\ DOMAIN t = 1 .. Len(g.segs)
      /\ \A i \in 1 .. Len(g.segs) : t[i] \in Cuts(g.segs[i])
  BY <1>1, <1>2
<1>4. ASSUME NEW i \in 1 .. Len(g.segs)
      PROVE  /\ t[i] \in Segment /\ t[i].synced = Len(t[i].cells)
             /\ g.segs[i].synced <= t[i].synced /\ Len(t[i].cells) <= Len(g.segs[i].cells)
             /\ Len(t[i].cells) <= SegCells /\ t[i].synced <= Len(t[i].cells)
             /\ \A j \in 1 .. Len(t[i].cells) : t[i].cells[j] = g.segs[i].cells[j]
  <2>1. /\ g.segs[i].cells \in Seq(Cell) /\ g.segs[i].synced \in Nat
        /\ g.segs[i].synced <= Len(g.segs[i].cells)
        /\ Len(g.segs[i].cells) \in Nat /\ Len(g.segs[i].cells) <= SegCells
    BY SegOK
  <2>2. t[i] \in Cuts(g.segs[i])
    BY <1>3
  <2>3. /\ t[i] = [cells |-> t[i].cells, synced |-> t[i].synced]
        /\ t[i].cells \in Seq(Cell) /\ t[i].synced \in Nat /\ t[i].synced = Len(t[i].cells)
        /\ g.segs[i].synced <= t[i].synced /\ Len(t[i].cells) <= Len(g.segs[i].cells)
        /\ \A j \in 1 .. Len(t[i].cells) : t[i].cells[j] = g.segs[i].cells[j]
    <3> DEFINE f == g.segs[i]
               c == t[i]
    <3>1. f.cells \in Seq(Cell) /\ f.synced \in Nat /\ f.synced <= Len(f.cells) /\ c \in Cuts(f)
      BY <2>1, <2>2
    <3> HIDE DEF f, c
    <3>2. /\ c = [cells |-> c.cells, synced |-> c.synced]
          /\ c.cells \in Seq(Cell) /\ c.synced \in Nat /\ c.synced = Len(c.cells)
          /\ f.synced <= c.synced /\ Len(c.cells) <= Len(f.cells)
          /\ \A j \in 1 .. Len(c.cells) : c.cells[j] = f.cells[j]
      BY <3>1, CutFile
    <3> QED
      BY <3>2 DEF f, c
  <2>4. t[i] \in Segment
    BY <2>3 DEF Segment
  <2> QED
    BY <2>1, <2>3, <2>4, Bounds
<1>5. t \in Seq(Segment) /\ Len(t) = Len(g.segs)
  BY SMTT(30), <1>2, <1>3, <1>4
<1>6. /\ b = [cells |-> b.cells, synced |-> b.synced]
      /\ b.cells \in Seq(Ids) /\ b.synced \in Nat /\ b.synced = Len(b.cells)
      /\ g.blob.synced <= b.synced /\ Len(b.cells) <= Len(g.blob.cells)
      /\ \A j \in 1 .. Len(b.cells) : b.cells[j] = g.blob.cells[j]
  <2>1. g.blob.cells \in Seq(Ids) /\ g.blob.synced \in Nat /\ g.blob.synced <= Len(g.blob.cells)
    BY BlobOK
  <2> QED
    BY SMTT(30), <1>1, <2>1, CutFile
<1>7. b \in BlobFile
  BY <1>6 DEF BlobFile
<1>8. GenOK(h)
  <2>1. h \in [segs : Seq(Segment), blob : BlobFile] /\ h.segs = t /\ h.blob = b
    BY <1>1, <1>5, <1>7
  <2>2. h.blob.synced <= Len(h.blob.cells)
    BY <1>6, <2>1
  <2> QED
    BY <1>3, <1>4, <2>1, <2>2 DEF GenOK
<1>9. h.segs = t /\ h.blob = b
  BY <1>1
<1> QED
  BY <1>4, <1>5, <1>6, <1>8, <1>9 DEF CutOf

\* A file with nothing in the page cache is its own cut.
LEMMA CutSynced ==
  ASSUME NEW g, GenOK(g), g = AllSynced(g)
  PROVE  CutOf(g, g)
<1>1. DOMAIN g.segs = 1 .. Len(g.segs) /\ Len(g.segs) \in Nat
  BY DEF GenOK
<1>2. ASSUME NEW i \in 1 .. Len(g.segs)
      PROVE  g.segs[i].synced = Len(g.segs[i].cells) /\ Len(g.segs[i].cells) \in Nat
  <2>1. g.segs[i] = Synced(g.segs[i])
    <3>1. g.segs = [j \in DOMAIN g.segs |-> Synced(g.segs[j])]
      BY DEF AllSynced
    <3> QED
      BY <1>1, <3>1
  <2>2. /\ g.segs[i] = [cells |-> g.segs[i].cells, synced |-> g.segs[i].synced]
        /\ Len(g.segs[i].cells) \in Nat
    BY SegOK
  <2> QED
    BY <2>1, <2>2 DEF Synced
<1>3. g.blob.synced = Len(g.blob.cells) /\ Len(g.blob.cells) \in Nat
  <2>1. g.blob = Synced(g.blob)
    BY DEF AllSynced
  <2>2. g.blob = [cells |-> g.blob.cells, synced |-> g.blob.synced] /\ Len(g.blob.cells) \in Nat
    BY BlobOK
  <2> QED
    BY <2>1, <2>2 DEF Synced
<1>4. \A i \in 1 .. Len(g.segs) :
         /\ g.segs[i].synced <= g.segs[i].synced
         /\ g.segs[i].synced = Len(g.segs[i].cells)
         /\ Len(g.segs[i].cells) <= Len(g.segs[i].cells)
  BY <1>2
<1>5. g.blob.synced <= g.blob.synced /\ Len(g.blob.cells) <= Len(g.blob.cells)
  BY <1>3
<1> QED
  BY <1>3, <1>4, <1>5 DEF CutOf

\* The records on the medium stand, and of what is left all is on the medium.
LEMMA CutStands ==
  ASSUME NEW g, GenOK(g), g.segs # <<>>, NEW h, CutOf(g, h), NEW n \in Int, OnMedium(g, n)
  PROVE  /\ GenOK(h) /\ h.segs # <<>> /\ n <= Count(h) /\ OnMedium(h, Count(h))
         /\ \A k \in 1 .. n : Walk(h)[k] = Walk(g)[k] /\ Msg(h, k) = Msg(g, k)
<1>1. /\ GenOK(h) /\ Len(h.segs) = Len(g.segs) /\ Len(g.segs) \in Nat /\ h.segs # <<>>
      /\ Count(g) \in Nat
  <2>1. GenOK(h) /\ Len(h.segs) = Len(g.segs)
    BY DEF CutOf
  <2>2. Len(g.segs) \in Nat /\ Len(g.segs) # 0
    BY DEF GenOK
  <2> QED
    BY <2>1, <2>2, WalkFacts
<1>2. n <= Count(g) /\ \A k \in 1 .. n : Kept(g, Walk(g)[k])
  BY DEF OnMedium
<1>3. ASSUME NEW i \in 1 .. Len(g.segs)
      PROVE  /\ Len(g.segs[i].cells) \in Nat /\ Len(h.segs[i].cells) \in Nat
             /\ g.segs[i].synced \in Nat /\ g.segs[i].synced <= Len(h.segs[i].cells)
             /\ Len(h.segs[i].cells) <= Len(g.segs[i].cells)
             /\ \A j \in 1 .. Len(h.segs[i].cells) : h.segs[i].cells[j] = g.segs[i].cells[j]
  <2>1. Len(g.segs[i].cells) \in Nat /\ g.segs[i].synced \in Nat
    BY SegOK
  <2>2. Len(h.segs[i].cells) \in Nat
    BY <1>1, SegOK
  <2>3. /\ g.segs[i].synced <= h.segs[i].synced
        /\ h.segs[i].synced = Len(h.segs[i].cells)
        /\ Len(h.segs[i].cells) <= Len(g.segs[i].cells)
        /\ \A j \in 1 .. Len(h.segs[i].cells) : h.segs[i].cells[j] = g.segs[i].cells[j]
    BY DEF CutOf
  <2> QED
    BY <2>1, <2>2, <2>3
<1>4. /\ g.blob.synced \in Nat /\ g.blob.synced <= Len(h.blob.cells) /\ Len(h.blob.cells) \in Nat
      /\ \A j \in 1 .. Len(h.blob.cells) : h.blob.cells[j] = g.blob.cells[j]
  BY <1>1, BlobOK DEF CutOf
<1>5. ASSUME NEW k \in 1 .. n
      PROVE  /\ Walk(g)[k] \in Spots(g) /\ Decodes(g, Walk(g)[k]) /\ k \in 1 .. Count(g)
             /\ Walk(g)[k][1] \in 1 .. Len(g.segs) /\ Walk(g)[k][2] \in Nat
             /\ RecordAt(g, Walk(g)[k]).size \in Nat /\ RecordAt(g, Walk(g)[k]).size > 0
             /\ RecordAt(g, Walk(g)[k]).blob \in Nat
             /\ After(g, Walk(g)[k])[1] = Walk(g)[k][1]
             /\ After(g, Walk(g)[k])[2] = Walk(g)[k][2] + RecordAt(g, Walk(g)[k]).size
             /\ Walk(g)[k][2] + RecordAt(g, Walk(g)[k]).size <= g.segs[Walk(g)[k][1]].synced
             /\ RecordAt(g, Walk(g)[k]).blob <= g.blob.synced
  <2>1. k \in 1 .. Count(g)
    BY <1>1, <1>2
  <2>2. Walk(g)[k] \in Spots(g) /\ Decodes(g, Walk(g)[k])
    BY <1>1, <2>1, WalkFacts
  <2>3. Kept(g, Walk(g)[k])
    BY <1>2
  <2> QED
    BY <2>1, <2>2, <2>3, DecodesIn DEF Kept
<1>6. ASSUME NEW k \in 1 .. n PROVE StandsAt(g, h, k)
  <2> DEFINE q == Walk(g)[k]
             r == RecordAt(g, q)
             s == Start(g, Walk(g), k)
             x == q[1]
             y == q[2]
             z == r.size
             len == Len(h.segs[x].cells)
  <2>1. x \in 1 .. Len(g.segs) /\ y \in Nat /\ z \in Nat /\ z > 0 /\ y + z <= g.segs[x].synced
    BY <1>5
  <2>2. len \in Nat /\ g.segs[x].synced \in Nat /\ g.segs[x].synced <= len
        /\ \A j \in 1 .. len : h.segs[x].cells[j] = g.segs[x].cells[j]
    BY <1>3, <2>1
  <2>3. y + z <= len
    <3> HIDE DEF x, y, z, len
    <3>1. PICK c \in Nat : c = g.segs[x].synced
      BY <2>2
    <3> QED
      BY <2>1, <2>2, <3>1
  <2>4. \A j \in 1 .. z : h.segs[x].cells[y + j] = g.segs[x].cells[y + j]
    <3> TAKE j \in 1 .. z
    <3> HIDE DEF x, y, z, len
    <3>1. y + j \in 1 .. len
      BY <2>1, <2>2, <2>3
    <3> QED
      BY <2>2, <3>1
  <2>5. r.blob <= Len(h.blob.cells) /\ (r.blob # 0 => h.blob.cells[r.blob] = g.blob.cells[r.blob])
    <3> DEFINE b == r.blob
    <3>1. b \in Nat /\ b <= g.blob.synced
      BY <1>5
    <3> HIDE DEF b
    <3>2. b <= Len(h.blob.cells) /\ (b # 0 => b \in 1 .. Len(h.blob.cells))
      BY <1>4, <3>1
    <3> QED
      BY <1>4, <3>2 DEF b
  <2>6. s \in Spots(g) /\ q = Onward(g, s) /\ q \in Spots(g) /\ Decodes(g, q)
    <3>1. k \in 1 .. Len(Walk(g)) /\ Path(g, Walk(g))
      BY <1>1, <1>5, WalkFacts
    <3> QED
      BY <1>5, <3>1, PathIn
  <2>7. /\ s[1] \in 1 .. Len(g.segs) /\ s[2] \in Nat /\ s[2] <= Len(g.segs[s[1]].cells)
    BY <2>6 DEF Spots
  <2>8. s[2] <= g.segs[s[1]].synced
    <3>1. CASE k = 1
      BY <1>3, <2>7, <3>1 DEF Start
    <3>2. CASE k # 1
      <4>1. k - 1 \in 1 .. n
        BY <3>2
      <4>2. s = After(g, Walk(g)[k - 1])
        BY <3>2 DEF Start
      <4> HIDE DEF s
      <4> QED
        BY <1>5, <4>1, <4>2
    <3> QED
      BY <3>1, <3>2
  <2> HIDE DEF q, r, s
  <2>9. ASSUME NEW i \in 1 .. Len(g.segs), s[1] <= i, i < q[1]
        PROVE  Len(h.segs[i].cells) = Len(g.segs[i].cells)
    <3>1. /\ ~(s[2] < Len(g.segs[s[1]].cells))
          /\ \A j \in 1 .. Len(g.segs) : s[1] < j /\ j < q[1] => Len(g.segs[j].cells) = 0
      <4>1. CASE q = s
        BY <2>7, <2>9, <4>1
      <4>2. CASE q = End(g)
        BY <1>1, <2>6, <4>2, EndNot
      <4>3. ASSUME ~(s[2] < Len(g.segs[s[1]].cells)),
                   NEW j \in 1 .. Len(g.segs), q = <<j, 0>>,
                   \A l \in 1 .. Len(g.segs) : s[1] < l /\ l < j => Len(g.segs[l].cells) = 0
            PROVE  /\ ~(s[2] < Len(g.segs[s[1]].cells))
                   /\ \A l \in 1 .. Len(g.segs) : s[1] < l /\ l < q[1] => Len(g.segs[l].cells) = 0
        <5>1. q[1] = j
          BY <4>3
        <5> QED
          BY <4>3, <5>1
      <4> QED
        BY <2>6, <4>1, <4>2, <4>3, OnwardWays
    <3>2. CASE i = s[1]
      <4>1. /\ Len(g.segs[i].cells) \in Nat /\ Len(h.segs[i].cells) \in Nat
            /\ g.segs[i].synced \in Nat /\ g.segs[i].synced <= Len(h.segs[i].cells)
            /\ Len(h.segs[i].cells) <= Len(g.segs[i].cells)
        BY <1>3
      <4>2. /\ ~(s[2] < Len(g.segs[i].cells)) /\ s[2] \in Nat /\ s[2] <= Len(g.segs[i].cells)
            /\ s[2] <= g.segs[i].synced
        BY <2>7, <2>8, <3>1, <3>2
      <4>3. \A a, b \in Nat : \A c, d \in Nat :
              ~(a < b) /\ a <= b /\ a <= c /\ c <= d /\ d <= b => d = b
        OBVIOUS
      <4> QED
        BY <4>1, <4>2, <4>3
    <3>3. CASE i # s[1]
      <4>1. s[1] < i
        BY <2>7, <2>9, <3>3
      <4>2. Len(g.segs[i].cells) = 0
        BY <2>9, <3>1, <4>1
      <4>3. Len(h.segs[i].cells) \in Nat /\ Len(h.segs[i].cells) <= Len(g.segs[i].cells)
        BY <1>3
      <4> QED
        BY <4>2, <4>3
    <3> QED
      BY <3>2, <3>3
  <2>10. x \in 1 .. Len(h.segs)
    BY <1>1, <2>1
  <2> QED
    BY <2>3, <2>4, <2>5, <2>9, <2>10 DEF StandsAt, q, r, s
<1>7. OnMedium(h, Count(h))
  <2>1. Count(h) \in Nat
    BY <1>1, WalkFacts
  <2>2. ASSUME NEW k \in 1 .. Count(h) PROVE Kept(h, Walk(h)[k])
    <3>1. Walk(h)[k] \in Spots(h) /\ Decodes(h, Walk(h)[k])
      BY <1>1, <2>1, WalkFacts
    <3>2. /\ Walk(h)[k][1] \in 1 .. Len(h.segs)
          /\ Walk(h)[k][2] + RecordAt(h, Walk(h)[k]).size <= Len(h.segs[Walk(h)[k][1]].cells)
          /\ RecordAt(h, Walk(h)[k]).blob <= Len(h.blob.cells)
      BY <1>1, <3>1, DecodesIn
    <3>3. /\ h.segs[Walk(h)[k][1]].synced = Len(h.segs[Walk(h)[k][1]].cells)
          /\ h.blob.synced = Len(h.blob.cells)
      BY <1>1, <3>2 DEF CutOf
    <3> QED
      BY <3>2, <3>3 DEF Kept
  <2> QED
    BY <2>1, <2>2 DEF OnMedium
<1>8. n <= Count(h) /\ \A k \in 1 .. n : Walk(h)[k] = Walk(g)[k] /\ Msg(h, k) = Msg(g, k)
  <2>1. CASE n \in Nat
    <3>1. Alike(g, h, n)
      BY <1>1, <1>2, <1>6, <2>1 DEF Alike, Stand
    <3> QED
      BY <3>1, Standing
  <2>2. CASE n \notin Nat
    <3>1. Count(h) \in Nat
      BY <1>1, WalkFacts
    <3> QED
      BY <2>2, <3>1
  <2> QED
    BY <2>1, <2>2
<1> QED
  BY <1>1, <1>7, <1>8

-----------------------------------------------------------------------------
\* Recovery.
Upto(a, b) == a[1] < b[1] \/ (a[1] = b[1] /\ a[2] <= b[2])

\* Reading never goes back.
LEMMA OnwardUpto ==
  ASSUME NEW g, GenOK(g), g.segs # <<>>, NEW at \in Spots(g)
  PROVE  Upto(at, Onward(g, at))
<1>1. at[1] \in 1 .. Len(g.segs) /\ at[2] \in Nat /\ at[2] <= Len(g.segs[at[1]].cells)
  BY DEF Spots
<1>2. CASE Onward(g, at) = at
  BY <1>1, <1>2 DEF Upto
<1>3. CASE Onward(g, at) = End(g)
  <2>1. /\ End(g)[1] = Len(g.segs) /\ Len(g.segs) \in 1 .. Len(g.segs)
        /\ End(g)[2] = Len(g.segs[Len(g.segs)].cells)
    BY EndIn
  <2>2. CASE at[1] = Len(g.segs)
    BY <1>1, <1>3, <2>1, <2>2 DEF Upto
  <2>3. CASE at[1] # Len(g.segs)
    BY <1>1, <1>3, <2>1, <2>3 DEF Upto
  <2> QED
    BY <2>2, <2>3
<1>4. ASSUME NEW j \in 1 .. Len(g.segs), at[1] < j, Onward(g, at) = <<j, 0>>
      PROVE  Upto(at, Onward(g, at))
  BY <1>4 DEF Upto
<1> QED
  BY <1>2, <1>3, <1>4, OnwardWays

\* Every record ends before the walk does.
LEMMA BeforeEnd ==
  ASSUME NEW g, GenOK(g), g.segs # <<>>, NEW k \in 1 .. Count(g)
  PROVE  Upto(After(g, Walk(g)[k]), EndOfLog(g))
<1> DEFINE w == Walk(g)
           n == Count(g)
           a == After(g, w[k])
           Q == { i \in Nat : k + 1 + i <= n + 1 => Upto(a, w[k + 1 + i]) }
<1>1. /\ n \in Nat /\ Len(w) = n + 1 /\ EndOfLog(g) = w[n + 1] /\ k \in Nat /\ k >= 1 /\ k <= n
      /\ \A i \in 1 .. n + 1 : w[i] \in Spots(g)
      /\ \A i \in 1 .. n : Decodes(g, w[i])
  BY WalkFacts
<1>2. \A i \in 1 .. n : w[i + 1] = Onward(g, After(g, w[i]))
  <2> TAKE i \in 1 .. n
  <2>1. i \in Nat /\ i <= Count(g) /\ (i + 1) - 1 = i /\ i + 1 # 1
    BY <1>1
  <2>2. w[i + 1] = Onward(g, Start(g, w, i + 1))
    BY <2>1, WalkGoes
  <2> QED
    BY <2>1, <2>2 DEF Start
<1>3. \A i \in 1 .. n : /\ After(g, w[i]) \in Spots(g) /\ After(g, w[i])[1] = w[i][1]
                        /\ After(g, w[i])[2] \in Nat /\ w[i][2] \in Nat /\ w[i][1] \in Nat
                        /\ w[i][2] <= After(g, w[i])[2]
  <2> TAKE i \in 1 .. n
  <2>1. w[i] \in Spots(g) /\ Decodes(g, w[i])
    BY <1>1
  <2> HIDE DEF w
  <2>2. /\ After(g, w[i]) \in Spots(g) /\ After(g, w[i])[1] = w[i][1]
        /\ After(g, w[i])[2] = w[i][2] + RecordAt(g, w[i]).size
        /\ RecordAt(g, w[i]).size \in Nat /\ w[i][2] \in Nat /\ w[i][1] \in Nat
    BY <2>1, DecodesIn
  <2> QED
    BY <2>2
<1> HIDE DEF w, n, a
<1>4. a \in Spots(g) /\ a[1] \in Nat /\ a[2] \in Nat
  <2>1. k \in 1 .. n
    BY <1>1
  <2>2. a \in Spots(g)
    BY <1>3, <2>1 DEF a
  <2> QED
    BY <2>2 DEF Spots
<1>5. 0 \in Q
  <2>1. k \in 1 .. n
    BY <1>1
  <2>2. w[k + 1] = Onward(g, a)
    BY <1>2, <2>1 DEF a
  <2>3. Upto(a, w[k + 1])
    BY <1>4, <2>2, OnwardUpto
  <2> QED
    BY <1>1, <2>3
<1>6. ASSUME NEW i \in Nat, i \in Q PROVE i + 1 \in Q
  <2> SUFFICES ASSUME k + 1 + (i + 1) <= n + 1 PROVE Upto(a, w[k + 1 + (i + 1)])
    OBVIOUS
  <2> DEFINE m == k + 1 + i
  <2>1. m \in 1 .. n /\ k + 1 + (i + 1) = m + 1
    BY <1>1
  <2>2. Upto(a, w[m])
    BY <1>1, <1>6
  <2> HIDE DEF m
  <2> DEFINE b == After(g, w[m])
             c == Onward(g, b)
  <2>3. Upto(b, c) /\ c = w[m + 1] /\ b \in Spots(g) /\ c \in Spots(g)
    BY <1>2, <1>3, <2>1, OnwardUpto, OnwardIn
  <2>4. b[1] = w[m][1] /\ b[2] \in Nat /\ w[m][2] \in Nat /\ w[m][1] \in Nat /\ w[m][2] <= b[2]
    BY <1>3, <2>1
  <2>5. c[1] \in Nat /\ c[2] \in Nat
    BY <2>3 DEF Spots
  <2> HIDE DEF b, c
  <2>6. Upto(a, b)
    BY <1>4, <2>2, <2>4 DEF Upto
  <2>7. Upto(a, c)
    BY <1>4, <2>3, <2>4, <2>5, <2>6 DEF Upto
  <2> QED
    BY <2>1, <2>3, <2>7
<1> HIDE DEF Q
<1>7. n - k \in Q
  <2>1. n - k \in Nat /\ \A i \in 0 .. n - k - 1 : i \in Q => i + 1 \in Q
    BY <1>1, <1>6
  <2>2. \A i \in 0 .. n - k : i \in Q
    BY <1>5, <2>1, Upwards
  <2> QED
    BY <2>1, <2>2
<1>8. k + 1 + (n - k) = n + 1
  BY <1>1
<1>9. Upto(a, w[n + 1])
  BY <1>1, <1>7, <1>8 DEF Q
<1> QED
  BY <1>1, <1>9 DEF a, w

\* What recovery leaves of the files, cut at s, p.
CutAt(g, h, s, p) ==
    /\ GenOK(h) /\ h.segs # <<>> /\ Len(h.segs) = s /\ h.blob = g.blob
    /\ \A i \in 1 .. s - 1 : h.segs[i] = g.segs[i]
    /\ Len(h.segs[s].cells) = p
    /\ \A j \in 1 .. p : h.segs[s].cells[j] = g.segs[s].cells[j]
    /\ h.segs[s].synced = IF g.segs[s].synced <= p THEN g.segs[s].synced ELSE p

\* Recovery cuts the files where the walk ends.
LEMMA RecoveredIs ==
  ASSUME NEW g, GenOK(g), g.segs # <<>>
  PROVE  CutAt(g, Recovered(g), EndOfLog(g)[1], EndOfLog(g)[2])
<1> DEFINE s == EndOfLog(g)[1]
           p == EndOfLog(g)[2]
           a == g.segs[s].cells
           new == [cells |-> SubSeq(a, 1, p), synced |-> Min({g.segs[s].synced, p})]
           h == Recovered(g)
           front == SubSeq(g.segs, 1, s - 1)
<1>1. EndOfLog(g) \in Spots(g)
  <2>1. Count(g) + 1 \in 1 .. Count(g) + 1
    BY WalkFacts
  <2> QED
    BY <2>1, WalkFacts
<1>2. /\ s \in 1 .. Len(g.segs) /\ p \in Nat /\ p <= Len(a) /\ s \in Nat /\ s >= 1
      /\ Len(g.segs) \in Nat /\ g.segs \in Seq(Segment) /\ g = [segs |-> g.segs, blob |-> g.blob]
      /\ g.blob \in BlobFile /\ g.blob.synced <= Len(g.blob.cells)
  BY <1>1 DEF Spots, GenOK
<1>3. /\ a \in Seq(Cell) /\ Len(a) \in Nat /\ Len(a) <= SegCells /\ g.segs[s].synced \in Nat
  BY <1>2, SegOK
<1>4. h = [segs |-> Append(front, new), blob |-> g.blob]
  <2>1. h = [g EXCEPT !.segs = Append(front, new)]
    BY DEF Recovered
  <2> HIDE DEF h, front, new
  <2> QED
    BY <1>2, <2>1
<1> HIDE DEF s, p
<1>5. /\ front \in Seq(Segment) /\ Len(front) = s - 1
      /\ \A i \in 1 .. s - 1 : front[i] = g.segs[i]
  BY <1>2
<1>6. /\ SubSeq(a, 1, p) \in Seq(Cell) /\ Len(SubSeq(a, 1, p)) = p
      /\ \A j \in 1 .. p : SubSeq(a, 1, p)[j] = a[j]
  <2> HIDE DEF a
  <2> QED
    BY <1>2, <1>3
<1>7. Min({g.segs[s].synced, p}) = IF g.segs[s].synced <= p THEN g.segs[s].synced ELSE p
  BY <1>2, <1>3, MinOfTwo
<1>8. /\ new \in Segment /\ Len(new.cells) = p /\ new.synced <= p /\ p <= SegCells
      /\ \A j \in 1 .. p : new.cells[j] = a[j]
      /\ new.synced = IF g.segs[s].synced <= p THEN g.segs[s].synced ELSE p
  <2>1. new.cells = SubSeq(a, 1, p) /\ new.synced = Min({g.segs[s].synced, p})
    OBVIOUS
  <2>2. new.synced \in Nat /\ new.synced <= p
    BY <1>2, <1>3, <1>7, <2>1
  <2>3. p <= SegCells
    BY <1>2, <1>3, Bounds
  <2>4. new \in Segment
    BY <1>6, <2>2 DEF Segment
  <2> HIDE DEF new
  <2> QED
    BY <1>6, <1>7, <2>1, <2>2, <2>3, <2>4
<1> HIDE DEF a, new, front, h
<1>9. /\ h.segs = Append(front, new) /\ h.blob = g.blob
      /\ h.segs \in Seq(Segment) /\ Len(h.segs) = s /\ h.segs[s] = new
      /\ \A i \in 1 .. s - 1 : h.segs[i] = g.segs[i]
  BY <1>2, <1>4, <1>5, <1>8
<1>10. GenOK(h) /\ h.segs # <<>>
  <2>1. h \in [segs : Seq(Segment), blob : BlobFile]
    BY <1>2, <1>4, <1>9
  <2>2. \A i \in 1 .. s : Len(h.segs[i].cells) <= SegCells /\ h.segs[i].synced <= Len(h.segs[i].cells)
    <3> TAKE i \in 1 .. s
    <3>1. CASE i = s
      BY <1>8, <1>9, <3>1
    <3>2. CASE i # s
      <4>1. i \in 1 .. s - 1 /\ i \in 1 .. Len(g.segs)
        BY <1>2, <3>2
      <4> QED
        BY <1>9, <4>1, SegOK
    <3> QED
      BY <3>1, <3>2
  <2>3. DOMAIN h.segs = 1 .. s /\ h.segs # <<>>
    BY <1>2, <1>9
  <2> QED
    BY <1>2, <1>9, <2>1, <2>2, <2>3 DEF GenOK
<1> QED
  BY <1>8, <1>9, <1>10 DEF CutAt, h, s, p, a

\* Which loses no record and leaves nothing behind the last one.
LEMMA RecoveredStands ==
  ASSUME NEW g, GenOK(g), g.segs # <<>>
  PROVE  LET h == Recovered(g) IN
         /\ GenOK(h) /\ h.segs # <<>> /\ Clean(h) /\ Count(h) = Count(g)
         /\ \A k \in 1 .. Count(g) : Walk(h)[k] = Walk(g)[k] /\ Msg(h, k) = Msg(g, k)
         /\ \A n \in Int : OnMedium(g, n) => OnMedium(h, n)
<1> DEFINE h == Recovered(g)
           end == EndOfLog(g)
           n == Count(g)
           w == Walk(g)
           st == Start(g, w, n + 1)
<1>1. CutAt(g, h, end[1], end[2])
  BY RecoveredIs
<1>2. /\ n \in Nat /\ end = w[n + 1] /\ end \in Spots(g) /\ st \in Spots(g) /\ end = Onward(g, st)
  <2>1. Count(g) \in Nat /\ Count(g) + 1 \in 1 .. Count(g) + 1
    BY WalkFacts
  <2> QED
    BY <2>1, WalkFacts, WalkGoes
<1> HIDE DEF h
<1>3. /\ end = <<end[1], end[2]>> /\ end[1] \in 1 .. Len(g.segs) /\ end[2] \in Nat
      /\ end[2] <= Len(g.segs[end[1]].cells) /\ end[1] \in Nat /\ end[1] >= 1
      /\ Len(g.segs) \in Nat
  <2>1. Len(g.segs) \in Nat
    BY DEF GenOK
  <2> QED
    BY <1>2, <2>1 DEF Spots
<1> HIDE DEF end
<1>4. /\ GenOK(h) /\ h.segs # <<>> /\ Len(h.segs) = end[1] /\ h.blob = g.blob
      /\ \A i \in 1 .. end[1] - 1 : h.segs[i] = g.segs[i]
      /\ Len(h.segs[end[1]].cells) = end[2]
      /\ \A j \in 1 .. end[2] : h.segs[end[1]].cells[j] = g.segs[end[1]].cells[j]
      /\ h.segs[end[1]].synced
           = IF g.segs[end[1]].synced <= end[2] THEN g.segs[end[1]].synced ELSE end[2]
  BY <1>1 DEF CutAt
<1>5. End(h) = end
  <2>1. Last(h.segs) = h.segs[Len(h.segs)]
    BY DEF Last
  <2> QED
    BY <1>3, <1>4, <2>1 DEF End
<1>6. ASSUME NEW k \in 1 .. n
      PROVE  LET q == w[k]
                 r == RecordAt(g, q)
             IN /\ q \in Spots(g) /\ Decodes(g, q)
                /\ q[1] \in 1 .. Len(g.segs) /\ q[2] \in Nat /\ r.size \in Nat /\ r.size > 0
                /\ r.blob \in Nat /\ r.blob <= Len(g.blob.cells)
                /\ q[2] + r.size <= Len(g.segs[q[1]].cells)
                /\ q[1] < end[1] \/ (q[1] = end[1] /\ q[2] + r.size <= end[2])
  <2> DEFINE q == w[k]
             r == RecordAt(g, q)
  <2>1. q \in Spots(g) /\ Decodes(g, q)
    BY <1>2, WalkFacts
  <2>2. Upto(After(g, q), end)
    BY BeforeEnd DEF end
  <2> HIDE DEF q
  <2>3. /\ r \in Rec /\ r.size \in Nat /\ r.size > 0
        /\ r.blob \in Nat /\ r.blob <= Len(g.blob.cells)
        /\ q[1] \in 1 .. Len(g.segs) /\ q[2] \in Nat /\ q[1] \in Nat
        /\ q[2] + r.size <= Len(g.segs[q[1]].cells)
        /\ After(g, q)[1] = q[1] /\ After(g, q)[2] = q[2] + r.size
    BY <2>1, DecodesIn
  <2>4. q[1] < end[1] \/ (q[1] = end[1] /\ q[2] + r.size <= end[2])
    BY <2>2, <2>3 DEF Upto
  <2> QED
    BY <2>1, <2>3, <2>4 DEF q
<1>7. ASSUME NEW k \in 1 .. n PROVE StandsAt(g, h, k)
  <2> DEFINE q == w[k]
             r == RecordAt(g, q)
             x == q[1]
             y == q[2]
             z == r.size
  <2>1. /\ x \in 1 .. Len(g.segs) /\ y \in Nat /\ z \in Nat /\ z > 0
        /\ r.blob \in Nat /\ r.blob <= Len(g.blob.cells)
        /\ y + z <= Len(g.segs[x].cells)
        /\ x < end[1] \/ (x = end[1] /\ y + z <= end[2])
    BY <1>6
  <2>2. \A i \in 1 .. Len(g.segs) : i < x => Len(h.segs[i].cells) = Len(g.segs[i].cells)
    <3> TAKE i \in 1 .. Len(g.segs)
    <3> SUFFICES ASSUME i < x PROVE Len(h.segs[i].cells) = Len(g.segs[i].cells)
      OBVIOUS
    <3>1. i \in 1 .. end[1] - 1
      BY <1>3, <2>1
    <3> QED
      BY <1>4, <3>1
  <2>3. x \in 1 .. Len(h.segs) /\ y + z <= Len(h.segs[x].cells)
        /\ \A j \in 1 .. z : h.segs[x].cells[y + j] = g.segs[x].cells[y + j]
    <3> HIDE DEF x, y, z
    <3>1. CASE x < end[1]
      <4>1. x \in 1 .. end[1] - 1
        BY <1>3, <2>1, <3>1
      <4>2. h.segs[x] = g.segs[x]
        BY <1>4, <4>1
      <4>3. x \in 1 .. Len(h.segs)
        BY <1>3, <1>4, <4>1
      <4> QED
        BY <2>1, <4>2, <4>3
    <3>2. CASE x = end[1] /\ y + z <= end[2]
      <4>1. \A j \in 1 .. z : y + j \in 1 .. end[2]
        BY <1>3, <2>1, <3>2
      <4> QED
        BY <1>3, <1>4, <3>2, <4>1
    <3> QED
      BY <2>1, <3>1, <3>2
  <2>4. r.blob <= Len(h.blob.cells) /\ (r.blob # 0 => h.blob.cells[r.blob] = g.blob.cells[r.blob])
    BY <1>4, <2>1
  <2> QED
    BY <2>2, <2>3, <2>4 DEF StandsAt
<1>8. Alike(g, h, n)
  BY <1>2, <1>4, <1>7 DEF Alike, Stand
<1>9. /\ n <= Count(h) /\ Count(h) \in Nat
      /\ \A k \in 1 .. n : /\ Walk(h)[k] = w[k] /\ Msg(h, k) = Msg(g, k)
                           /\ RecordAt(h, Walk(h)[k]) = RecordAt(g, w[k])
      /\ Start(h, Walk(h), n + 1) = st
  BY <1>4, <1>8, Standing, WalkFacts
<1> HIDE DEF st, w, n
<1>10. st[1] \in 1 .. Len(g.segs) /\ st[1] \in Nat /\ st[2] \in Nat
       /\ st[2] <= Len(g.segs[st[1]].cells) /\ Len(g.segs[st[1]].cells) \in Nat
  <2>1. st[1] \in 1 .. Len(g.segs) /\ st[1] \in Nat /\ st[2] \in Nat
       /\ st[2] <= Len(g.segs[st[1]].cells)
    BY <1>2 DEF Spots
  <2> QED
    BY <2>1, SegOK
<1>11. Onward(h, st) = End(h)
  <2>1. CASE end = st
    BY <1>4, <1>5, <2>1, EndOnward
  <2>2. ASSUME ~(st[2] < Len(g.segs[st[1]].cells)),
               NEW j \in 1 .. Len(g.segs), st[1] < j, end = <<j, 0>>,
               \A i \in 1 .. Len(g.segs) : st[1] < i /\ i < j => Len(g.segs[i].cells) = 0
        PROVE  Onward(h, st) = End(h)
    <3>1. end[1] = j /\ end[2] = 0
      BY <2>2
    <3>2. h.segs[st[1]] = g.segs[st[1]]
      <4>1. st[1] \in 1 .. end[1] - 1
        BY <1>3, <1>10, <2>2, <3>1
      <4> QED
        BY <1>4, <4>1
    <3>3. ~(st[2] < Len(h.segs[st[1]].cells))
      BY <2>2, <3>2
    <3>4. ASSUME NEW i \in 1 .. Len(h.segs), st[1] < i PROVE Len(h.segs[i].cells) = 0
      <4>1. CASE i = j
        BY <1>4, <3>1, <4>1
      <4>2. CASE i # j
        <5>1. i \in 1 .. end[1] - 1 /\ i \in 1 .. Len(g.segs) /\ i < j
          BY <1>3, <1>4, <3>1, <4>2
        <5> QED
          BY <1>4, <2>2, <3>4, <5>1
      <4> QED
        BY <4>1, <4>2
    <3> QED
      BY <1>4, <1>10, <3>3, <3>4, OnwardEnd
  <2>3. ASSUME ~(st[2] < Len(g.segs[st[1]].cells)), end = End(g),
               \A i \in 1 .. Len(g.segs) : st[1] < i => Len(g.segs[i].cells) = 0
        PROVE  Onward(h, st) = End(h)
    <3>1. /\ end[1] = Len(g.segs) /\ Len(g.segs) \in 1 .. Len(g.segs)
          /\ end[2] = Len(g.segs[Len(g.segs)].cells)
      BY <2>3, EndIn
    <3>2. \A i \in 1 .. Len(g.segs) : Len(h.segs[i].cells) = Len(g.segs[i].cells)
      <4> TAKE i \in 1 .. Len(g.segs)
      <4>1. CASE i = end[1]
        BY <1>4, <3>1, <4>1
      <4>2. CASE i # end[1]
        <5>1. i \in 1 .. end[1] - 1
          BY <1>3, <3>1, <4>2
        <5> QED
          BY <1>4, <5>1
      <4> QED
        BY <4>1, <4>2
    <3>3. ~(st[2] < Len(h.segs[st[1]].cells))
      BY <1>10, <2>3, <3>2
    <3>4. \A i \in 1 .. Len(h.segs) : st[1] < i => Len(h.segs[i].cells) = 0
      BY <1>4, <2>3, <3>1, <3>2
    <3> QED
      BY <1>4, <1>10, <3>3, <3>4, OnwardEnd
  <2> QED
    BY <1>2, <2>1, <2>2, <2>3, OnwardWays
<1>12. Walk(h)[n + 1] = End(h) /\ Count(h) = n
  <2>1. Walk(h)[n + 1] = End(h)
    BY <1>2, <1>4, <1>9, <1>11, WalkGoes
  <2> QED
    BY <1>2, <1>4, <1>9, <2>1, EndNot, WalkGoes
<1>13. Clean(h)
  BY <1>4, <1>12, WalkFacts DEF Clean
<1>14. ASSUME NEW l \in Int, OnMedium(g, l) PROVE OnMedium(h, l)
  <2>1. l <= n /\ \A k \in 1 .. l : Kept(g, w[k])
    BY <1>14 DEF OnMedium, n, w
  <2>2. ASSUME NEW k \in 1 .. l PROVE Kept(h, Walk(h)[k])
    <3>1. k \in 1 .. n
      BY <1>2, <2>1
    <3> DEFINE q == w[k]
               r == RecordAt(g, q)
               x == q[1]
               y == q[2]
               z == r.size
    <3>2. /\ x \in 1 .. Len(g.segs) /\ y \in Nat /\ z \in Nat
          /\ x < end[1] \/ (x = end[1] /\ y + z <= end[2])
      BY <1>6, <3>1
    <3>3. y + z <= g.segs[x].synced /\ r.blob <= g.blob.synced
      BY <2>1 DEF Kept
    <3>4. Walk(h)[k] = q /\ RecordAt(h, q) = r
      BY <1>9, <3>1
    <3>5. g.segs[x].synced \in Nat
      BY <3>2, SegOK
    <3> HIDE DEF x, y, z
    <3>6. y + z <= h.segs[x].synced
      <4>1. CASE x < end[1]
        <5>1. x \in 1 .. end[1] - 1
          BY <1>3, <3>2, <4>1
        <5> QED
          BY <1>4, <3>3, <5>1
      <4>2. CASE x = end[1] /\ y + z <= end[2]
        BY <1>4, <3>3, <4>2
      <4> QED
        BY <3>2, <4>1, <4>2
    <3> QED
      BY <1>4, <3>3, <3>4, <3>6 DEF Kept, x, y, z
  <2>3. l <= Count(h)
    BY <1>12, <2>1
  <2> QED
    BY <2>2, <2>3 DEF OnMedium
<1> QED
  BY <1>4, <1>9, <1>12, <1>13, <1>14 DEF h, n, w

\* A generation that was just created.
LEMMA FreshIs ==
  /\ GenOK(Fresh) /\ Fresh.segs # <<>> /\ Fresh # Absent
  /\ Clean(Fresh) /\ Count(Fresh) = 0 /\ Lengths(Fresh) = <<0>> /\ OnMedium(Fresh, 0)
<1>1. /\ Fresh.segs = <<NewFile>> /\ Fresh.blob = NewFile /\ Len(Fresh.segs) = 1
      /\ Fresh.segs[1] = NewFile /\ NewFile.cells = <<>> /\ NewFile.synced = 0
      /\ Len(NewFile.cells) = 0 /\ DOMAIN Fresh.segs = 1 .. 1
  BY DEF Fresh, NewFile
<1>2. NewFile \in Segment /\ NewFile \in BlobFile
  BY DEF NewFile, Segment, BlobFile
<1>3. Fresh \in [segs : Seq(Segment), blob : BlobFile]
  BY <1>2 DEF Fresh
<1>4. GenOK(Fresh)
  BY <1>1, <1>3, Bounds DEF GenOK
<1>5. Fresh.segs # <<>> /\ Fresh # Absent
  <2>1. Absent.segs = <<>>
    BY DEF Absent
  <2>2. Fresh.segs # <<>>
    <3>1. Len(Fresh.segs) = 1 /\ Len(<<>>) = 0
      BY <1>1
    <3> HIDE DEF Fresh
    <3> QED
      BY <3>1
  <2> QED
    BY <2>1, <2>2
<1>6. Onward(Fresh, <<1, 0>>) = End(Fresh)
  <2>1. ~(<<1, 0>>[2] < Len(Fresh.segs[<<1, 0>>[1]].cells))
    BY <1>1
  <2>2. \A i \in 1 .. Len(Fresh.segs) : <<1, 0>>[1] < i => Len(Fresh.segs[i].cells) = 0
    BY <1>1
  <2> QED
    BY <1>4, <2>1, <2>2, OnwardEnd
<1>7. Count(Fresh) \in Nat
  BY <1>4, <1>5, WalkFacts
<1>8. Walk(Fresh)[1] = End(Fresh) /\ Count(Fresh) = 0
  <2>1. Start(Fresh, Walk(Fresh), 0 + 1) = <<1, 0>>
    BY DEF Start
  <2>2. /\ Walk(Fresh)[0 + 1] = Onward(Fresh, Start(Fresh, Walk(Fresh), 0 + 1))
        /\ ~Decodes(Fresh, Walk(Fresh)[0 + 1]) => Count(Fresh) = 0
    BY <1>4, <1>5, <1>7, WalkGoes
  <2>3. ~Decodes(Fresh, End(Fresh))
    BY <1>4, <1>5, EndNot
  <2> QED
    BY <1>6, <2>1, <2>2, <2>3
<1>9. Clean(Fresh)
  <2>1. EndOfLog(Fresh) = Walk(Fresh)[Count(Fresh) + 1]
    BY <1>4, <1>5, WalkFacts
  <2> QED
    BY <1>8, <2>1 DEF Clean
<1>10. Lengths(Fresh) = <<0>>
  <2>1. Lengths(Fresh) = [i \in 1 .. 1 |-> Len(Fresh.segs[i].cells)]
    BY <1>1 DEF Lengths
  <2>2. \A i \in 1 .. 1 : Len(Fresh.segs[i].cells) = 0
    BY <1>1
  <2>3. Lengths(Fresh) = [i \in 1 .. 1 |-> 0]
    BY <2>1, <2>2
  <2> QED
    BY <2>3
<1>11. OnMedium(Fresh, 0)
  BY <1>8 DEF OnMedium
<1> QED
  BY <1>4, <1>5, <1>8, <1>9, <1>10, <1>11

-----------------------------------------------------------------------------
\* The index.
LEMMA EntriesAre ==
  ASSUME NEW g, GenOK(g), g.segs # <<>>, NEW base \in Nat
  PROVE  /\ Entries(g, base) \in Seq(EntryRec) /\ Len(Entries(g, base)) = Count(g)
         /\ Count(g) \in Nat
         /\ \A k \in 1 .. Count(g) :
              /\ Entries(g, base)[k] = Entry(g, Walk(g)[k], base + k - 1)
              /\ Entry(g, Walk(g)[k], base + k - 1)
                   = [off |-> base + k - 1, seg |-> Walk(g)[k][1], pos |-> Walk(g)[k][2],
                      id |-> Msg(g, k)]
              /\ Walk(g)[k][1] \in Nat /\ Walk(g)[k][2] \in Nat /\ Msg(g, k) \in Ids
<1> DEFINE n == Count(g)
           s == Entries(g, base)
<1>1. n \in Nat /\ Len(Walk(g)) - 1 = n
  BY WalkFacts DEF Count
<1>2. s = [k \in 1 .. n |-> Entry(g, Walk(g)[k], base + k - 1)]
  BY <1>1 DEF Entries
<1>3. ASSUME NEW k \in 1 .. n
      PROVE  /\ Entry(g, Walk(g)[k], base + k - 1)
                   = [off |-> base + k - 1, seg |-> Walk(g)[k][1], pos |-> Walk(g)[k][2],
                      id |-> Msg(g, k)]
             /\ Walk(g)[k][1] \in Nat /\ Walk(g)[k][2] \in Nat /\ Msg(g, k) \in Ids
             /\ Entry(g, Walk(g)[k], base + k - 1) \in EntryRec
  <2>1. Walk(g)[k] \in Spots(g) /\ Msg(g, k) \in Ids
    BY <1>1, WalkFacts
  <2>2. Walk(g)[k][1] \in Nat /\ Walk(g)[k][2] \in Nat
    BY <2>1 DEF Spots
  <2>3. Entry(g, Walk(g)[k], base + k - 1)
                   = [off |-> base + k - 1, seg |-> Walk(g)[k][1], pos |-> Walk(g)[k][2],
                      id |-> Msg(g, k)]
    BY DEF Entry, Msg
  <2>4. base + k - 1 \in Nat
    BY <1>1
  <2> QED
    BY <2>1, <2>2, <2>3, <2>4 DEF EntryRec
<1> HIDE DEF n, s
<1>5. s = [k \in 1 .. n |-> s[k]] /\ \A k \in 1 .. n : s[k] = Entry(g, Walk(g)[k], base + k - 1)
  BY <1>2
<1>6. \A k \in 1 .. n : s[k] \in EntryRec
  BY <1>3, <1>5
<1>4. s \in Seq(EntryRec) /\ Len(s) = n
  BY <1>1, <1>5, <1>6
<1> QED
  BY <1>1, <1>3, <1>4, <1>5 DEF n, s

IsIndex(s, g, base, from, next) ==
    /\ s \in Seq(EntryRec) /\ Len(s) = next - from
    /\ s = SubSeq(Entries(g, base), from - base + 1, next - base)
    /\ \A k \in 1 .. next - from :
         /\ from - base + k \in 1 .. Count(g)
         /\ s[k] = [off |-> from + k - 1, seg |-> Walk(g)[from - base + k][1],
                    pos |-> Walk(g)[from - base + k][2], id |-> Msg(g, from - base + k)]
         /\ Walk(g)[from - base + k] = <<s[k].seg, s[k].pos>>

\* The entries of an index.
LEMMA IndexAre ==
  ASSUME NEW g, GenOK(g), g.segs # <<>>, NEW base \in Nat, NEW next \in Nat,
         NEW from \in base .. next, next - base <= Count(g)
  PROVE  IsIndex(Index(g, base, from, next), g, base, from, next)
<1> DEFINE s == Index(g, base, from, next)
           all == Entries(g, base)
           n == Count(g)
           d == from - base
           l == next - from
<1>1. /\ all \in Seq(EntryRec) /\ Len(all) = n /\ n \in Nat
      /\ \A k \in 1 .. n :
              /\ all[k] = Entry(g, Walk(g)[k], base + k - 1)
              /\ Entry(g, Walk(g)[k], base + k - 1)
                   = [off |-> base + k - 1, seg |-> Walk(g)[k][1], pos |-> Walk(g)[k][2],
                      id |-> Msg(g, k)]
  BY EntriesAre
<1>2. d \in Nat /\ l \in Nat /\ d + l = next - base /\ d + l <= n
  BY <1>1
<1>3. s = [k \in 1 .. l |-> Entry(g, Walk(g)[d + k], from + k - 1)]
  BY DEF Index
<1>4. \A k \in 1 .. l : d + k \in 1 .. n /\ base + (d + k) - 1 = from + k - 1
  BY <1>1, <1>2
<1>5. \A k \in 1 .. l : Walk(g)[d + k] = <<Walk(g)[d + k][1], Walk(g)[d + k][2]>>
  <2> TAKE k \in 1 .. l
  <2>1. Walk(g)[d + k] \in Spots(g)
    BY <1>1, <1>4, WalkFacts
  <2> QED
    BY <2>1 DEF Spots
<1> HIDE DEF s, all, n, d, l
<1>6. \A k \in 1 .. l :
        /\ s[k] = all[d + k] /\ all[d + k] \in EntryRec
        /\ s[k] = [off |-> from + k - 1, seg |-> Walk(g)[d + k][1],
                   pos |-> Walk(g)[d + k][2], id |-> Msg(g, d + k)]
  <2> TAKE k \in 1 .. l
  <2>1. d + k \in 1 .. n /\ base + (d + k) - 1 = from + k - 1
    BY <1>4
  <2>2. s[k] = Entry(g, Walk(g)[d + k], from + k - 1)
    BY <1>3
  <2> QED
    BY <1>1, <2>1, <2>2
<1>7. s \in Seq(EntryRec) /\ Len(s) = l
  <2>1. s = [k \in 1 .. l |-> s[k]]
    BY <1>3
  <2>2. \A k \in 1 .. l : s[k] \in EntryRec
    BY <1>6
  <2> QED
    BY <1>2, <2>1, <2>2
<1>8. s = SubSeq(all, d + 1, d + l)
  <2>1. /\ SubSeq(all, d + 1, d + l) \in Seq(EntryRec) /\ Len(SubSeq(all, d + 1, d + l)) = l
        /\ \A k \in 1 .. l : SubSeq(all, d + 1, d + l)[k] = all[d + k]
    BY <1>1, <1>2
  <2>2. \A k \in 1 .. l : s[k] = all[d + k]
    BY <1>6
  <2> QED
    BY <1>2, <1>7, <2>1, <2>2
<1>9. s = SubSeq(all, from - base + 1, next - base)
  BY <1>2, <1>8 DEF d
<1>10. \A k \in 1 .. l : Walk(g)[d + k] = <<s[k].seg, s[k].pos>>
  <2> TAKE k \in 1 .. l
  <2>1. s[k] = [off |-> from + k - 1, seg |-> Walk(g)[d + k][1],
                pos |-> Walk(g)[d + k][2], id |-> Msg(g, d + k)]
    BY <1>6
  <2>2. s[k].seg = Walk(g)[d + k][1] /\ s[k].pos = Walk(g)[d + k][2]
    BY <2>1
  <2> QED
    BY <1>5, <2>2
<1> QED
  BY <1>4, <1>6, <1>7, <1>9, <1>10 DEF IsIndex, s, all, n, d, l

\* The first entry of an index has its first offset.
LEMMA FirstIs ==
  ASSUME NEW g, GenOK(g), g.segs # <<>>, NEW base \in Nat, NEW next \in Nat,
         NEW from \in base .. next, next - base <= Count(g),
         NEW l, l.entries = Index(g, base, from, next), l.next = next
  PROVE  First(l) = from
<1>1. /\ l.entries \in Seq(EntryRec) /\ Len(l.entries) = next - from
      /\ \A k \in 1 .. next - from : l.entries[k].off = from + k - 1
  <2> DEFINE s == l.entries
  <2>1. IsIndex(s, g, base, from, next)
    BY IndexAre
  <2> HIDE DEF s
  <2>2. /\ s \in Seq(EntryRec) /\ Len(s) = next - from
        /\ \A k \in 1 .. next - from :
             s[k] = [off |-> from + k - 1, seg |-> Walk(g)[from - base + k][1],
                    pos |-> Walk(g)[from - base + k][2], id |-> Msg(g, from - base + k)]
    BY <2>1 DEF IsIndex
  <2>3. \A k \in 1 .. next - from : s[k].off = from + k - 1
    BY <2>2
  <2> QED
    BY <2>2, <2>3 DEF s
<1>2. CASE next = from
  <2>1. l.entries = <<>>
    BY <1>1, <1>2
  <2> QED
    BY <1>2, <2>1 DEF First
<1>3. CASE next # from
  <2>1. 1 \in 1 .. next - from /\ l.entries # <<>>
    BY <1>1, <1>3
  <2> QED
    BY <1>1, <2>1 DEF First
<1> QED
  BY <1>2, <1>3

\* The index of files in which the same records stand is the same.
LEMMA IndexSame ==
  ASSUME NEW g, NEW h, NEW base \in Nat, NEW next \in Nat, NEW from \in base .. next,
         \A k \in 1 .. next - base : Walk(h)[k] = Walk(g)[k] /\ Msg(h, k) = Msg(g, k)
  PROVE  Index(h, base, from, next) = Index(g, base, from, next)
<1>1. \A k \in 1 .. next - from :
        Entry(h, Walk(h)[from - base + k], from + k - 1) = Entry(g, Walk(g)[from - base + k], from + k - 1)
  <2> TAKE k \in 1 .. next - from
  <2>1. from - base + k \in 1 .. next - base
    OBVIOUS
  <2>2. Walk(h)[from - base + k] = Walk(g)[from - base + k] /\ Msg(h, from - base + k) = Msg(g, from - base + k)
    BY <2>1
  <2> QED
    BY <2>2 DEF Entry, Msg
<1> QED
  BY <1>1 DEF Index

\* From a sequence of entries with consecutive offsets, the ones from an offset on.
LEMMA FromIs ==
  ASSUME NEW s \in Seq(EntryRec), NEW first \in Nat, NEW d \in 0 .. Len(s),
         \A k \in 1 .. Len(s) : s[k].off = first + k - 1
  PROVE  From(s, first + d) = SubSeq(s, d + 1, Len(s))
<1>1. Len(s) \in Nat /\ DOMAIN s = 1 .. Len(s) /\ d \in Nat
  OBVIOUS
<1>2. { i \in DOMAIN s : s[i].off < first + d } = 1 .. d
  <2>1. \A i \in 1 .. Len(s) : s[i].off < first + d <=> i <= d
    BY <1>1
  <2>2. { i \in 1 .. Len(s) : s[i].off < first + d } = { i \in 1 .. Len(s) : i <= d }
    BY <2>1
  <2>3. { i \in 1 .. Len(s) : i <= d } = 1 .. d
    BY <1>1
  <2> QED
    BY <1>1, <2>2, <2>3
<1>3. Cardinality(1 .. d) = d
  <2>1. Cardinality(1 .. d) = IF 1 > d THEN 0 ELSE d - 1 + 1
    BY <1>1, FS_Interval
  <2> QED
    BY <1>1, <2>1
<1> QED
  BY <1>2, <1>3 DEF From

\* Trimming an index gives the index from a later offset on.
LEMMA FromIndex ==
  ASSUME NEW g, GenOK(g), g.segs # <<>>, NEW base \in Nat, NEW next \in Nat,
         NEW from \in base .. next, next - base <= Count(g), NEW to \in from .. next
  PROVE  From(Index(g, base, from, next), to) = Index(g, base, to, next)
<1> DEFINE s == Index(g, base, from, next)
           t == Index(g, base, to, next)
           d == to - from
           n == next - from
<1>1. /\ s \in Seq(EntryRec) /\ Len(s) = n
      /\ \A k \in 1 .. n :
           s[k] = [off |-> from + k - 1, seg |-> Walk(g)[from - base + k][1],
                   pos |-> Walk(g)[from - base + k][2], id |-> Msg(g, from - base + k)]
  <2>1. IsIndex(s, g, base, from, next)
    BY IndexAre
  <2> QED
    BY <2>1 DEF IsIndex
<1>2. to \in base .. next
  OBVIOUS
<1>3. /\ t \in Seq(EntryRec) /\ Len(t) = next - to
      /\ \A k \in 1 .. next - to :
           t[k] = [off |-> to + k - 1, seg |-> Walk(g)[to - base + k][1],
                   pos |-> Walk(g)[to - base + k][2], id |-> Msg(g, to - base + k)]
  <2>1. IsIndex(t, g, base, to, next)
    BY <1>2, IndexAre
  <2> QED
    BY <2>1 DEF IsIndex
<1>4. n \in Nat /\ d \in 0 .. n /\ next - to = n - d /\ from + d = to /\ from \in Nat
  OBVIOUS
<1> HIDE DEF s, t
<1>5. From(s, from + d) = SubSeq(s, d + 1, n)
  <2> HIDE DEF d, n
  <2>1. \A k \in 1 .. n : s[k].off = from + k - 1
    BY <1>1
  <2> QED
    BY <1>1, <1>4, <2>1, FromIs
<1>6. \A k \in 1 .. n - d : t[k] = s[d + k]
  <2> TAKE k \in 1 .. n - d
  <2>1. /\ d + k \in 1 .. n /\ k \in 1 .. next - to
        /\ from + (d + k) - 1 = to + k - 1 /\ from - base + (d + k) = to - base + k
    BY <1>4
  <2> QED
    BY <1>1, <1>3, <2>1
<1>7. SubSeq(s, d + 1, n) = t
  <2> HIDE DEF d, n
  <2>1. /\ SubSeq(s, d + 1, n) \in Seq(EntryRec) /\ Len(SubSeq(s, d + 1, n)) = n - d
        /\ \A k \in 1 .. n - d : SubSeq(s, d + 1, n)[k] = s[d + k]
    BY <1>1, <1>4
  <2> QED
    BY <1>3, <1>4, <1>6, <2>1
<1> QED
  BY <1>4, <1>5, <1>7 DEF s, t

\* All the entries from the first one.
LEMMA EntriesIndex ==
  ASSUME NEW g, GenOK(g), g.segs # <<>>, NEW base \in Nat
  PROVE  Entries(g, base) = Index(g, base, base, base + Count(g))
<1>1. Count(g) \in Nat /\ Len(Entries(g, base)) = Count(g) /\ Entries(g, base) \in Seq(EntryRec)
  BY EntriesAre
<1> DEFINE n == base + Count(g)
<1>2. base \in base .. n /\ n \in Nat /\ n - base = Count(g) /\ base - base + 1 = 1
  BY <1>1
<1>3. SubSeq(Entries(g, base), 1, Len(Entries(g, base))) = Entries(g, base)
  BY <1>1
<1> HIDE DEF n
<1>4. n - base <= Count(g)
  BY <1>1, <1>2
<1>5. IsIndex(Index(g, base, base, n), g, base, base, n)
  BY <1>2, <1>4, IndexAre
<1>6. Index(g, base, base, n) = SubSeq(Entries(g, base), base - base + 1, n - base)
  BY <1>5 DEF IsIndex
<1> QED
  BY <1>1, <1>2, <1>3, <1>6 DEF n

-----------------------------------------------------------------------------
\* The header.
LEMMA Parity ==
  ASSUME NEW s \in Nat
  PROVE  /\ (s % 2) \in {0, 1} /\ ((s + 1) % 2) \in {0, 1} /\ (s % 2) # ((s + 1) % 2)
         /\ ((s + 1 + 1) % 2) = (s % 2)
OBVIOUS

\* The header of a slot never written.
LEMMA NoMetaIn == NoMeta \in Meta /\ NoMeta.seq = 0 /\ NoMeta.gen = 0 /\ NoMeta.base = 0 /\ NoMeta.trim = 0
<1>1. MaxGen \in Nat
  BY SegLogAssumption
<1> QED
  BY <1>1 DEF NoMeta, Meta

\* With one slot older, the header found is the other.
LEMMA HeaderIs ==
  ASSUME NEW sl, NEW s \in Nat, Quiet(sl, s)
  PROVE  Newest({sl[0].val, sl[1].val}) = sl[s % 2].val
<1> DEFINE m == sl[s % 2].val
           o == sl[(s + 1) % 2].val
<1>1. m \in Meta /\ m.seq = s /\ (s = 0 => m = NoMeta) /\ Older(o, s)
  BY DEF Quiet, HeaderAt
<1>2. {sl[0].val, sl[1].val} = {m, o}
  BY Parity
<1> HIDE DEF m, o
<1>3. o \in Meta /\ m.seq \in Nat /\ o.seq \in Nat /\ (o.seq < s \/ o = NoMeta)
  BY <1>1 DEF Older, Meta
<1>4. o = m \/ o.seq < m.seq
  <2>1. CASE o.seq < s
    BY <1>1, <2>1
  <2>2. CASE o = NoMeta
    BY <1>1, <1>3, <2>2, NoMetaIn
  <2> QED
    BY <1>3, <2>1, <2>2
<1>5. Newest({m, o}) = CHOOSE x \in {m, o} : \A y \in {m, o} : y.seq <= x.seq
  BY DEF Newest
<1>6. \A x \in {m, o} : (\A y \in {m, o} : y.seq <= x.seq) => x = m
  BY <1>3, <1>4
<1>7. \A y \in {m, o} : y.seq <= m.seq
  BY <1>3, <1>4
<1>8. Newest({m, o}) = m
  BY <1>5, <1>6, <1>7
<1> QED
  BY <1>2, <1>8 DEF m

\* A header is being written.
Wrote(sl, s, m) ==
    [sl EXCEPT ![(s + 1) % 2] = [val |-> m, old |-> sl[(s + 1) % 2].val, synced |-> FALSE]]

\* Writing the next header leaves the last one alone.
LEMMA HeaderWritten ==
  ASSUME NEW sl, NEW s \in Nat, Quiet(sl, s), NEW m \in Meta, m.seq = s + 1
  PROVE  /\ Writing(Wrote(sl, s, m), s) /\ Wrote(sl, s, m)[(s + 1) % 2].val = m
         /\ Wrote(sl, s, m)[s % 2] = sl[s % 2]
<1> DEFINE new == Wrote(sl, s, m)
           i == s % 2
           j == (s + 1) % 2
           o == [val |-> m, old |-> sl[j].val, synced |-> FALSE]
<1>1. i \in {0, 1} /\ j \in {0, 1} /\ i # j
  BY Parity
<1>2. HeaderAt(sl, s) /\ Older(sl[j].val, s) /\ sl = [k \in {0, 1} |-> sl[k]]
  BY DEF Quiet, HeaderAt
<1>3. /\ new = [k \in {0, 1} |-> new[k]] /\ new[j] = o /\ new[i] = sl[i]
  BY <1>1, <1>2 DEF Wrote
<1>4. o.val = m /\ o.old = sl[j].val /\ o = [val |-> o.val, old |-> o.old, synced |-> FALSE]
  OBVIOUS
<1> HIDE DEF i, j, o, new
<1>5. HeaderAt(new, s)
  BY <1>2, <1>3 DEF HeaderAt, i
<1> QED
  BY <1>2, <1>3, <1>4, <1>5 DEF Writing, i, j, new

\* It is on the medium, and counts.
Landed(sl, s) == [sl EXCEPT ![(s + 1) % 2] = Durable(sl[(s + 1) % 2].val)]

\* With its sync it is the header.
LEMMA HeaderLanded ==
  ASSUME NEW sl, NEW s \in Nat, Writing(sl, s)
  PROVE  Quiet(Landed(sl, s), s + 1) /\ Landed(sl, s)[(s + 1) % 2].val = sl[(s + 1) % 2].val
<1> DEFINE new == Landed(sl, s)
           i == s % 2
           j == (s + 1) % 2
           o == Durable(sl[j].val)
<1>1. i \in {0, 1} /\ j \in {0, 1} /\ i # j /\ ((s + 1 + 1) % 2) = i
  BY Parity
<1>2. /\ HeaderAt(sl, s) /\ sl[j].val \in Meta /\ sl[j].val.seq = s + 1
      /\ sl = [k \in {0, 1} |-> sl[k]] /\ sl[i] = Durable(sl[i].val)
      /\ sl[i].val \in Meta /\ sl[i].val.seq = s
  BY DEF Writing, HeaderAt
<1>3. /\ new = [k \in {0, 1} |-> new[k]] /\ new[j] = o /\ new[i] = sl[i]
  BY <1>1, <1>2 DEF Landed
<1>4. o.val = sl[j].val
  BY DEF Durable
<1> HIDE DEF o, new
<1>5. HeaderAt(new, s + 1)
  <2>1. new[(s + 1) % 2] = Durable(new[(s + 1) % 2].val)
    BY <1>3, <1>4 DEF o
  <2>2. new[(s + 1) % 2].val \in Meta /\ new[(s + 1) % 2].val.seq = s + 1
    BY <1>2, <1>3, <1>4
  <2>3. s + 1 # 0
    OBVIOUS
  <2> QED
    BY <1>3, <2>1, <2>2, <2>3 DEF HeaderAt
<1>6. new[(s + 1 + 1) % 2] = Durable(new[(s + 1 + 1) % 2].val) /\ Older(new[(s + 1 + 1) % 2].val, s + 1)
  <2>1. new[(s + 1 + 1) % 2] = sl[i]
    BY <1>1, <1>3
  <2>2. Older(sl[i].val, s + 1)
    BY <1>2 DEF Older
  <2> QED
    BY <1>2, <2>1, <2>2
<1> QED
  BY <1>3, <1>4, <1>5, <1>6 DEF Quiet, new

\* What a crash leaves of the header is the last one that counts, or the one
\* that was being written.
CutHeader(sl, s, m, new) ==
    \E t \in Nat : /\ Quiet(new, t) /\ m = new[t % 2].val
                   /\ \/ m = sl[s % 2].val
                      \/ Writing(sl, s) /\ m = sl[(s + 1) % 2].val

\* A crash leaves one of the two, and the other slot older.
LEMMA HeaderCut ==
  ASSUME NEW sl, NEW s \in Nat, Quiet(sl, s) \/ Writing(sl, s),
         NEW a \in SlotCuts(sl[0]), NEW b \in SlotCuts(sl[1]),
         NEW new, new = [i \in {0, 1} |-> <<a, b>>[i + 1]]
  PROVE  CutHeader(sl, s, Newest({a.val, b.val}), new)
<1> SUFFICES \E t \in Nat :
               /\ Quiet(new, t) /\ Newest({a.val, b.val}) = new[t % 2].val
               /\ \/ new[t % 2].val = sl[s % 2].val
                  \/ Writing(sl, s) /\ new[t % 2].val = sl[(s + 1) % 2].val
  BY DEF CutHeader
<1> DEFINE i == s % 2
           j == (s + 1) % 2
<1>1. i \in {0, 1} /\ j \in {0, 1} /\ i # j /\ ((s + 1 + 1) % 2) = i
  BY Parity
<1>2. /\ new = [k \in {0, 1} |-> new[k]] /\ new[0] = a /\ new[1] = b
      /\ \A k \in {0, 1} : new[k] \in SlotCuts(sl[k])
  OBVIOUS
<1>3. /\ HeaderAt(sl, s) /\ sl[i] = Durable(sl[i].val)
      /\ sl[i].val \in Meta /\ sl[i].val.seq = s /\ (s = 0 => sl[i].val = NoMeta)
  BY DEF Writing, Quiet, HeaderAt
<1>4. \A m : SlotCuts(Durable(m)) = {Durable(m)} /\ Durable(m).val = m
  BY DEF SlotCuts, Durable
<1>5. new[i] = sl[i]
  <2>1. new[i] \in SlotCuts(Durable(sl[i].val))
    BY <1>1, <1>2, <1>3
  <2> QED
    BY <1>3, <1>4, <2>1
<1>6. ASSUME NEW t \in Nat, Quiet(new, t) PROVE Newest({a.val, b.val}) = new[t % 2].val
  BY <1>2, <1>6, HeaderIs
<1>7. HeaderAt(new, s)
  BY <1>2, <1>3, <1>5 DEF HeaderAt
<1>8. ASSUME NEW m, new[j] = Durable(m), Older(m, s)
      PROVE  Quiet(new, s)
  <2>1. new[j].val = m
    BY <1>4, <1>8
  <2> QED
    BY <1>7, <1>8, <2>1 DEF Quiet
<1>9. CASE Quiet(sl, s)
  <2>1. sl[j] = Durable(sl[j].val) /\ Older(sl[j].val, s)
    BY <1>9 DEF Quiet
  <2>2. new[j] \in SlotCuts(Durable(sl[j].val))
    BY <1>1, <1>2, <2>1
  <2>3. new[j] = Durable(sl[j].val)
    BY <1>4, <2>2
  <2>4. Quiet(new, s)
    BY <1>8, <2>1, <2>3
  <2> QED
    BY <1>5, <1>6, <2>4
<1>10. CASE Writing(sl, s)
  <2> DEFINE o == sl[j]
  <2>1. /\ o = [val |-> o.val, old |-> o.old, synced |-> FALSE]
        /\ Older(o.old, s) /\ o.val \in Meta /\ o.val.seq = s + 1
    BY <1>10 DEF Writing
  <2>2. new[j] \in SlotCuts(o)
    BY <1>1, <1>2
  <2> HIDE DEF o
  <2>3. ~o.synced
    BY <2>1
  <2>4. SlotCuts(o) = { Durable(m) : m \in {o.val, o.old, NoMeta} }
    BY <2>3 DEF SlotCuts
  <2>5. new[j] = Durable(o.val) \/ new[j] = Durable(o.old) \/ new[j] = Durable(NoMeta)
    BY <2>2, <2>4
  <2>6. CASE new[j] = Durable(o.old)
    <3>1. Quiet(new, s)
      BY <1>8, <2>1, <2>6
    <3> QED
      BY <1>5, <1>6, <3>1
  <2>7. CASE new[j] = Durable(NoMeta)
    <3>1. Quiet(new, s)
      BY <1>8, <2>7, NoMetaIn DEF Older
    <3> QED
      BY <1>5, <1>6, <3>1
  <2>8. CASE new[j] = Durable(o.val)
    <3>1. new[j].val = o.val
      BY <1>4, <2>8
    <3>2. HeaderAt(new, s + 1)
      <4>1. s + 1 # 0 /\ new[(s + 1) % 2] = new[j]
        OBVIOUS
      <4> HIDE DEF j
      <4> QED
        BY <1>2, <2>1, <2>8, <3>1, <4>1 DEF HeaderAt
    <3>3. new[(s + 1 + 1) % 2] = Durable(new[(s + 1 + 1) % 2].val) /\ Older(new[(s + 1 + 1) % 2].val, s + 1)
      <4>1. new[(s + 1 + 1) % 2] = sl[i]
        BY <1>1, <1>5
      <4>2. Older(sl[i].val, s + 1)
        BY <1>3 DEF Older
      <4> QED
        BY <1>3, <4>1, <4>2
    <3>4. Quiet(new, s + 1)
      BY <3>2, <3>3 DEF Quiet
    <3>5. s + 1 \in Nat
      OBVIOUS
    <3>6. Newest({a.val, b.val}) = new[(s + 1) % 2].val
      BY <1>6, <3>4, <3>5
    <3> QED
      BY <1>10, <3>1, <3>4, <3>5, <3>6 DEF o
  <2> QED
    BY <2>5, <2>6, <2>7, <2>8
<1> QED
  BY <1>9, <1>10

-----------------------------------------------------------------------------
\* What holds of files holds of files in which they stand.
Keeps(g, h) ==
    /\ GenOK(h) /\ h.segs # <<>> /\ Count(g) <= Count(h)
    /\ \A k \in 1 .. Count(g) : Walk(h)[k] = Walk(g)[k] /\ Msg(h, k) = Msg(g, k)
    /\ \A n \in Int : OnMedium(g, n) => OnMedium(h, n)

\* Files that are there are not absent.
LEMMA NotAbsent ==
  ASSUME NEW g, g.segs # <<>>
  PROVE  g # Absent
BY DEF Absent

\* A header survives when its files keep their records and the past grows by
\* what they hold.
LEMMA SurvivesOn ==
  ASSUME NEW m, NEW g, NEW h, NEW past \in Seq(Ids), NEW safe, NEW past2 \in Seq(Ids),
         NEW safe2 \in Int,
         GenOK(g), g # Absent, Survives(m, g, past, safe), Keeps(g, h),
         Len(past) <= m.base + Count(g), Len(past) <= Len(past2),
         \A i \in 1 .. Len(past) : past2[i] = past[i],
         \A k \in 1 .. Count(h) : Len(past) < m.base + k /\ m.base + k <= Len(past2) =>
           Msg(h, k) = past2[m.base + k],
         OnMedium(h, safe2 - m.base)
  PROVE  Survives(m, h, past2, safe2)
<1>1. /\ m \in Meta /\ m.base <= m.trim /\ m.trim <= Len(past)
      /\ g.segs # <<>> /\ OnMedium(g, m.trim - m.base)
      /\ \A k \in 1 .. Count(g) :
           m.trim < m.base + k /\ m.base + k <= Len(past) => Msg(g, k) = past[m.base + k]
  BY DEF Survives
<1>2. /\ m.base \in Nat /\ m.trim \in Nat /\ Len(past) \in Nat /\ Len(past2) \in Nat
      /\ Count(g) \in Nat /\ Count(h) \in Nat
  BY SMTT(30), <1>1, WalkFacts DEF Meta, Keeps
<1>3. h.segs # <<>> /\ h # Absent
  BY NotAbsent DEF Keeps
<1>4. OnMedium(h, m.trim - m.base)
  BY <1>1, <1>2 DEF Keeps
<1>5. ASSUME NEW k \in 1 .. Count(h), m.trim < m.base + k, m.base + k <= Len(past2)
      PROVE  Msg(h, k) = past2[m.base + k]
  <2>1. CASE Len(past) < m.base + k
    BY <1>5, <2>1
  <2>2. CASE ~(Len(past) < m.base + k)
    <3>1. k \in 1 .. Count(g) /\ m.base + k <= Len(past) /\ m.base + k \in 1 .. Len(past)
      BY <1>2, <2>2
    <3>2. Msg(h, k) = Msg(g, k)
      BY <3>1 DEF Keeps
    <3>3. Msg(g, k) = past[m.base + k]
      BY <1>1, <1>5, <3>1
    <3> QED
      BY <3>1, <3>2, <3>3
  <2> QED
    BY <2>1, <2>2
<1>6. m.trim <= Len(past2)
  BY <1>1, <1>2
<1> QED
  BY <1>1, <1>3, <1>4, <1>5, <1>6 DEF Survives

\* The history is what it was.
LEMMA SurvivesSame ==
  ASSUME NEW m, NEW g, NEW h, NEW past \in Seq(Ids), NEW safe, NEW safe2 \in Int,
         GenOK(g), g # Absent, Survives(m, g, past, safe), Keeps(g, h),
         Len(past) <= m.base + Count(g), OnMedium(h, safe2 - m.base)
  PROVE  Survives(m, h, past, safe2)
<1>1. \A k \in 1 .. Count(h) : Len(past) < m.base + k /\ m.base + k <= Len(past) =>
           Msg(h, k) = past[m.base + k]
  <2>1. m \in Meta /\ m.base \in Nat /\ Len(past) \in Nat
    BY DEF Survives, Meta
  <2>2. Count(h) \in Nat
    BY WalkFacts DEF Keeps
  <2> QED
    BY <2>1, <2>2
<1>2. Len(past) <= Len(past)
  OBVIOUS
<1> QED
  BY <1>1, <1>2, SurvivesOn

\* An index stays one when its files keep their records.
LEMMA IndexesOn ==
  ASSUME NEW l \in LogRec, NEW g, GenOK(g), NEW more \in Nat, Indexes(l, g, more),
         NEW h, Keeps(g, h), Clean(h), NEW d \in Nat, Count(h) = Count(g) + d,
         NEW l2, l2.base = l.base, l2.next = l.next, l2.entries = l.entries, l2.used = Lengths(h)
  PROVE  Indexes(l2, h, more + d)
<1>1. l.base \in Nat /\ l.next \in Nat
  BY DEF LogRec
<1>2. /\ g.segs # <<>> /\ Count(g) = l.next - l.base + more /\ First(l) \in l.base .. l.next
      /\ l.entries = Index(g, l.base, First(l), l.next)
  BY DEF Indexes
<1>3. First(l2) = First(l)
  BY DEF First
<1>4. \A k \in 1 .. l.next - l.base : Walk(h)[k] = Walk(g)[k] /\ Msg(h, k) = Msg(g, k)
  BY <1>1, <1>2 DEF Keeps
<1>5. Index(h, l.base, First(l), l.next) = Index(g, l.base, First(l), l.next)
  <2> DEFINE base == l.base
             next == l.next
             from == First(l)
  <2>1. base \in Nat /\ next \in Nat /\ from \in base .. next
    BY <1>1, <1>2
  <2>2. \A k \in 1 .. next - base : Walk(h)[k] = Walk(g)[k] /\ Msg(h, k) = Msg(g, k)
    BY <1>4
  <2> HIDE DEF base, next, from
  <2>3. Index(h, base, from, next) = Index(g, base, from, next)
    BY <2>1, <2>2, IndexSame
  <2> QED
    BY <2>3 DEF base, next, from
<1>6. Count(h) = l.next - l.base + (more + d)
  BY <1>1, <1>2
<1> QED
  BY <1>2, <1>3, <1>5, <1>6 DEF Indexes, Keeps

\* The entries hold the messages of the history at their offsets.
Tells(l, past) ==
    /\ l.entries \in Seq(EntryRec) /\ Len(l.entries) = l.next - First(l)
    /\ \A k \in 1 .. Len(l.entries) : /\ l.entries[k].off = First(l) + k - 1
                                      /\ l.entries[k].id = past[First(l) + k]

\* An index and a header that survives tell the same past.
LEMMA IndexesTell ==
  ASSUME NEW l \in LogRec, NEW g, GenOK(g), NEW more \in Nat, Indexes(l, g, more),
         NEW m, NEW past \in Seq(Ids), NEW safe, Survives(m, g, past, safe),
         m.base = l.base, m.trim <= First(l), l.next = Len(past)
  PROVE  /\ Tells(l, past) /\ IsIndex(l.entries, g, l.base, First(l), l.next)
         /\ Count(g) \in Nat /\ First(l) \in Nat /\ l.base \in Nat /\ l.next \in Nat
         /\ \A k \in 1 .. l.next - First(l) :
              /\ First(l) - l.base + k \in 1 .. Count(g)
              /\ Msg(g, First(l) - l.base + k) = past[First(l) + k]
              /\ l.entries[k] = [off |-> First(l) + k - 1, seg |-> l.entries[k].seg,
                                 pos |-> l.entries[k].pos, id |-> past[First(l) + k]]
              /\ Walk(g)[First(l) - l.base + k] = <<l.entries[k].seg, l.entries[k].pos>>
<1> DEFINE s == l.entries
           f == First(l)
           base == l.base
           next == l.next
<1>1. /\ base \in Nat /\ next \in Nat /\ f \in base .. next /\ g.segs # <<>>
      /\ Count(g) = next - base + more /\ s = Index(g, base, f, next) /\ Count(g) \in Nat
  BY WalkFacts DEF Indexes, LogRec
<1>2. IsIndex(s, g, base, f, next)
  <2>1. next - base <= Count(g)
    BY <1>1
  <2> HIDE DEF s, f, base, next
  <2> QED
    BY <1>1, <2>1, IndexAre
<1>3. /\ m \in Meta /\ m.trim \in Nat /\ m.base = base
      /\ \A k \in 1 .. Count(g) :
           m.trim < m.base + k /\ m.base + k <= Len(past) => Msg(g, k) = past[m.base + k]
  BY <1>1, NotAbsent DEF Survives, Meta
<1>4. m.trim <= f /\ next = Len(past)
  OBVIOUS
<1> HIDE DEF s, f, base, next
<1>5. /\ s \in Seq(EntryRec) /\ Len(s) = next - f
      /\ \A k \in 1 .. next - f :
         /\ f - base + k \in 1 .. Count(g)
         /\ s[k] = [off |-> f + k - 1, seg |-> Walk(g)[f - base + k][1],
                    pos |-> Walk(g)[f - base + k][2], id |-> Msg(g, f - base + k)]
         /\ Walk(g)[f - base + k] = <<s[k].seg, s[k].pos>>
  BY <1>2 DEF IsIndex
<1>6. ASSUME NEW k \in 1 .. next - f PROVE Msg(g, f - base + k) = past[f + k]
  <2>1. /\ f \in Nat /\ base \in Nat /\ next \in Nat /\ k \in Nat /\ 1 <= k /\ k <= next - f
        /\ m.trim \in Nat /\ m.base = base /\ m.trim <= f /\ next = Len(past)
    BY <1>1, <1>3, <1>4
  <2>2. f - base + k \in 1 .. Count(g)
    BY <1>5
  <2>3. /\ base + (f - base + k) = f + k
        /\ m.trim < m.base + (f - base + k) /\ m.base + (f - base + k) <= Len(past)
    BY <2>1
  <2> QED
    BY <1>3, <2>1, <2>2, <2>3
<1>7. ASSUME NEW k \in 1 .. next - f
      PROVE  /\ s[k].off = f + k - 1 /\ s[k].id = past[f + k]
             /\ s[k] = [off |-> f + k - 1, seg |-> s[k].seg, pos |-> s[k].pos, id |-> past[f + k]]
  <2>1. s[k] = [off |-> f + k - 1, seg |-> Walk(g)[f - base + k][1],
                    pos |-> Walk(g)[f - base + k][2], id |-> Msg(g, f - base + k)]
    BY <1>5
  <2> QED
    BY <1>6, <2>1
<1>8. Tells(l, past)
  BY <1>5, <1>7 DEF Tells, s, f, next
<1>9. f \in Nat
  BY <1>1
<1> QED
  BY <1>1, <1>2, <1>5, <1>6, <1>7, <1>8, <1>9 DEF s, f, base, next

\* What is promised with them.
LEMMA PromisedAre ==
  ASSUME NEW l, NEW past \in Seq(Ids), l.next = Len(past), First(l) \in Nat, First(l) <= l.next,
         Tells(l, past), NEW p \in { <<e.off, e.id>> : e \in ToSet(l.entries) }
  PROVE  p \in Nat \X Ids /\ First(l) <= p[1] /\ p[1] < l.next /\ past[p[1] + 1] = p[2]
<1> DEFINE s == l.entries
           f == First(l)
<1>1. /\ s \in Seq(EntryRec) /\ Len(s) = l.next - f /\ f \in Nat /\ l.next \in Nat
      /\ \A k \in 1 .. Len(s) : s[k].off = f + k - 1 /\ s[k].id = past[f + k]
  BY SMTT(30) DEF Tells
<1>2. PICK e \in ToSet(s) : p = <<e.off, e.id>>
  OBVIOUS
<1> HIDE DEF s, f
<1>3. PICK k \in 1 .. Len(s) : e = s[k]
  <2>1. DOMAIN s = 1 .. Len(s)
    BY <1>1
  <2>2. \E i \in DOMAIN s : e = s[i]
    BY Zenon, <1>2 DEF ToSet
  <2> QED
    BY <2>1, <2>2
<1>4. e.off = f + k - 1 /\ e.id = past[f + k] /\ f + k \in 1 .. Len(past)
  <2>1. e.off = f + k - 1 /\ e.id = past[f + k]
    BY <1>1, <1>3
  <2>2. k \in 1 .. Len(s) /\ Len(s) = l.next - f /\ l.next = Len(past) /\ f \in Nat /\ l.next \in Nat
    BY <1>1, <1>3
  <2>3. f + k \in 1 .. Len(past)
    BY <2>2
  <2> QED
    BY <2>1, <2>3
<1>5. p[1] = f + k - 1 /\ p[2] = past[f + k] /\ p[1] + 1 = f + k /\ p = <<p[1], p[2]>>
  BY <1>1, <1>2, <1>4
<1>6. past[f + k] \in Ids
  BY <1>4
<1>7. f + k - 1 \in Nat /\ f <= f + k - 1 /\ f + k - 1 < l.next
  BY <1>1, <1>3
<1> QED
  BY <1>5, <1>6, <1>7 DEF f

-----------------------------------------------------------------------------
\* What the invariant says while the log is open.
LEMMA UpFacts ==
  ASSUME IInv, status = "up"
  PROVE  /\ TypeInv /\ PromiseInv /\ LogInv /\ SlotInv /\ OpInv
         /\ files = [i \in Gens |-> files[i]] /\ hist \in Seq(Ids) /\ Len(hist) \in Nat
         /\ stable \in Nat /\ stable <= Len(hist)
         /\ log \in LogRec /\ log.gen \in 0 .. MaxGen /\ log.gen \in Gens /\ log.gen + 1 \in Gens
         /\ log.base \in Nat /\ log.trim \in Nat /\ log.seq \in Nat /\ log.next = Len(hist)
         /\ log.entries \in Seq(EntryRec)
         /\ RetainedStart = First(log) /\ First(log) \in Nat
         /\ log.base <= First(log) /\ First(log) <= log.next
         /\ Cur = files[log.gen] /\ GenOK(Cur) /\ Cur.segs # <<>> /\ Cur # Absent /\ Clean(Cur)
         /\ log.used = Lengths(Cur) /\ Count(Cur) \in Nat
         /\ Count(Cur) = log.next - log.base + (IF op.at = "sync" THEN 1 ELSE 0)
         /\ Tells(log, hist)
         /\ Mine \in Meta /\ Mine.seq = log.seq /\ Mine.gen = log.gen /\ Mine.base = log.base
         /\ Mine.trim <= First(log) /\ Survives(Mine, Cur, hist, stable)
         /\ slots[log.seq % 2].val = Mine /\ HeaderAt(slots, log.seq)
<1>1. TypeInv /\ PromiseInv /\ LogInv /\ SlotInv /\ OpInv
  BY DEF IInv, UpInv
<1>2. /\ files = [i \in Gens |-> files[i]] /\ hist \in Seq(Ids) /\ Len(hist) \in Nat
      /\ stable \in Nat /\ stable <= Len(hist) /\ \A i \in Gens : GenOK(files[i])
  BY <1>1 DEF TypeInv
<1>3. /\ log \in LogRec /\ log.next = Len(hist)
      /\ Indexes(log, Cur, IF op.at = "sync" THEN 1 ELSE 0)
  BY <1>1 DEF LogInv
<1>4. /\ log.gen \in 0 .. MaxGen /\ log.base \in Nat /\ log.trim \in Nat /\ log.seq \in Nat
      /\ log.entries \in Seq(EntryRec)
  BY <1>3 DEF LogRec
<1>5. log.gen \in Gens /\ log.gen + 1 \in Gens
  <2>1. MaxGen \in Nat
    BY SegLogAssumption
  <2> QED
    BY <1>4, <2>1 DEF Gens
<1>6. RetainedStart = First(log)
  BY DEF RetainedStart, First
<1>7. /\ Cur.segs # <<>> /\ Clean(Cur) /\ log.used = Lengths(Cur)
      /\ Count(Cur) = log.next - log.base + (IF op.at = "sync" THEN 1 ELSE 0)
      /\ First(log) \in log.base .. log.next
  BY <1>3 DEF Indexes
<1>8. First(log) \in Nat /\ log.base <= First(log) /\ First(log) <= log.next
  BY <1>2, <1>3, <1>4, <1>7
<1>9. Cur = files[log.gen] /\ GenOK(Cur)
  BY <1>2, <1>5 DEF Cur
<1>10. Cur # Absent /\ Count(Cur) \in Nat
  BY <1>7, <1>9, NotAbsent, WalkFacts
<1>11. HeaderAt(slots, log.seq)
  BY <1>1 DEF SlotInv, Quiet, Writing
<1>12. /\ Mine \in Meta /\ Mine.seq = log.seq /\ slots[log.seq % 2].val = Mine
  BY <1>11 DEF HeaderAt, Mine
<1>13. /\ Mine.gen = log.gen /\ Mine.base = log.base
       /\ Mine.trim <= First(log) /\ Survives(Mine, Cur, hist, stable)
  BY <1>1, <1>9 DEF SlotInv, Sound
<1>14. Tells(log, hist)
  <2>1. CASE op.at = "sync"
    <3>1. Indexes(log, Cur, 1)
      BY <1>3, <2>1
    <3> QED
      BY <1>2, <1>3, <1>9, <1>13, <3>1, IndexesTell
  <2>2. CASE op.at # "sync"
    <3>1. Indexes(log, Cur, 0)
      BY <1>3, <2>2
    <3> QED
      BY <1>2, <1>3, <1>9, <1>13, <3>1, IndexesTell
  <2> QED
    BY <2>1, <2>2
<1> QED
  BY <1>1, <1>2, <1>3, <1>4, <1>5, <1>6, <1>7, <1>8, <1>9, <1>10, <1>11, <1>12, <1>13, <1>14

\* Nothing is under way.
LEMMA AtRest ==
  ASSUME IInv, status = "up", ~Pending
  PROVE  Quiet(slots, log.seq)
BY UpFacts DEF SlotInv

\* What is known of each operation under way.
LEMMA OpIs ==
  ASSUME IInv, status = "up"
  PROVE  /\ op.at = "idle" => op = Idle
         /\ op.at = "opened" => op = [at |-> "opened"] /\ log.trim = Mine.trim
         /\ op.at = "write" => Writes
         /\ op.at = "sync" => Syncs
         /\ op.at = "commit" => Commits
         /\ op.at = "copy" => Copies
         /\ op.at = "switch" => Copies /\ Switches
         /\ op.at = "remove" => op = [at |-> "remove"] /\ log.gen > 0
<1>1. OpInv
  BY UpFacts
<1> QED
  BY SMTT(30), <1>1 DEF OpInv, Idle

\* The header stays, and so do the files it names.
LEMMA HeaderStays ==
  ASSUME IInv, status = "up", ~Pending, ~Pending', slots' = slots,
         log'.seq = log.seq, log'.gen = log.gen, log'.base = log.base,
         First(log) <= First(log'), First(log') \in Nat,
         Survives(Mine, files'[log.gen], hist', stable')
  PROVE  SlotInv'
<1>1. Quiet(slots, log.seq)
  BY AtRest
<1>2. Mine' = Mine
  BY DEF Mine
<1>3. Mine.gen = log.gen /\ Mine.base = log.base /\ Mine.trim <= First(log) /\ First(log) \in Nat
      /\ Mine.trim \in Nat
  BY UpFacts DEF Meta
<1>4. Sound(Mine)'
  BY <1>2, <1>3 DEF Sound
<1>5. Mine.trim <= First(log')
  BY <1>3
<1> QED
  BY <1>1, <1>2, <1>3, <1>4, <1>5 DEF SlotInv

\* The next header is being written.
LEMMA HeaderComes ==
  ASSUME IInv, status = "up", ~Pending, Pending',
         NEW gen, NEW base, NEW trim, WriteMeta(gen, base, trim),
         log'.seq = log.seq, log'.gen = log.gen, log'.base = log.base,
         First(log') = First(log), hist' = hist, stable' = stable,
         Survives(Mine, files'[log.gen], hist, stable),
         gen \in 0 .. MaxGen, base \in Nat, trim \in Nat, trim <= First(log),
         Survives([seq |-> log.seq + 1, gen |-> gen, base |-> base, trim |-> trim],
                  files'[gen], hist, stable)
  PROVE  SlotInv' /\ Coming' = [seq |-> log.seq + 1, gen |-> gen, base |-> base, trim |-> trim]
<1> DEFINE m == [seq |-> log.seq + 1, gen |-> gen, base |-> base, trim |-> trim]
<1>1. Quiet(slots, log.seq) /\ log.seq \in Nat
  BY AtRest, UpFacts
<1>2. m \in Meta /\ m.seq = log.seq + 1 /\ m.gen = gen /\ m.trim = trim
  BY <1>1 DEF Meta
<1>3. slots' = [slots EXCEPT ![(log.seq + 1) % 2] =
                  [val |-> m, old |-> slots[(log.seq + 1) % 2].val, synced |-> FALSE]]
  BY DEF WriteMeta
<1> HIDE DEF m
<1>4. /\ Writing(slots', log.seq) /\ slots'[(log.seq + 1) % 2].val = m
      /\ slots'[log.seq % 2] = slots[log.seq % 2]
  <2>1. slots' = Wrote(slots, log.seq, m)
    BY <1>3 DEF Wrote
  <2> QED
    BY <1>1, <1>2, <2>1, HeaderWritten
<1>5. Mine' = Mine /\ Coming' = m
  BY <1>4 DEF Mine, Coming
<1>6. Mine.gen = log.gen /\ Mine.base = log.base /\ Mine.trim <= First(log)
  BY UpFacts
<1>7. Sound(Mine)'
  BY <1>5, <1>6 DEF Sound
<1>8. Sound(Coming)'
  <2>1. Survives(m, files'[gen], hist, stable)
    BY DEF m
  <2> QED
    BY <1>2, <1>5, <2>1 DEF Sound
<1>9. SlotInv'
  BY <1>2, <1>4, <1>5, <1>6, <1>7, <1>8 DEF SlotInv
<1> QED
  BY <1>5, <1>9 DEF m

\* Files in which those of the log stand are found by the headers that found them.
LEMMA SoundStays ==
  ASSUME IInv, status = "up", NEW m, m.base = log.base, Survives(m, Cur, hist, stable),
         NEW h, Keeps(Cur, h), NEW safe \in Int, OnMedium(h, safe - log.base)
  PROVE  Survives(m, h, hist, safe)
<1>1. /\ hist \in Seq(Ids) /\ GenOK(Cur) /\ Cur # Absent /\ Len(hist) \in Nat /\ log.base \in Nat
      /\ Count(Cur) = Len(hist) - log.base + (IF op.at = "sync" THEN 1 ELSE 0)
  BY UpFacts
<1>2. Len(hist) <= m.base + Count(Cur)
  BY <1>1
<1> QED
  BY <1>1, <1>2, SurvivesSame

\* A generation keeps its own records.
LEMMA KeepsItself ==
  ASSUME NEW g, GenOK(g), g.segs # <<>>
  PROVE  Keeps(g, g)
<1>1. Count(g) \in Nat
  BY WalkFacts
<1> QED
  BY <1>1 DEF Keeps

\* A sync keeps the records.
LEMMA GrownKeeps ==
  ASSUME NEW g, NEW h, Grown(g, h), Clean(g)
  PROVE  Keeps(g, h) /\ Clean(h) /\ Count(h) = Count(g) /\ Lengths(h) = Lengths(g)
<1>1. Count(g) \in Nat /\ GenOK(h)
  BY WalkFacts DEF Grown
<1> QED
  BY <1>1, GrownStands DEF Keeps

\* Files of which all is on the medium.
LEMMA AllSyncedIs ==
  ASSUME NEW g, GenOK(g), g.segs # <<>>
  PROVE  Grown(g, AllSynced(g)) /\ OnMedium(AllSynced(g), Count(AllSynced(g)))
<1> DEFINE h == AllSynced(g)
           n == Len(g.segs)
<1>1. DOMAIN g.segs = 1 .. n /\ n \in Nat
  BY DEF GenOK
<1>2. /\ h = [segs |-> h.segs, blob |-> h.blob] /\ h.segs = [i \in 1 .. n |-> Synced(g.segs[i])]
      /\ h.blob = Synced(g.blob)
  BY <1>1 DEF AllSynced
<1> HIDE DEF h
<1>3. ASSUME NEW i \in 1 .. n
      PROVE  /\ h.segs[i] \in Segment /\ h.segs[i].cells = g.segs[i].cells
             /\ h.segs[i].synced = Len(g.segs[i].cells) /\ g.segs[i].synced <= h.segs[i].synced
             /\ Len(g.segs[i].cells) \in Nat /\ Len(g.segs[i].cells) <= SegCells
  <2>1. /\ g.segs[i] = [cells |-> g.segs[i].cells, synced |-> g.segs[i].synced]
        /\ g.segs[i].cells \in Seq(Cell) /\ Len(g.segs[i].cells) \in Nat
        /\ Len(g.segs[i].cells) <= SegCells /\ g.segs[i].synced <= Len(g.segs[i].cells)
    BY SegOK
  <2>2. h.segs[i] = [cells |-> g.segs[i].cells, synced |-> Len(g.segs[i].cells)]
    <3>1. h.segs[i] = Synced(g.segs[i])
      BY <1>2
    <3>2. Synced(g.segs[i]) = [g.segs[i] EXCEPT !.synced = Len(g.segs[i].cells)]
      BY DEF Synced
    <3> QED
      BY <2>1, <3>1, <3>2
  <2> QED
    BY <2>1, <2>2 DEF Segment
<1>4. /\ h.blob \in BlobFile /\ h.blob.cells = g.blob.cells
      /\ h.blob.synced = Len(g.blob.cells) /\ g.blob.synced <= h.blob.synced
      /\ Len(g.blob.cells) \in Nat
  <2>1. /\ g.blob = [cells |-> g.blob.cells, synced |-> g.blob.synced]
        /\ g.blob.cells \in Seq(Ids) /\ Len(g.blob.cells) \in Nat
        /\ g.blob.synced <= Len(g.blob.cells)
    BY BlobOK
  <2>2. h.blob = [cells |-> g.blob.cells, synced |-> Len(g.blob.cells)]
    BY <1>2, <2>1 DEF Synced
  <2> QED
    BY <2>1, <2>2 DEF BlobFile
<1>5. h.segs \in Seq(Segment) /\ Len(h.segs) = n /\ DOMAIN h.segs = 1 .. n
  <2> DEFINE t == h.segs
  <2>1. t = [i \in 1 .. n |-> Synced(g.segs[i])] /\ n \in Nat
    BY <1>1, <1>2
  <2>2. \A i \in 1 .. n : t[i] \in Segment
    BY <1>3
  <2> HIDE DEF t, n
  <2>3. t \in [1 .. n -> Segment]
    BY <2>1, <2>2
  <2>4. t \in Seq(Segment) /\ Len(t) = n /\ DOMAIN t = 1 .. n
    BY <2>1, <2>3
  <2> QED
    BY <2>4 DEF t
<1>6. GenOK(h)
  <2>1. h \in [segs : Seq(Segment), blob : BlobFile]
    BY <1>2, <1>4, <1>5
  <2> QED
    BY <1>3, <1>4, <1>5, <2>1 DEF GenOK
<1>7. Grown(g, h)
  BY <1>3, <1>4, <1>5, <1>6 DEF Grown
<1>8. h.segs # <<>>
  <2>1. n # 0
    BY <1>1 DEF GenOK
  <2> QED
    BY <1>5, <2>1
<1>9. OnMedium(h, Count(h))
  <2>1. Count(h) \in Nat
    BY <1>6, <1>8, WalkFacts
  <2>2. ASSUME NEW k \in 1 .. Count(h) PROVE Kept(h, Walk(h)[k])
    <3>1. Walk(h)[k] \in Spots(h) /\ Decodes(h, Walk(h)[k])
      BY <1>6, <1>8, <2>1, WalkFacts
    <3>2. /\ Walk(h)[k][1] \in 1 .. n
          /\ Walk(h)[k][2] + RecordAt(h, Walk(h)[k]).size <= Len(h.segs[Walk(h)[k][1]].cells)
          /\ RecordAt(h, Walk(h)[k]).blob <= Len(h.blob.cells)
      BY <1>5, <1>6, <3>1, DecodesIn
    <3>3. h.segs[Walk(h)[k][1]].synced = Len(h.segs[Walk(h)[k][1]].cells)
      BY <1>3, <3>2
    <3> QED
      BY <1>4, <3>2, <3>3 DEF Kept
  <2> QED
    BY <2>1, <2>2 DEF OnMedium
<1> QED
  BY <1>7, <1>9 DEF h

-----------------------------------------------------------------------------
\* The steps that leave the files alone.
LEMMA CloseKeeps ==
  ASSUME IInv, Close
  PROVE  IInv'
<1>1. /\ status = "up" /\ op.at = "idle" /\ downs < MaxDowns /\ downs' = downs + 1
      /\ log' = Closed /\ op' = Idle /\ status' = "down"
      /\ files' = files /\ slots' = slots /\ fsync' = fsync /\ ids' = ids /\ hist' = hist
      /\ stable' = stable /\ promised' = promised
  BY DEF Close, UpAnd, GoDown
<1>2. ~Pending
  BY <1>1 DEF Pending
<1>3. Quiet(slots, log.seq) /\ log.seq \in Nat
  BY <1>1, <1>2, AtRest, UpFacts
<1>4. /\ Mine.gen = log.gen /\ Cur = files[log.gen] /\ Survives(Mine, Cur, hist, stable)
      /\ Mine.base + Count(Cur) = Len(hist) /\ slots[log.seq % 2].val = Mine
      /\ Mine.trim <= First(log) /\ First(log) \in Nat /\ Mine.trim \in Nat
      /\ TypeInv /\ PromiseInv /\ LogInv
  <2>1. /\ Mine.gen = log.gen /\ Cur = files[log.gen] /\ Survives(Mine, Cur, hist, stable)
        /\ slots[log.seq % 2].val = Mine
        /\ Mine.trim <= First(log) /\ First(log) \in Nat /\ Mine \in Meta
        /\ Mine.base = log.base /\ log.base \in Nat /\ log.next = Len(hist) /\ Len(hist) \in Nat
        /\ Count(Cur) = log.next - log.base + (IF op.at = "sync" THEN 1 ELSE 0)
        /\ TypeInv /\ PromiseInv /\ LogInv
    BY <1>1, UpFacts
  <2>2. Count(Cur) = log.next - log.base
    BY <1>1, <2>1
  <2>3. Mine.base + Count(Cur) = Len(hist)
    BY <2>1, <2>2
  <2> QED
    BY <2>1, <2>3 DEF Meta
<1>5. \A p \in promised : Mine.trim <= p[1]
  <2> TAKE p \in promised
  <2>1. p[1] \in Nat /\ First(log) <= p[1]
    BY <1>4 DEF TypeInv, LogInv
  <2> QED
    BY <1>4, <2>1
<1>6. TypeInv'
  <2>1. downs' \in 0 .. MaxDowns
    BY <1>1, <1>4, SegLogAssumption DEF TypeInv
  <2> QED
    BY <1>1, <1>4, <2>1 DEF TypeInv
<1>7. PromiseInv'
  BY <1>1, <1>4 DEF PromiseInv
<1>8. Holds(slots[log.seq % 2].val, files[slots[log.seq % 2].val.gen])
  BY <1>4, <1>5 DEF Holds
<1>9. DownInv'
  <2>1. \E s \in Nat : Quiet(slots, s) /\ Holds(slots[s % 2].val, files[slots[s % 2].val.gen])
    BY <1>3, <1>8
  <2> QED
    BY <1>1, <2>1 DEF DownInv, Holds
<1> QED
  BY <1>1, <1>6, <1>7, <1>9 DEF IInv

\* A trim drops entries below its offset and writes nothing.
LEMMA TrimFrontKeeps ==
  ASSUME IInv, NEW n \in 1 .. MaxAppends, TrimFront(n)
  PROVE  IInv'
<1> DEFINE left == From(log.entries, n)
<1>1. /\ status = "up" /\ op.at = "idle" /\ n \in RetainedStart + 1 .. log.next
      /\ log' = [log EXCEPT !.entries = left,
                            !.trim = IF left = <<>> THEN log.next ELSE left[1].off]
      /\ promised' = { p \in promised : p[1] >= n }
      /\ files' = files /\ slots' = slots /\ op' = op /\ status' = status /\ fsync' = fsync
      /\ ids' = ids /\ downs' = downs /\ hist' = hist /\ stable' = stable
  BY DEF TrimFront, UpAnd
<1>2. ~Pending /\ ~Pending'
  BY <1>1 DEF Pending
<1>3. /\ RetainedStart = First(log) /\ First(log) \in Nat /\ log.base \in Nat
      /\ log.base <= First(log) /\ log.next \in Nat /\ log \in LogRec
      /\ GenOK(Cur) /\ Cur.segs # <<>> /\ Count(Cur) = log.next - log.base
      /\ Cur = files[log.gen] /\ Survives(Mine, Cur, hist, stable)
      /\ TypeInv /\ PromiseInv /\ LogInv
  <2>1. Count(Cur) = log.next - log.base + (IF op.at = "sync" THEN 1 ELSE 0)
        /\ log.next \in Nat /\ log.base \in Nat
    BY <1>1, UpFacts
  <2> QED
    BY <1>1, <2>1, UpFacts
<1>4. log.entries = Index(Cur, log.base, First(log), log.next) /\ Clean(Cur)
      /\ log.used = Lengths(Cur)
  BY <1>3 DEF LogInv, Indexes
<1> HIDE DEF left
<1>5. /\ left = Index(Cur, log.base, n, log.next) /\ left \in Seq(EntryRec)
      /\ First(log') = n
  <2> DEFINE base == log.base
             next == log.next
             from == First(log)
  <2>1. /\ base \in Nat /\ next \in Nat /\ from \in base .. next /\ n \in from .. next
        /\ n \in base .. next /\ next - base <= Count(Cur)
    BY <1>1, <1>3
  <2> HIDE DEF base, next, from
  <2>2. From(Index(Cur, base, from, next), n) = Index(Cur, base, n, next)
    BY <1>3, <2>1, FromIndex
  <2>3. left = Index(Cur, base, n, next)
    BY <1>4, <2>2 DEF base, next, from, left
  <2>4. IsIndex(left, Cur, base, n, next)
    BY <1>3, <2>1, <2>3, IndexAre
  <2>5. log'.entries = left /\ log'.next = next
    BY <1>1, <1>3 DEF next, LogRec
  <2>6. First(log') = n
    BY <1>3, <2>1, <2>3, <2>5, FirstIs
  <2> QED
    BY <2>3, <2>4, <2>6 DEF base, next, IsIndex
<1>6. /\ log' \in LogRec /\ log'.gen = log.gen /\ log'.base = log.base /\ log'.seq = log.seq
      /\ log'.next = log.next /\ log'.entries = left /\ log'.used = log.used
  <2>1. (IF left = <<>> THEN log.next ELSE left[1].off) \in Nat
    <3>1. left # <<>> => left[1] \in EntryRec
      BY <1>5
    <3> QED
      BY <1>3, <3>1 DEF EntryRec
  <2> QED
    BY <1>1, <1>3, <1>5, <2>1 DEF LogRec
<1>7. TypeInv'
  BY <1>1, <1>3 DEF TypeInv
<1>8. PromiseInv'
  BY <1>1, <1>3 DEF PromiseInv
<1>9. SlotInv'
  <2>1. First(log) <= First(log') /\ First(log') \in Nat
    BY <1>1, <1>3, <1>5
  <2>2. Survives(Mine, files'[log.gen], hist', stable')
    BY <1>1, <1>3
  <2> QED
    BY <1>1, <1>2, <1>6, <2>1, <2>2, HeaderStays
<1>10. LogInv'
  <2>1. Cur' = Cur
    BY <1>1, <1>6 DEF Cur
  <2>2. Indexes(log', Cur, 0)
    <3>1. First(log') \in log'.base .. log'.next
      BY <1>1, <1>3, <1>5, <1>6
    <3>2. Count(Cur) = log'.next - log'.base + 0
      BY <1>3, <1>6
    <3> QED
      BY <1>3, <1>4, <1>5, <1>6, <3>1, <3>2 DEF Indexes
  <2>3. \A p \in promised' : First(log') <= p[1]
    <3> TAKE p \in promised'
    <3>1. p[1] \in Nat /\ p[1] >= n
      BY <1>1, <1>3 DEF TypeInv
    <3> QED
      BY <1>1, <1>5, <3>1
  <2>4. log'.next = Len(hist')
    BY <1>1, <1>3, <1>6 DEF LogInv
  <2> QED
    BY <1>1, <1>6, <2>1, <2>2, <2>3, <2>4 DEF LogInv
<1>11. OpInv'
  <2>1. op' = Idle
    BY <1>1, OpIs
  <2> QED
    BY <2>1 DEF OpInv
<1> QED
  BY <1>1, <1>7, <1>8, <1>9, <1>10, <1>11 DEF IInv, UpInv

-----------------------------------------------------------------------------
\* The steps that sync the files and write the header.
LEMMA FilesBut ==
  ASSUME TypeInv, NEW gen \in Gens, NEW h, GenOK(h), files' = [files EXCEPT ![gen] = h]
  PROVE  /\ files' = [i \in Gens |-> files'[i]] /\ \A i \in Gens : GenOK(files'[i])
         /\ files'[gen] = h /\ \A i \in Gens : i # gen => files'[i] = files[i]
BY DEF TypeInv

\* The same index of files in which those of the log stand.
LEMMA IndexStays ==
  ASSUME IInv, status = "up", op.at # "sync", op'.at # "sync", hist' = hist, log' \in LogRec,
         log'.gen = log.gen, log'.base = log.base, log'.next = log.next,
         log'.entries = log.entries, log'.used = log.used,
         NEW h, Keeps(Cur, h), Clean(h), Count(h) = Count(Cur), Lengths(h) = Lengths(Cur),
         files'[log.gen] = h, \A p \in promised' : First(log) <= p[1]
  PROVE  LogInv' /\ First(log') = First(log)
<1>1. log \in LogRec /\ GenOK(Cur) /\ LogInv /\ log.used = Lengths(Cur) /\ log.next = Len(hist)
      /\ Count(Cur) \in Nat
  BY UpFacts
<1>2. Indexes(log, Cur, 0)
  BY <1>1 DEF LogInv
<1>3. Indexes(log', h, 0)
  <2>1. log'.used = Lengths(h) /\ Count(h) = Count(Cur) + 0
    BY <1>1
  <2>2. Indexes(log', h, 0 + 0)
    BY <1>1, <1>2, <2>1, IndexesOn
  <2> QED
    BY <2>2
<1>4. First(log') = First(log)
  BY DEF First
<1>5. Cur' = h
  BY DEF Cur
<1> QED
  BY <1>1, <1>3, <1>4, <1>5 DEF LogInv

\* All that is in the log is promised.
LEMMA PromiseKeeps ==
  ASSUME IInv, status = "up", hist' = hist, Promise(log.entries, log.next)
  PROVE  /\ PromiseInv' /\ promised' \subseteq (Nat \X Ids) /\ stable' = Len(hist)
         /\ \A p \in promised' : First(log) <= p[1]
<1> DEFINE new == { <<e.off, e.id>> : e \in ToSet(log.entries) }
<1>1. stable' = log.next /\ promised' = promised \cup new
  BY DEF Promise
<1>2. /\ hist \in Seq(Ids) /\ log.next = Len(hist) /\ First(log) \in Nat /\ First(log) <= log.next
      /\ Tells(log, hist) /\ TypeInv /\ PromiseInv /\ LogInv
      /\ stable \in Nat /\ stable <= Len(hist) /\ Len(hist) \in Nat
  BY UpFacts
<1>3. \A p \in new : p \in Nat \X Ids /\ First(log) <= p[1] /\ p[1] < log.next /\ hist[p[1] + 1] = p[2]
  BY <1>2, PromisedAre
<1> HIDE DEF new
<1>4. \A p \in promised : /\ p \in Nat \X Ids /\ First(log) <= p[1] /\ p[1] < stable
                          /\ hist[p[1] + 1] = p[2]
  BY <1>2 DEF TypeInv, PromiseInv, LogInv
<1>5. \A p \in promised : p[1] < log.next
  <2> TAKE p \in promised
  <2>1. p[1] \in Nat /\ p[1] < stable
    BY <1>4
  <2> QED
    BY <1>2, <2>1
<1>6. PromiseInv'
  BY <1>1, <1>3, <1>4, <1>5 DEF PromiseInv
<1>7. promised' \subseteq (Nat \X Ids) /\ \A p \in promised' : First(log) <= p[1]
  BY <1>1, <1>3, <1>4
<1> QED
  BY <1>1, <1>2, <1>6, <1>7

\* A sync promises what is then on the medium.
LEMMA SyncKeeps ==
  ASSUME IInv, Sync
  PROVE  IInv'
<1> DEFINE h == AllSynced(Cur)
<1>1. /\ status = "up" /\ op.at = "idle" /\ files' = [files EXCEPT ![log.gen] = AllSynced(@)]
      /\ Promise(log.entries, log.next)
      /\ slots' = slots /\ log' = log /\ op' = op /\ status' = status /\ fsync' = fsync
      /\ ids' = ids /\ downs' = downs /\ hist' = hist
  BY DEF Sync, UpAnd
<1>2. ~Pending /\ ~Pending'
  BY <1>1 DEF Pending
<1>3. /\ GenOK(Cur) /\ Cur.segs # <<>> /\ Clean(Cur) /\ Cur = files[log.gen] /\ log.gen \in Gens
      /\ TypeInv /\ log \in LogRec /\ First(log) \in Nat
      /\ Survives(Mine, Cur, hist, stable) /\ Mine.base = log.base
      /\ Count(Cur) = log.next - log.base /\ log.next = Len(hist) /\ Len(hist) \in Nat
      /\ log.base \in Nat
  <2>1. Count(Cur) = log.next - log.base + (IF op.at = "sync" THEN 1 ELSE 0)
        /\ log.next = Len(hist) /\ Len(hist) \in Nat /\ log.base \in Nat
    BY <1>1, UpFacts
  <2> QED
    BY <1>1, <2>1, UpFacts
<1>4. /\ Keeps(Cur, h) /\ Clean(h) /\ Count(h) = Count(Cur) /\ Lengths(h) = Lengths(Cur)
      /\ OnMedium(h, Count(h)) /\ GenOK(h)
  <2>1. Grown(Cur, h) /\ OnMedium(h, Count(h))
    BY <1>3, AllSyncedIs
  <2>2. GenOK(h)
    BY <2>1 DEF Grown
  <2> HIDE DEF h
  <2> QED
    BY <1>3, <2>1, <2>2, GrownKeeps
<1>5. files' = [files EXCEPT ![log.gen] = h]
  BY <1>1, <1>3 DEF TypeInv
<1> HIDE DEF h
<1>6. /\ files' = [i \in Gens |-> files'[i]] /\ \A i \in Gens : GenOK(files'[i])
      /\ files'[log.gen] = h
  BY <1>3, <1>4, <1>5, FilesBut
<1>7. /\ PromiseInv' /\ promised' \subseteq (Nat \X Ids) /\ stable' = Len(hist)
      /\ \A p \in promised' : First(log) <= p[1]
  BY <1>1, PromiseKeeps
<1>8. TypeInv'
  BY <1>1, <1>3, <1>6, <1>7 DEF TypeInv
<1>9. LogInv'
  BY <1>1, <1>3, <1>4, <1>6, <1>7, IndexStays
<1>10. SlotInv'
  <2>1. OnMedium(h, stable' - log.base)
    BY <1>3, <1>4, <1>7
  <2>2. Survives(Mine, h, hist, stable')
    BY <1>1, <1>3, <1>4, <1>7, <2>1, SoundStays
  <2>3. First(log) <= First(log') /\ First(log') \in Nat
    BY <1>1, <1>3
  <2> QED
    BY <1>1, <1>2, <1>6, <2>2, <2>3, HeaderStays
<1>11. OpInv'
  <2>1. op' = Idle
    BY <1>1, OpIs
  <2> QED
    BY <2>1 DEF OpInv
<1> QED
  BY <1>1, <1>7, <1>8, <1>9, <1>10, <1>11 DEF IInv, UpInv

\* A snapshot's header names the files it has just synced.
LEMMA SnapshotKeeps ==
  ASSUME IInv, Snapshot
  PROVE  IInv'
<1> DEFINE h == AllSynced(Cur)
           from == First(log)
<1>1. /\ status = "up" /\ op.at = "idle" /\ files' = [files EXCEPT ![log.gen] = AllSynced(@)]
      /\ log' = [log EXCEPT !.trim = RetainedStart]
      /\ WriteMeta(log.gen, log.base, RetainedStart)
      /\ op' = [at |-> "commit", snapshot |-> TRUE]
      /\ status' = status /\ fsync' = fsync
      /\ ids' = ids /\ downs' = downs /\ hist' = hist /\ stable' = stable /\ promised' = promised
  BY DEF Snapshot, UpAnd
<1>2. ~Pending /\ Pending' /\ op'.at = "commit"
  BY <1>1 DEF Pending
<1>3. /\ GenOK(Cur) /\ Cur.segs # <<>> /\ Clean(Cur) /\ Cur = files[log.gen] /\ log.gen \in Gens
      /\ TypeInv /\ PromiseInv /\ LogInv /\ log \in LogRec /\ from \in Nat
      /\ Survives(Mine, Cur, hist, stable) /\ Mine.base = log.base /\ Mine.trim <= from
      /\ Count(Cur) = log.next - log.base /\ log.next = Len(hist) /\ Len(hist) \in Nat
      /\ log.base \in Nat /\ RetainedStart = from /\ log.base <= from /\ from <= log.next
      /\ log.gen \in 0 .. MaxGen /\ stable \in Nat /\ stable <= Len(hist) /\ Mine.trim \in Nat
      /\ Cur # Absent /\ log.seq \in Nat
  <2>1. Count(Cur) = log.next - log.base + (IF op.at = "sync" THEN 1 ELSE 0)
        /\ log.next = Len(hist) /\ Len(hist) \in Nat /\ log.base \in Nat
    BY <1>1, UpFacts
  <2>2. Mine.trim \in Nat
    BY <1>1, UpFacts DEF Meta
  <2> QED
    BY <1>1, <2>1, <2>2, UpFacts
<1>4. /\ Keeps(Cur, h) /\ Clean(h) /\ Count(h) = Count(Cur) /\ Lengths(h) = Lengths(Cur)
      /\ OnMedium(h, Count(h)) /\ GenOK(h)
  <2>1. Grown(Cur, h) /\ OnMedium(h, Count(h))
    BY <1>3, AllSyncedIs
  <2>2. GenOK(h)
    BY <2>1 DEF Grown
  <2> HIDE DEF h
  <2> QED
    BY <1>3, <2>1, <2>2, GrownKeeps
<1>5. files' = [files EXCEPT ![log.gen] = h]
  BY <1>1, <1>3 DEF TypeInv
<1> HIDE DEF h, from
<1>6. /\ files' = [i \in Gens |-> files'[i]] /\ \A i \in Gens : GenOK(files'[i])
      /\ files'[log.gen] = h
  BY <1>3, <1>4, <1>5, FilesBut
<1>7. /\ log' \in LogRec /\ log'.gen = log.gen /\ log'.base = log.base /\ log'.seq = log.seq
      /\ log'.next = log.next /\ log'.entries = log.entries /\ log'.used = log.used
  BY <1>1, <1>3 DEF LogRec
<1>8. TypeInv'
  BY <1>1, <1>3, <1>6 DEF TypeInv
<1>9. LogInv' /\ First(log') = First(log)
  <2>1. \A p \in promised' : First(log) <= p[1]
    BY <1>1, <1>3 DEF LogInv
  <2> QED
    BY <1>1, <1>2, <1>4, <1>6, <1>7, <2>1, IndexStays
<1>10. ASSUME NEW n \in Nat, n <= Len(hist) PROVE OnMedium(h, n - log.base)
  <2>1. n - log.base <= Count(h) /\ \A k \in 1 .. n - log.base : k \in 1 .. Count(h)
    BY <1>3, <1>4, <1>10
  <2> QED
    BY <1>4, <2>1 DEF OnMedium
<1>11. Survives(Mine, h, hist, stable)
  BY <1>1, <1>3, <1>4, <1>10, SoundStays
<1> DEFINE m == [seq |-> log.seq + 1, gen |-> log.gen, base |-> log.base, trim |-> from]
<1>12. Survives(m, h, hist, stable)
  <2>1. m \in Meta /\ m.base = log.base /\ m.trim = from
    BY <1>3 DEF Meta
  <2>2. h.segs # <<>> /\ h # Absent
    BY <1>4, NotAbsent DEF Keeps
  <2> HIDE DEF m
  <2>3. OnMedium(h, m.trim - m.base) /\ OnMedium(h, stable - m.base)
    BY <1>3, <1>10, <2>1
  <2>4. \A k \in 1 .. Count(h) : m.trim < m.base + k /\ m.base + k <= Len(hist) => Msg(h, k) = hist[m.base + k]
    <3>1. \A k \in 1 .. Count(h) : Mine.trim < Mine.base + k /\ Mine.base + k <= Len(hist)
                                     => Msg(h, k) = hist[Mine.base + k]
      BY <1>11, <2>2 DEF Survives
    <3>2. \A k \in 1 .. Count(h) : m.trim < m.base + k => Mine.trim < Mine.base + k
      BY <1>3, <2>1
    <3> QED
      BY <1>3, <2>1, <3>1, <3>2
  <2>5. m.base <= m.trim /\ m.trim <= Len(hist)
    BY <1>3, <2>1
  <2> QED
    BY <2>1, <2>2, <2>3, <2>4, <2>5 DEF Survives
<1>13. SlotInv' /\ Coming' = m
  <2>1. /\ WriteMeta(log.gen, log.base, from) /\ from <= First(log)
        /\ Survives(Mine, files'[log.gen], hist, stable)
        /\ Survives(m, files'[log.gen], hist, stable)
    BY <1>1, <1>3, <1>6, <1>11, <1>12 DEF from
  <2> QED
    BY <1>1, <1>2, <1>3, <1>7, <1>9, <2>1, HeaderComes
<1>14. OpInv'
  <2>1. Cur' = h /\ Coming'.gen = log.gen /\ Coming'.base = log.base
    BY <1>6, <1>7, <1>13 DEF Cur
  <2>2. OnMedium(h, log.next - log.base)
    BY <1>3, <1>4
  <2>3. Commits'
    BY <1>1, <1>7, <2>1, <2>2 DEF Commits
  <2> QED
    BY <1>2, <2>3 DEF OpInv
<1>15. PromiseInv'
  BY <1>1, <1>3 DEF PromiseInv
<1> QED
  BY <1>1, <1>8, <1>9, <1>13, <1>14, <1>15 DEF IInv, UpInv

\* The header written after open is the one that open found.
LEMMA SetBlobThresholdKeeps ==
  ASSUME IInv, SetBlobThreshold
  PROVE  IInv'
<1>1. /\ status = "up" /\ op.at = "opened"
      /\ WriteMeta(log.gen, log.base, log.trim) /\ op' = [at |-> "commit", snapshot |-> FALSE]
      /\ files' = files /\ log' = log /\ status' = status /\ fsync' = fsync
      /\ ids' = ids /\ downs' = downs /\ hist' = hist /\ stable' = stable /\ promised' = promised
  BY DEF SetBlobThreshold, UpAnd
<1>2. ~Pending /\ Pending' /\ op'.at = "commit" /\ op.at # "sync"
  BY <1>1 DEF Pending
<1>3. /\ GenOK(Cur) /\ Cur.segs # <<>> /\ Clean(Cur) /\ Cur = files[log.gen] /\ log.gen \in Gens
      /\ TypeInv /\ PromiseInv /\ LogInv /\ log \in LogRec /\ First(log) \in Nat
      /\ Survives(Mine, Cur, hist, stable) /\ Mine.base = log.base /\ Mine.trim <= First(log)
      /\ log.base \in Nat /\ log.trim \in Nat /\ log.trim = Mine.trim /\ Mine.gen = log.gen
      /\ log.gen \in 0 .. MaxGen /\ log.seq \in Nat /\ Cur # Absent
  BY <1>1, UpFacts, OpIs
<1> DEFINE m == [seq |-> log.seq + 1, gen |-> log.gen, base |-> log.base, trim |-> log.trim]
<1>4. Survives(m, Cur, hist, stable)
  <2>1. m \in Meta /\ m.base = Mine.base /\ m.trim = Mine.trim
    BY <1>3 DEF Meta
  <2> HIDE DEF m
  <2> QED
    BY <1>3, <2>1 DEF Survives
<1>5. SlotInv' /\ Coming' = m
  <2>1. files'[log.gen] = Cur
    BY <1>1, <1>3
  <2> QED
    BY <1>1, <1>2, <1>3, <1>4, <2>1, HeaderComes
<1>6. OpInv'
  <2>1. Coming'.gen = log.gen /\ Coming'.base = log.base
    BY <1>5
  <2>2. Commits'
    BY <1>1, <2>1 DEF Commits
  <2> QED
    BY <1>2, <2>2 DEF OpInv
<1>7. LogInv'
  <2>1. Keeps(Cur, Cur) /\ files'[log.gen] = Cur
    BY <1>1, <1>3, KeepsItself
  <2>2. \A p \in promised' : First(log) <= p[1]
    BY <1>1, <1>3 DEF LogInv
  <2>3. log' \in LogRec /\ log'.gen = log.gen /\ log'.base = log.base /\ log'.next = log.next
        /\ log'.entries = log.entries /\ log'.used = log.used
    BY <1>1, <1>3
  <2> QED
    BY <1>1, <1>2, <1>3, <2>1, <2>2, <2>3, IndexStays
<1>8. TypeInv' /\ PromiseInv'
  BY <1>1, <1>3 DEF TypeInv, PromiseInv
<1> QED
  BY <1>1, <1>5, <1>6, <1>7, <1>8 DEF IInv, UpInv

\* The header written becomes the header.
LEMMA CommitKeeps ==
  ASSUME IInv, Commit
  PROVE  IInv'
<1>1. /\ status = "up" /\ op.at = "commit" /\ SyncMeta /\ log' = [log EXCEPT !.seq = @ + 1]
      /\ IF op.snapshot THEN Promise(log.entries, log.next)
         ELSE stable' = stable /\ promised' = promised
      /\ op' = Idle /\ files' = files /\ status' = status /\ fsync' = fsync
      /\ ids' = ids /\ downs' = downs /\ hist' = hist
  BY DEF Commit, UpAnd
<1>2. Pending /\ ~Pending' /\ op'.at = "idle" /\ op.at # "sync"
  BY <1>1 DEF Pending, Idle
<1>3. /\ GenOK(Cur) /\ Cur.segs # <<>> /\ Clean(Cur) /\ Cur = files[log.gen] /\ log.gen \in Gens
      /\ TypeInv /\ PromiseInv /\ LogInv /\ SlotInv /\ log \in LogRec /\ First(log) \in Nat
      /\ log.base \in Nat /\ log.seq \in Nat /\ Cur # Absent /\ Commits
      /\ stable \in Nat /\ Len(hist) \in Nat /\ log.next = Len(hist)
  BY <1>1, UpFacts, OpIs
<1>4. /\ Coming.gen = log.gen /\ Coming.base = log.base /\ op.snapshot \in BOOLEAN
      /\ op.snapshot => OnMedium(Cur, log.next - log.base)
  BY <1>3 DEF Commits
<1>5. Writing(slots, log.seq) /\ Coming.trim <= First(log) /\ Survives(Coming, Cur, hist, stable)
  BY <1>2, <1>3, <1>4 DEF SlotInv, Sound
<1>6. /\ log' \in LogRec /\ log'.gen = log.gen /\ log'.base = log.base /\ log'.seq = log.seq + 1
      /\ log'.next = log.next /\ log'.entries = log.entries /\ log'.used = log.used
  BY SMTT(30), <1>1, <1>3 DEF LogRec
<1>7. Quiet(slots', log.seq + 1) /\ slots'[(log.seq + 1) % 2].val = Coming
  <2>1. slots' = Landed(slots, log.seq)
    BY <1>1 DEF SyncMeta, Landed
  <2> QED
    BY <1>3, <1>5, <2>1, HeaderLanded DEF Coming
<1>8. /\ PromiseInv' /\ promised' \subseteq (Nat \X Ids) /\ stable' \in 0 .. Len(hist)
      /\ \A p \in promised' : First(log) <= p[1]
      /\ (fsync = "every_write" => stable' = Len(hist))
      /\ OnMedium(Cur, stable' - log.base)
  <2>1. CASE op.snapshot
    <3>1. Promise(log.entries, log.next)
      BY <1>1, <2>1
    <3>2. /\ PromiseInv' /\ promised' \subseteq (Nat \X Ids) /\ stable' = Len(hist)
          /\ \A p \in promised' : First(log) <= p[1]
      BY <1>1, <3>1, PromiseKeeps
    <3>3. stable' \in 0 .. Len(hist)
      BY <1>3, <3>2
    <3> QED
      BY <1>3, <1>4, <2>1, <3>2, <3>3
  <2>2. CASE ~op.snapshot
    <3>1. stable' = stable /\ promised' = promised
      BY <1>1, <2>2
    <3>2. OnMedium(Cur, stable - log.base)
      BY <1>3, <1>4, <1>5 DEF Survives
    <3> QED
      BY <1>1, <1>3, <3>1, <3>2 DEF TypeInv, PromiseInv, LogInv
  <2> QED
    BY <1>4, <2>1, <2>2
<1>9. TypeInv'
  BY <1>1, <1>3, <1>8 DEF TypeInv
<1>10. LogInv' /\ First(log') = First(log)
  <2>1. Keeps(Cur, Cur) /\ files'[log.gen] = Cur
    BY <1>1, <1>3, KeepsItself
  <2> QED
    BY <1>1, <1>2, <1>3, <1>6, <1>8, <2>1, IndexStays
<1>11. SlotInv'
  <2>1. Mine' = Coming
    BY <1>6, <1>7 DEF Mine
  <2>2. Keeps(Cur, Cur) /\ stable' \in Int
    BY <1>3, <1>8, KeepsItself
  <2>3. Survives(Coming, Cur, hist, stable')
    BY <1>1, <1>4, <1>5, <1>8, <2>2, SoundStays
  <2>4. Sound(Mine)'
    BY <1>1, <1>3, <1>4, <2>1, <2>3 DEF Sound
  <2> QED
    BY <1>2, <1>4, <1>5, <1>6, <1>7, <1>10, <2>1, <2>4 DEF SlotInv
<1>12. OpInv'
  BY <1>1 DEF OpInv
<1> QED
  BY <1>1, <1>8, <1>9, <1>10, <1>11, <1>12 DEF IInv, UpInv

-----------------------------------------------------------------------------
\* Appending: a blob, a record, the sync and the entry.
LEMMA FilesGrow ==
  ASSUME IInv, status = "up", ~Pending, ~Pending', op.at # "sync", op'.at # "sync",
         slots' = slots, log' = log, fsync' = fsync, hist' = hist, stable' = stable,
         promised' = promised, downs' = downs, status' = status, ids' \in 0 .. MaxAppends,
         files' = [i \in Gens |-> files'[i]], \A i \in Gens : GenOK(files'[i]),
         NEW h, Keeps(Cur, h), Clean(h), Count(h) = Count(Cur), Lengths(h) = Lengths(Cur),
         files'[log.gen] = h
  PROVE  TypeInv' /\ PromiseInv' /\ LogInv' /\ SlotInv' /\ Cur' = h
<1>1. /\ TypeInv /\ PromiseInv /\ LogInv /\ log \in LogRec /\ log.gen \in Gens
      /\ First(log) \in Nat /\ Survives(Mine, Cur, hist, stable) /\ Mine.base = log.base
      /\ Cur # Absent /\ stable \in Nat /\ log.base \in Nat
  BY UpFacts
<1>2. TypeInv'
  BY <1>1 DEF TypeInv
<1>3. PromiseInv'
  BY <1>1 DEF PromiseInv
<1>4. LogInv'
  <2>1. \A p \in promised' : First(log) <= p[1]
    BY <1>1 DEF LogInv
  <2> QED
    BY <1>1, <2>1, IndexStays
<1>5. SlotInv'
  <2>1. OnMedium(h, stable - log.base)
    <3>1. OnMedium(Cur, stable - log.base)
      BY <1>1 DEF Survives
    <3> QED
      BY <1>1, <3>1 DEF Keeps
  <2>2. Survives(Mine, h, hist, stable)
    BY <1>1, <2>1, SoundStays
  <2>3. First(log) <= First(log') /\ First(log') \in Nat
    BY <1>1
  <2> QED
    BY <1>1, <2>2, <2>3, HeaderStays
<1>6. Cur' = h
  BY DEF Cur
<1> QED
  BY <1>2, <1>3, <1>4, <1>5, <1>6

\* The blob file grows.
LEMMA BlobGrows ==
  ASSUME NEW g, GenOK(g), g.segs # <<>>, NEW id \in Ids, NEW b,
         b = [cells |-> b.cells, synced |-> b.synced], b.cells = Append(g.blob.cells, id),
         b.synced = g.blob.synced \/ b.synced = Len(b.cells),
         NEW h, h = [segs |-> g.segs, blob |-> b]
  PROVE  /\ Grown(g, h) /\ h.segs = g.segs /\ h.blob = b /\ Len(b.cells) = Len(g.blob.cells) + 1
         /\ b.cells[Len(b.cells)] = id
<1>1. /\ g.blob.cells \in Seq(Ids) /\ g.blob.synced \in Nat
      /\ Len(g.blob.cells) \in Nat /\ g.blob.synced <= Len(g.blob.cells)
  BY BlobOK
<1>2. /\ b.cells \in Seq(Ids) /\ Len(b.cells) = Len(g.blob.cells) + 1
      /\ \A i \in 1 .. Len(g.blob.cells) : b.cells[i] = g.blob.cells[i]
      /\ b.cells[Len(g.blob.cells) + 1] = id
  BY <1>1
<1>3. b.synced \in Nat /\ g.blob.synced <= b.synced /\ b.synced <= Len(b.cells)
  BY <1>1, <1>2
<1>4. b \in BlobFile
  BY <1>2, <1>3 DEF BlobFile
<1>5. GenOK(h)
  BY <1>3, <1>4 DEF GenOK
<1>6. \A i \in 1 .. Len(g.segs) : g.segs[i].synced <= g.segs[i].synced
  <2> TAKE i \in 1 .. Len(g.segs)
  <2>1. g.segs[i].synced \in Nat
    BY SegOK
  <2> QED
    BY <2>1
<1>7. Len(g.blob.cells) <= Len(b.cells)
  BY <1>1, <1>2
<1>8. Grown(g, h)
  BY <1>2, <1>3, <1>5, <1>6, <1>7 DEF Grown
<1> QED
  BY <1>2, <1>8

\* A blob without a record is not read.
LEMMA AppendStartKeeps ==
  ASSUME IInv, NEW size \in 1 .. SegCells, NEW big \in BOOLEAN, AppendStart(size, big)
  PROVE  IInv'
<1> DEFINE f == Cur.blob
           g == [f EXCEPT !.cells = Append(@, ids + 1)]
           b == IF fsync = "every_write" THEN Synced(g) ELSE g
           h == IF ~big THEN Cur ELSE [segs |-> Cur.segs, blob |-> b]
<1>1. /\ status = "up" /\ op.at = "idle" /\ ids < MaxAppends /\ ids' = ids + 1
      /\ files' = IF ~big THEN files ELSE [files EXCEPT ![log.gen].blob = b]
      /\ op' = [at |-> "write", rec |-> [id |-> ids + 1, size |-> size,
                                         blob |-> IF big THEN Len(g.cells) ELSE 0]]
      /\ slots' = slots /\ log' = log /\ status' = status /\ fsync' = fsync
      /\ downs' = downs /\ hist' = hist /\ stable' = stable /\ promised' = promised
  BY DEF AppendStart, UpAnd
<1>2. ~Pending /\ ~Pending' /\ op'.at = "write"
  BY <1>1 DEF Pending
<1>3. /\ GenOK(Cur) /\ Cur.segs # <<>> /\ Clean(Cur) /\ Cur = files[log.gen] /\ log.gen \in Gens
      /\ TypeInv
  BY <1>1, UpFacts
<1>4. ids + 1 \in Ids /\ ids' \in 0 .. MaxAppends
  BY SMTT(30), <1>1, <1>3, SegLogAssumption DEF TypeInv, Ids
<1>5. /\ Cur = [segs |-> Cur.segs, blob |-> f] /\ f = [cells |-> f.cells, synced |-> f.synced]
      /\ f.cells \in Seq(Ids) /\ f.synced \in Nat /\ Len(f.cells) \in Nat
  BY <1>3, BlobOK
<1> DEFINE more == Append(f.cells, ids + 1)
<1>6. g = [cells |-> more, synced |-> f.synced]
  <2>1. g = [f EXCEPT !.cells = more]
    OBVIOUS
  <2> HIDE DEF more, f
  <2> QED
    BY <1>5, <2>1
<1>7. /\ b = [cells |-> b.cells, synced |-> b.synced] /\ b.cells = more
      /\ b.synced = f.synced \/ b.synced = Len(b.cells)
  <2>1. g.cells = more /\ Synced(g) = [g EXCEPT !.synced = Len(g.cells)]
    BY <1>6 DEF Synced
  <2>2. CASE fsync = "every_write"
    <3>1. b = [g EXCEPT !.synced = Len(g.cells)]
      BY <2>1, <2>2
    <3> HIDE DEF b, g, more, f
    <3>2. b = [cells |-> more, synced |-> Len(more)]
      BY <1>6, <2>1, <3>1
    <3> QED
      BY <3>2
  <2>3. CASE fsync # "every_write"
    <3>1. b = g
      BY <2>3
    <3> HIDE DEF b, g, more, f
    <3> QED
      BY <1>6, <3>1
  <2> QED
    BY <2>2, <2>3
<1>8. Len(g.cells) = Len(b.cells) /\ g.cells = b.cells
  <2> HIDE DEF b, g, more, f
  <2> QED
    BY <1>6, <1>7
<1>9. files' = [files EXCEPT ![log.gen] = h]
  <2>1. CASE ~big
    <3>1. files = [files EXCEPT ![log.gen] = Cur]
      BY <1>3 DEF TypeInv
    <3> QED
      BY <1>1, <2>1, <3>1
  <2>2. CASE big
    <3>1. files' = [files EXCEPT ![log.gen] = [Cur EXCEPT !.blob = b]]
      BY <1>1, <1>3, <2>2
    <3>2. \A c, x : c = [segs |-> c.segs, blob |-> c.blob] =>
                      [c EXCEPT !.blob = x] = [segs |-> c.segs, blob |-> x]
      OBVIOUS
    <3>3. h = [segs |-> Cur.segs, blob |-> b]
      BY <2>2
    <3>4. [Cur EXCEPT !.blob = b] = [segs |-> Cur.segs, blob |-> b]
      BY <1>5, <3>2
    <3> QED
      BY <3>1, <3>3, <3>4
  <2> QED
    BY <2>1, <2>2
<1> HIDE DEF g, b
<1>10. big => /\ Grown(Cur, h) /\ h.blob = b /\ Len(b.cells) = Len(f.cells) + 1
              /\ b.cells[Len(b.cells)] = ids + 1
  <2> SUFFICES ASSUME big PROVE /\ Grown(Cur, h) /\ h.blob = b /\ Len(b.cells) = Len(f.cells) + 1
                                /\ b.cells[Len(b.cells)] = ids + 1
    OBVIOUS
  <2> DEFINE id == ids + 1
  <2>1. h = [segs |-> Cur.segs, blob |-> b]
    OBVIOUS
  <2>2. /\ id \in Ids /\ b = [cells |-> b.cells, synced |-> b.synced]
        /\ b.cells = Append(Cur.blob.cells, id)
    BY <1>4, <1>7
  <2>3. b.synced = Cur.blob.synced \/ b.synced = Len(b.cells)
    BY <1>7
  <2> HIDE DEF h, id, more, f
  <2>4. GenOK(Cur) /\ Cur.segs # <<>>
    BY <1>3
  <2>5. /\ Grown(Cur, h) /\ h.segs = Cur.segs /\ h.blob = b
        /\ Len(b.cells) = Len(Cur.blob.cells) + 1 /\ b.cells[Len(b.cells)] = id
    BY <2>1, <2>2, <2>3, <2>4, BlobGrows
  <2> QED
    BY <2>5 DEF id, f
<1>11. /\ GenOK(h) /\ Keeps(Cur, h) /\ Clean(h) /\ Count(h) = Count(Cur)
       /\ Lengths(h) = Lengths(Cur)
  <2>1. CASE big
    <3>1. Grown(Cur, h) /\ GenOK(h)
      BY <1>10, <2>1 DEF Grown
    <3> HIDE DEF h
    <3> QED
      BY <1>3, <3>1, GrownKeeps
  <2>2. CASE ~big
    <3>1. h = Cur
      BY <2>2
    <3> HIDE DEF h
    <3> QED
      BY <1>3, <3>1, KeepsItself
  <2> QED
    BY <2>1, <2>2
<1> HIDE DEF h
<1>12. /\ files' = [i \in Gens |-> files'[i]] /\ \A i \in Gens : GenOK(files'[i])
       /\ files'[log.gen] = h
  BY <1>3, <1>9, <1>11, FilesBut
<1>13. TypeInv' /\ PromiseInv' /\ LogInv' /\ SlotInv' /\ Cur' = h
  BY <1>1, <1>2, <1>4, <1>11, <1>12, FilesGrow
<1>14. OpInv'
  <2>1. op'.rec = [id |-> ids + 1, size |-> size, blob |-> IF big THEN Len(b.cells) ELSE 0]
        /\ op' = [at |-> "write", rec |-> op'.rec]
    BY <1>1, <1>8
  <2>2. op'.rec \in Rec
    BY <1>4, <1>5, <1>10, <2>1 DEF Rec
  <2>3. Len(h.blob.cells) \in Nat
    BY <1>11, BlobOK
  <2>4. op'.rec.blob <= Len(h.blob.cells) /\ Payload(op'.rec, h.blob.cells) = op'.rec.id
    <3>1. CASE big
      <4>1. Len(b.cells) # 0 /\ Len(b.cells) \in Nat
        BY <1>5, <1>10, <3>1
      <4> QED
        BY <1>10, <2>1, <3>1, <4>1 DEF Payload
    <3>2. CASE ~big
      BY <2>1, <2>3, <3>2 DEF Payload
    <3> QED
      BY <3>1, <3>2
  <2>5. Writes'
    BY <1>13, <2>1, <2>2, <2>4 DEF Writes
  <2> QED
    BY <1>2, <2>5 DEF OpInv
<1> QED
  BY <1>1, <1>13, <1>14 DEF IInv, UpInv

\* The record is in the files and not yet in the index.
LEMMA WriteRecordKeeps ==
  ASSUME IInv, WriteRecord
  PROVE  IInv'
<1> DEFINE r == op.rec
           at == Place(log.used, r.size)
           h == Put(Cur, at, CellsOf(r))
<1>1. /\ status = "up" /\ op.at = "write"
      /\ files' = [files EXCEPT ![log.gen] = Put(@, at, CellsOf(r))]
      /\ log' = [log EXCEPT !.used = UsedAfter(@, at, r.size)]
      /\ op' = [at |-> "sync", rec |-> r, seg |-> at.seg, pos |-> at.pos]
      /\ slots' = slots /\ status' = status /\ fsync' = fsync /\ ids' = ids
      /\ downs' = downs /\ hist' = hist /\ stable' = stable /\ promised' = promised
  BY DEF WriteRecord, UpAnd
<1>2. ~Pending /\ ~Pending' /\ op'.at = "sync"
  BY <1>1 DEF Pending
<1>3. /\ GenOK(Cur) /\ Cur.segs # <<>> /\ Clean(Cur) /\ Cur = files[log.gen] /\ log.gen \in Gens
      /\ TypeInv /\ PromiseInv /\ LogInv /\ log \in LogRec /\ First(log) \in Nat
      /\ Survives(Mine, Cur, hist, stable) /\ Mine.base = log.base /\ stable \in Nat
      /\ log.base \in Nat /\ log.used = Lengths(Cur) /\ Count(Cur) \in Nat /\ Writes
  BY <1>1, UpFacts, OpIs
<1>4. r \in Rec /\ r.blob <= Len(Cur.blob.cells) /\ Payload(r, Cur.blob.cells) = r.id
  BY <1>3 DEF Writes
<1>5. PutAt(Cur, h, r, at.seg, at.pos) /\ Lengths(h) = UsedAfter(log.used, at, r.size)
  <2> DEFINE used == log.used
  <2>1. used = Lengths(Cur)
    BY <1>3
  <2> HIDE DEF r, used
  <2> QED
    BY <1>3, <1>4, <2>1, PutIs
<1>6. files' = [files EXCEPT ![log.gen] = h]
  BY <1>1, <1>3
<1> HIDE DEF r, at, h
<1>7. /\ GenOK(h) /\ h.segs # <<>> /\ Clean(h) /\ Count(h) = Count(Cur) + 1
      /\ \A k \in 1 .. Count(Cur) : Walk(h)[k] = Walk(Cur)[k] /\ Msg(h, k) = Msg(Cur, k)
      /\ Walk(h)[Count(h)] = <<at.seg, at.pos>>
      /\ Msg(h, Count(h)) = Payload(r, Cur.blob.cells)
      /\ \A n \in Int : OnMedium(Cur, n) => OnMedium(h, n)
  <2> DEFINE s == at.seg
             p == at.pos
  <2>1. PutAt(Cur, h, r, s, p)
    BY <1>5
  <2> HIDE DEF s, p
  <2>2. GenOK(Cur) /\ Cur.segs # <<>> /\ Clean(Cur) /\ r \in Rec /\ r.blob <= Len(Cur.blob.cells)
    BY <1>3, <1>4
  <2>3. /\ GenOK(h) /\ h.segs # <<>> /\ Clean(h) /\ Count(h) = Count(Cur) + 1
        /\ \A k \in 1 .. Count(Cur) : /\ Walk(h)[k] = Walk(Cur)[k] /\ Msg(h, k) = Msg(Cur, k)
                                       /\ RecordAt(h, Walk(h)[k]) = RecordAt(Cur, Walk(Cur)[k])
        /\ Walk(h)[Count(h)] = <<s, p>> /\ RecordAt(h, <<s, p>>) = r
        /\ Msg(h, Count(h)) = Payload(r, Cur.blob.cells)
        /\ \A n \in Int : OnMedium(Cur, n) => OnMedium(h, n)
    BY <2>1, <2>2, PutStands
  <2> QED
    BY <2>3 DEF s, p
<1>8. Keeps(Cur, h)
  <2>1. Count(Cur) <= Count(h)
    BY <1>3, <1>7
  <2> QED
    BY <1>7, <2>1 DEF Keeps
<1>9. /\ files' = [i \in Gens |-> files'[i]] /\ \A i \in Gens : GenOK(files'[i])
      /\ files'[log.gen] = h
  BY <1>3, <1>6, <1>7, FilesBut
<1>10. /\ log' \in LogRec /\ log'.gen = log.gen /\ log'.base = log.base /\ log'.seq = log.seq
       /\ log'.next = log.next /\ log'.entries = log.entries /\ log'.used = Lengths(h)
       /\ First(log') = First(log)
  <2>1. Lengths(h) \in Seq(Nat)
    <3>1. \A i \in 1 .. Len(h.segs) : Len(h.segs[i].cells) \in Nat /\ DOMAIN h.segs = 1 .. Len(h.segs)
      BY <1>7, SegOK
    <3>2. Len(h.segs) \in Nat /\ DOMAIN h.segs = 1 .. Len(h.segs)
      BY <1>7 DEF GenOK
    <3> QED
      BY <3>1, <3>2 DEF Lengths
  <2>2. log' = [log EXCEPT !.used = Lengths(h)]
    BY <1>1, <1>3, <1>5
  <2>3. /\ log' \in LogRec /\ log'.gen = log.gen /\ log'.base = log.base /\ log'.seq = log.seq
        /\ log'.next = log.next /\ log'.entries = log.entries /\ log'.used = Lengths(h)
    BY <1>3, <2>1, <2>2 DEF LogRec
  <2> QED
    BY <2>3 DEF First
<1>11. TypeInv' /\ PromiseInv'
  BY <1>1, <1>3, <1>9 DEF TypeInv, PromiseInv
<1>12. Cur' = h
  BY <1>9, <1>10 DEF Cur
<1>13. LogInv'
  <2>1. Indexes(log, Cur, 0)
    BY <1>1, <1>3 DEF LogInv
  <2>2. Indexes(log', h, 0 + 1)
    BY <1>3, <1>7, <1>8, <1>10, <2>1, IndexesOn
  <2>3. Indexes(log', h, 1)
    BY <2>2
  <2> QED
    BY <1>1, <1>2, <1>3, <1>10, <1>12, <2>3 DEF LogInv
<1>14. SlotInv'
  <2>1. OnMedium(Cur, stable - log.base)
    BY <1>3, NotAbsent DEF Survives
  <2>2. OnMedium(h, stable - log.base)
    BY <1>3, <1>7, <2>1
  <2>3. Survives(Mine, h, hist, stable)
    BY <1>1, <1>3, <1>8, <2>2, SoundStays
  <2>4. First(log) <= First(log') /\ First(log') \in Nat
    BY <1>3, <1>10
  <2> QED
    BY <1>1, <1>2, <1>9, <1>10, <2>3, <2>4, HeaderStays
<1>15. OpInv'
  <2>1. Msg(h, Count(h)) = r.id
    BY <1>4, <1>7
  <2>2. op' = [at |-> "sync", rec |-> op'.rec, seg |-> op'.seg, pos |-> op'.pos]
        /\ op'.rec = r /\ op'.seg = at.seg /\ op'.pos = at.pos
    BY <1>1
  <2>3. Syncs'
    BY <1>4, <1>7, <1>12, <2>1, <2>2 DEF Syncs
  <2> QED
    BY <1>2, <2>3 DEF OpInv
<1> QED
  BY <1>1, <1>11, <1>13, <1>14, <1>15 DEF IInv, UpInv

\* A segment and the blob file are synced.
LEMMA SegmentSynced ==
  ASSUME NEW g, GenOK(g), g.segs # <<>>, NEW s \in 1 .. Len(g.segs),
         NEW h, h = SyncedAt(g, s)
  PROVE  /\ Grown(g, h) /\ h.segs[s].synced = Len(h.segs[s].cells)
         /\ h.blob.synced = Len(h.blob.cells)
<1> DEFINE n == Len(g.segs)
           one == [g.segs[s] EXCEPT !.synced = Len(g.segs[s].cells)]
           b == [g.blob EXCEPT !.synced = Len(g.blob.cells)]
           segs == [g.segs EXCEPT ![s] = one]
<1>1. /\ g = [segs |-> g.segs, blob |-> g.blob]
      /\ g.blob = [cells |-> g.blob.cells, synced |-> g.blob.synced]
      /\ g.blob.cells \in Seq(Ids) /\ Len(g.blob.cells) \in Nat
      /\ g.blob.synced <= Len(g.blob.cells)
  BY BlobOK
<1>2. /\ g.segs[s] = [cells |-> g.segs[s].cells, synced |-> g.segs[s].synced]
      /\ g.segs[s].cells \in Seq(Cell) /\ Len(g.segs[s].cells) \in Nat
      /\ g.segs[s].synced <= Len(g.segs[s].cells) /\ Len(g.segs[s].cells) <= SegCells
      /\ g.segs \in Seq(Segment) /\ n \in Nat /\ DOMAIN g.segs = 1 .. n
  BY SegOK
<1>3. h = [segs |-> segs, blob |-> b]
  <2>1. h = [g EXCEPT !.segs = [g.segs EXCEPT ![s] = Synced(g.segs[s])], !.blob = Synced(g.blob)]
    BY <1>1, <1>2 DEF SyncedAt
  <2>2. Synced(g.segs[s]) = one /\ Synced(g.blob) = b
    BY DEF Synced
  <2>3. h = [g EXCEPT !.segs = segs, !.blob = b]
    BY <2>1, <2>2
  <2> HIDE DEF segs, b
  <2> QED
    BY <1>1, <2>3
<1>4. /\ one = [cells |-> g.segs[s].cells, synced |-> Len(g.segs[s].cells)]
      /\ b = [cells |-> g.blob.cells, synced |-> Len(g.blob.cells)]
  BY <1>1, <1>2
<1> HIDE DEF one, b
<1>5. one \in Segment /\ b \in BlobFile
  BY <1>1, <1>2, <1>4 DEF Segment, BlobFile
<1>6. /\ segs \in Seq(Segment) /\ Len(segs) = n /\ DOMAIN segs = 1 .. n /\ segs[s] = one
      /\ \A i \in 1 .. n : i # s => segs[i] = g.segs[i]
  BY <1>2, <1>5
<1> HIDE DEF segs, one, b
<1>7. h.segs = segs /\ h.blob = b /\ h \in [segs : Seq(Segment), blob : BlobFile]
  <2>1. segs \in Seq(Segment) /\ b \in BlobFile
    BY <1>5, <1>6
  <2> QED
    BY <1>3, <2>1
<1>8. ASSUME NEW i \in 1 .. n
      PROVE  /\ Len(segs[i].cells) <= SegCells /\ segs[i].synced <= Len(segs[i].cells)
             /\ segs[i].cells = g.segs[i].cells /\ g.segs[i].synced <= segs[i].synced
  <2>1. /\ g.segs[i].synced \in Nat /\ Len(g.segs[i].cells) \in Nat
        /\ Len(g.segs[i].cells) <= SegCells /\ g.segs[i].synced <= Len(g.segs[i].cells)
    BY SegOK
  <2>2. CASE i = s
    <3>1. segs[i].cells = g.segs[i].cells /\ segs[i].synced = Len(g.segs[i].cells)
      BY <1>4, <1>6, <2>2
    <3> QED
      BY <2>1, <3>1
  <2>3. CASE i # s
    <3>1. segs[i] = g.segs[i]
      BY <1>6, <2>3
    <3> QED
      BY <2>1, <3>1
  <2> QED
    BY <2>2, <2>3
<1>9. b.cells = g.blob.cells /\ b.synced = Len(g.blob.cells) /\ g.blob.synced <= b.synced
  BY <1>1, <1>4
<1>10. GenOK(h)
  <2>1. b.synced <= Len(b.cells)
    BY <1>1, <1>9
  <2> QED
    BY <1>6, <1>7, <1>8, <2>1 DEF GenOK
<1>11. Grown(g, h)
  <2>1. Len(g.blob.cells) <= Len(b.cells)
    BY <1>1, <1>9
  <2> QED
    BY <1>6, <1>7, <1>8, <1>9, <1>10, <2>1 DEF Grown
<1>12. segs[s].synced = Len(segs[s].cells)
  BY <1>4, <1>6
<1> QED
  BY <1>7, <1>9, <1>11, <1>12

\* The index of one message more.
LEMMA IndexGrows ==
  ASSUME NEW g, NEW base \in Nat, NEW next \in Nat, NEW from \in base .. next
  PROVE  Index(g, base, from, next + 1)
           = Append(Index(g, base, from, next), Entry(g, Walk(g)[next - base + 1], next))
<1> DEFINE E(k) == Entry(g, Walk(g)[from - base + k], from + k - 1)
<1>1. /\ next - from \in Nat /\ next + 1 - from = next - from + 1
      /\ from - base + (next - from + 1) = next - base + 1 /\ from + (next - from + 1) - 1 = next
  OBVIOUS
<1>2. PICK n \in Nat : n = next - from
  BY <1>1
<1>3. E(n + 1) = Entry(g, Walk(g)[next - base + 1], next)
  BY <1>1, <1>2
<1>4. Index(g, base, from, next + 1) = [k \in 1 .. n + 1 |-> E(k)]
  BY <1>1, <1>2 DEF Index
<1>5. Index(g, base, from, next) = [k \in 1 .. n |-> E(k)]
  BY <1>2 DEF Index
<1> HIDE DEF E
<1>6. [k \in 1 .. n + 1 |-> E(k)] = Append([k \in 1 .. n |-> E(k)], E(n + 1))
  <2> DEFINE s == [k \in 1 .. n |-> E(k)]
             T == { E(k) : k \in 1 .. n + 1 }
  <2>1. s \in Seq(T) /\ Len(s) = n /\ E(n + 1) \in T /\ \A k \in 1 .. n : s[k] = E(k)
    OBVIOUS
  <2> HIDE DEF s, T
  <2>2. /\ Append(s, E(n + 1)) \in Seq(T) /\ Len(Append(s, E(n + 1))) = n + 1
        /\ \A k \in 1 .. n : Append(s, E(n + 1))[k] = E(k)
        /\ Append(s, E(n + 1))[n + 1] = E(n + 1)
    BY <2>1
  <2>3. \A k \in 1 .. n + 1 : Append(s, E(n + 1))[k] = E(k)
    BY <2>2
  <2>4. Append(s, E(n + 1)) = [k \in 1 .. n + 1 |-> Append(s, E(n + 1))[k]]
    BY <2>2
  <2>5. [k \in 1 .. n + 1 |-> E(k)] = Append(s, E(n + 1))
    BY <2>3, <2>4
  <2> QED
    BY <2>5 DEF s
<1> QED
  BY <1>3, <1>4, <1>5, <1>6

\* The record and the entry are in step again.
LEMMA FinishAppendKeeps ==
  ASSUME IInv, FinishAppend
  PROVE  IInv'
<1> DEFINE id == op.rec.id
           s == op.seg
           p == op.pos
           base == log.base
           next == log.next
           from == First(log)
           e == [off |-> next, seg |-> s, pos |-> p, id |-> id]
<1>1. PICK sync \in BOOLEAN :
        /\ fsync = "every_write" => sync
        /\ files' = IF ~sync THEN files ELSE [files EXCEPT ![log.gen] = SyncedAt(@, s)]
  BY DEF FinishAppend
<1>2. /\ status = "up" /\ op.at = "sync"
      /\ log' = [log EXCEPT !.next = next + 1, !.entries = Append(@, e)]
      /\ IF fsync = "every_write" THEN Promise(log'.entries, log'.next)
         ELSE stable' = stable /\ promised' = promised
      /\ hist' = Append(hist, id) /\ op' = Idle
      /\ slots' = slots /\ status' = status /\ fsync' = fsync /\ ids' = ids /\ downs' = downs
  BY DEF FinishAppend, UpAnd
<1>3. ~Pending /\ ~Pending' /\ op'.at = "idle"
  BY <1>2 DEF Pending, Idle
<1>4. /\ GenOK(Cur) /\ Cur.segs # <<>> /\ Clean(Cur) /\ Cur = files[log.gen] /\ log.gen \in Gens
      /\ TypeInv /\ PromiseInv /\ LogInv /\ log \in LogRec /\ log.used = Lengths(Cur)
      /\ Survives(Mine, Cur, hist, stable) /\ Mine.base = base /\ Mine.trim <= from
      /\ Cur # Absent /\ Syncs
  BY <1>2, UpFacts, OpIs
<1>5. /\ from \in Nat /\ base \in Nat /\ next \in Nat /\ base <= from /\ from <= next
      /\ next = Len(hist) /\ hist \in Seq(Ids) /\ stable \in Nat /\ stable <= Len(hist)
      /\ Count(Cur) \in Nat /\ Count(Cur) = next - base + 1
  <2>1. Count(Cur) = next - base + (IF op.at = "sync" THEN 1 ELSE 0)
    BY <1>2, UpFacts
  <2> QED
    BY <1>2, <2>1, UpFacts
<1>6. /\ Walk(Cur)[Count(Cur)] = <<s, p>> /\ Msg(Cur, Count(Cur)) = id /\ op.rec \in Rec
  BY <1>4 DEF Syncs
<1>7. id \in Ids
  BY <1>6 DEF Rec
<1>8. s \in 1 .. Len(Cur.segs) /\ s \in Nat /\ p \in Nat
  <2>1. Count(Cur) \in 1 .. Count(Cur) + 1
    BY <1>5
  <2>2. Walk(Cur)[Count(Cur)] \in Spots(Cur)
    BY <1>4, <2>1, WalkFacts
  <2>3. s \in 1 .. Len(Cur.segs) /\ p \in Nat
    BY <1>6, <2>2 DEF Spots
  <2> QED
    BY <2>3
<1> DEFINE h == IF ~sync THEN Cur ELSE SyncedAt(Cur, s)
<1>9. files' = [files EXCEPT ![log.gen] = h]
  <2>1. CASE sync
    <3>1. files' = [files EXCEPT ![log.gen] = SyncedAt(files[log.gen], s)]
      BY <1>1, <2>1
    <3> QED
      BY <1>4, <2>1, <3>1
  <2>2. CASE ~sync
    <3>1. files = [files EXCEPT ![log.gen] = Cur]
      BY <1>4 DEF TypeInv
    <3> QED
      BY <1>1, <2>2, <3>1
  <2> QED
    BY <2>1, <2>2
<1>10. /\ GenOK(h) /\ Keeps(Cur, h) /\ Clean(h) /\ Count(h) = Count(Cur)
       /\ Lengths(h) = Lengths(Cur)
       /\ sync => /\ h.segs[s].synced = Len(h.segs[s].cells)
                  /\ h.blob.synced = Len(h.blob.cells)
  <2>1. CASE sync
    <3>1. h = SyncedAt(Cur, s)
      BY <2>1
    <3> HIDE DEF h, s
    <3>2. /\ Grown(Cur, h) /\ h.segs[s].synced = Len(h.segs[s].cells)
          /\ h.blob.synced = Len(h.blob.cells)
      BY <1>4, <1>8, <3>1, SegmentSynced
    <3>3. GenOK(h)
      BY <3>2 DEF Grown
    <3>4. Keeps(Cur, h) /\ Clean(h) /\ Count(h) = Count(Cur) /\ Lengths(h) = Lengths(Cur)
      BY <1>4, <3>2, GrownKeeps
    <3> QED
      BY <3>2, <3>3, <3>4
  <2>2. CASE ~sync
    <3>1. h = Cur
      BY <2>2
    <3> HIDE DEF h
    <3> QED
      BY <1>4, <2>2, <3>1, KeepsItself
  <2> QED
    BY <2>1, <2>2
<1> HIDE DEF h, e, id, s, p, base, next, from
<1>11. /\ files' = [i \in Gens |-> files'[i]] /\ \A i \in Gens : GenOK(files'[i])
       /\ files'[log.gen] = h
  BY <1>4, <1>9, <1>10, FilesBut
<1>12. h.segs # <<>> /\ Count(h) = next - base + 1 /\ Walk(h)[Count(h)] = <<s, p>>
       /\ Msg(h, Count(h)) = id /\ Count(h) \in Nat
  <2>1. Count(Cur) \in 1 .. Count(Cur)
    BY <1>5
  <2> QED
    BY <1>5, <1>6, <1>10, <2>1 DEF Keeps
<1>13. e = Entry(h, Walk(h)[next - base + 1], next)
  <2> DEFINE n == Count(h)
  <2>1. n \in 1 .. n /\ base + n - 1 = next
    BY <1>5, <1>12
  <2>2. Entry(h, Walk(h)[n], base + n - 1)
          = [off |-> base + n - 1, seg |-> Walk(h)[n][1], pos |-> Walk(h)[n][2], id |-> Msg(h, n)]
    BY <1>5, <1>10, <1>12, <2>1, EntriesAre
  <2>3. Walk(h)[n][1] = s /\ Walk(h)[n][2] = p /\ Msg(h, n) = id /\ n = next - base + 1
    BY <1>12
  <2> HIDE DEF n
  <2> QED
    BY <2>1, <2>2, <2>3 DEF e
<1>14. /\ log.entries = Index(h, base, from, next) /\ from \in base .. next
       /\ log.entries \in Seq(EntryRec) /\ e \in EntryRec
  <2>1. Indexes(log, Cur, 1)
    BY <1>2, <1>4 DEF LogInv
  <2>2. log.entries = Index(Cur, base, from, next)
    BY <2>1 DEF Indexes, base, from, next
  <2>3. \A k \in 1 .. next - base : Walk(h)[k] = Walk(Cur)[k] /\ Msg(h, k) = Msg(Cur, k)
    <3>1. \A k \in 1 .. next - base : k \in 1 .. Count(Cur)
      BY <1>5
    <3> QED
      BY <1>10, <3>1 DEF Keeps
  <2>4. from \in base .. next
    BY <1>5
  <2>5. Index(h, base, from, next) = Index(Cur, base, from, next)
    <3>1. base \in Nat /\ next \in Nat
      BY <1>5
    <3> QED
      BY <2>3, <2>4, <3>1, IndexSame
  <2>6. log.entries \in Seq(EntryRec)
    BY <1>4 DEF LogRec
  <2>7. e \in EntryRec
    BY <1>5, <1>7, <1>8 DEF e, EntryRec
  <2> QED
    BY <2>2, <2>4, <2>5, <2>6, <2>7
<1>15. /\ log' \in LogRec /\ log'.gen = log.gen /\ log'.base = base /\ log'.seq = log.seq
       /\ log'.next = next + 1 /\ log'.entries = Append(log.entries, e)
       /\ log'.used = Lengths(h)
  <2>1. Append(log.entries, e) \in Seq(EntryRec) /\ next + 1 \in Nat
    BY <1>5, <1>14
  <2> HIDE DEF e
  <2>2. log' = [log EXCEPT !.next = next + 1, !.entries = Append(log.entries, e)]
    BY <1>2, <1>4 DEF LogRec
  <2>3. log.used = Lengths(h)
    BY <1>4, <1>10
  <2> QED
    BY <1>4, <2>1, <2>2, <2>3 DEF LogRec, base
<1>16. First(log') = from
  <2>1. CASE log.entries = <<>>
    <3>1. from = next /\ Append(log.entries, e) = <<e>> /\ e.off = next
      BY <2>1 DEF First, from, next, e
    <3> QED
      BY <1>15, <3>1 DEF First
  <2>2. CASE log.entries # <<>>
    <3>1. Append(log.entries, e)[1] = log.entries[1] /\ Append(log.entries, e) # <<>>
      BY <1>14, <2>2
    <3> QED
      BY <1>15, <2>2, <3>1 DEF First, from
  <2> QED
    BY <2>1, <2>2
<1>17. Indexes(log', h, 0)
  <2>1. Index(h, base, from, next + 1) = Append(log.entries, e)
    <3>1. base \in Nat /\ next \in Nat /\ from \in base .. next
      BY <1>5
    <3>2. Index(h, base, from, next + 1)
            = Append(Index(h, base, from, next), Entry(h, Walk(h)[next - base + 1], next))
      BY <3>1, IndexGrows
    <3> QED
      BY <1>13, <1>14, <3>2
  <2>2. from \in base .. next + 1 /\ Count(h) = (next + 1) - base + 0
    BY <1>5, <1>12
  <2> QED
    BY <1>10, <1>12, <1>15, <1>16, <2>1, <2>2 DEF Indexes
<1>18. /\ hist' \in Seq(Ids) /\ Len(hist') = next + 1 /\ hist'[next + 1] = id
       /\ \A i \in 1 .. Len(hist) : hist'[i] = hist[i]
  BY <1>2, <1>5, <1>7
<1>19. /\ OnMedium(h, stable - base)
       /\ fsync = "every_write" => OnMedium(h, next + 1 - base)
  <2>1. OnMedium(Cur, stable - base)
    BY <1>4 DEF Survives
  <2>2. OnMedium(h, stable - base)
    BY <1>5, <1>10, <2>1 DEF Keeps
  <2>3. ASSUME fsync = "every_write" PROVE OnMedium(h, next + 1 - base)
    <3>1. sync /\ stable = next
      BY <1>1, <1>4, <1>5, <2>3 DEF TypeInv
    <3>2. OnMedium(h, next - base)
      BY <2>2, <3>1
    <3>3. Kept(h, Walk(h)[Count(h)])
      <4> DEFINE at == Walk(h)[Count(h)]
      <4>1. Count(h) \in 1 .. Count(h) /\ Count(h) \in 1 .. Count(h) + 1
        BY <1>5, <1>12
      <4>2. at \in Spots(h) /\ Decodes(h, at)
        BY <1>10, <1>12, <4>1, WalkFacts
      <4>3. at[1] = s
        BY <1>12
      <4> HIDE DEF at
      <4>4. /\ at[2] + RecordAt(h, at).size <= Len(h.segs[s].cells)
            /\ RecordAt(h, at).blob <= Len(h.blob.cells)
        BY <1>10, <4>2, <4>3, DecodesIn
      <4>5. h.segs[s].synced = Len(h.segs[s].cells) /\ h.blob.synced = Len(h.blob.cells)
        BY <1>10, <3>1
      <4> QED
        BY <4>3, <4>4, <4>5 DEF Kept, at
    <3>4. \A k \in 1 .. next + 1 - base : k \in 1 .. next - base \/ k = Count(h)
      BY <1>5, <1>12
    <3>5. next + 1 - base <= Count(h)
      BY <1>5, <1>12
    <3> QED
      BY <3>2, <3>3, <3>4, <3>5 DEF OnMedium
  <2> QED
    BY <2>2, <2>3
<1>20. /\ stable' = (IF fsync = "every_write" THEN next + 1 ELSE stable)
       /\ OnMedium(h, stable' - base) /\ stable' \in Nat /\ stable' <= Len(hist')
       /\ stable <= stable'
  <2>1. stable' = IF fsync = "every_write" THEN next + 1 ELSE stable
    BY <1>2, <1>15 DEF Promise
  <2> QED
    BY <1>5, <1>18, <1>19, <2>1
<1>21. Survives(Mine, h, hist', stable')
  <2>1. \A k \in 1 .. Count(h) : Len(hist) < Mine.base + k /\ Mine.base + k <= Len(hist') =>
          Msg(h, k) = hist'[Mine.base + k]
    <3> TAKE k \in 1 .. Count(h)
    <3> HAVE Len(hist) < Mine.base + k /\ Mine.base + k <= Len(hist')
    <3>1. k = Count(h) /\ Mine.base + k = next + 1
      <4>1. /\ Mine.base = base /\ base \in Nat /\ next \in Nat /\ Len(hist) = next
            /\ Len(hist') = next + 1 /\ Count(h) = next - base + 1
        BY <1>4, <1>5, <1>12, <1>18
      <4> QED
        BY <4>1
    <3> QED
      BY <1>12, <1>18, <3>1
  <2>2. Len(hist) <= Mine.base + Count(Cur) /\ Len(hist) <= Len(hist')
    BY <1>4, <1>5, <1>18
  <2>3. OnMedium(h, stable' - Mine.base) /\ stable' \in Int
    BY <1>4, <1>20
  <2> QED
    BY <1>4, <1>5, <1>10, <1>18, <2>1, <2>2, <2>3, SurvivesOn
<1>22. Tells(log', hist')
  <2>1. Mine.base = log'.base /\ Mine.trim <= First(log') /\ log'.next = Len(hist')
    BY <1>4, <1>15, <1>16, <1>18
  <2> QED
    BY <1>10, <1>15, <1>17, <1>18, <1>21, <2>1, IndexesTell
<1>23. \A q \in promised : /\ q \in Nat \X Ids /\ q[1] < stable' /\ hist'[q[1] + 1] = q[2]
                           /\ from <= q[1]
  <2> TAKE q \in promised
  <2>1. q \in Nat \X Ids /\ q[1] \in Nat /\ q[1] < stable /\ hist[q[1] + 1] = q[2] /\ from <= q[1]
    BY <1>4 DEF TypeInv, PromiseInv, LogInv, from
  <2>2. q[1] < stable' /\ q[1] + 1 \in 1 .. Len(hist)
    BY <1>5, <1>20, <2>1
  <2> QED
    BY <1>18, <2>1, <2>2
<1>24. /\ promised' \subseteq (Nat \X Ids)
       /\ \A q \in promised' : q[1] < stable' /\ hist'[q[1] + 1] = q[2] /\ from <= q[1]
  <2>1. CASE fsync = "every_write"
    <3> DEFINE new == { <<x.off, x.id>> : x \in ToSet(log'.entries) }
    <3>1. promised' = promised \cup new
      BY <1>2, <2>1 DEF Promise
    <3>2. /\ log'.next = Len(hist') /\ First(log') \in Nat /\ First(log') <= log'.next
          /\ stable' = log'.next
      BY <1>5, <1>15, <1>16, <1>18, <1>20, <2>1
    <3>3. \A q \in new : q \in Nat \X Ids /\ First(log') <= q[1] /\ q[1] < log'.next
                         /\ hist'[q[1] + 1] = q[2]
      BY <1>18, <1>22, <3>2, PromisedAre
    <3> HIDE DEF new
    <3> QED
      BY <1>16, <1>23, <3>1, <3>2, <3>3
  <2>2. CASE fsync # "every_write"
    <3>1. promised' = promised
      BY <1>2, <2>2
    <3> QED
      BY <1>23, <3>1
  <2> QED
    BY <2>1, <2>2
<1>25. TypeInv'
  <2>1. stable' \in 0 .. Len(hist')
    BY <1>5, <1>18, <1>20
  <2>2. fsync' = "every_write" => stable' = Len(hist')
    BY <1>2, <1>18, <1>20
  <2> QED
    BY <1>2, <1>4, <1>11, <1>18, <1>24, <2>1, <2>2 DEF TypeInv
<1>26. PromiseInv'
  BY <1>24 DEF PromiseInv
<1>27. LogInv'
  <2>1. Cur' = h
    BY <1>11, <1>15 DEF Cur
  <2>2. \A q \in promised' : First(log') <= q[1]
    BY <1>16, <1>24
  <2>3. log'.next = Len(hist') /\ op'.at # "sync"
    BY <1>3, <1>15, <1>18
  <2> QED
    BY <1>15, <1>17, <2>1, <2>2, <2>3 DEF LogInv
<1>28. SlotInv'
  <2>1. First(log) <= First(log') /\ First(log') \in Nat
    BY <1>5, <1>16 DEF from
  <2>2. Survives(Mine, files'[log.gen], hist', stable')
    BY <1>11, <1>21
  <2>3. log'.base = log.base
    BY <1>15 DEF base
  <2> QED
    BY <1>2, <1>3, <1>15, <2>1, <2>2, <2>3, HeaderStays
<1>29. OpInv'
  BY <1>2 DEF OpInv
<1> QED
  BY <1>2, <1>25, <1>26, <1>27, <1>28, <1>29 DEF IInv, UpInv

-----------------------------------------------------------------------------
\* Compaction.
\* A record written behind the last one, as in PutIs and PutStands.
Placed(g, r, at, h) ==
    /\ GenOK(h) /\ Keeps(g, h) /\ Clean(h) /\ Count(h) = Count(g) + 1
    /\ Walk(h)[Count(h)] = <<at.seg, at.pos>> /\ at = [seg |-> at.seg, pos |-> at.pos]
    /\ at.seg \in Nat /\ at.pos \in Nat
    /\ Msg(h, Count(h)) = Payload(r, g.blob.cells)
    /\ Lengths(h) = UsedAfter(Lengths(g), at, r.size)

\* The place of a record put behind the others.
LEMMA PutKeeps ==
  ASSUME NEW g, GenOK(g), g.segs # <<>>, Clean(g), NEW r \in Rec, r.blob <= Len(g.blob.cells),
         NEW at, at = Place(Lengths(g), r.size), NEW h, h = Put(g, at, CellsOf(r))
  PROVE  Placed(g, r, at, h)
<1> DEFINE s == at.seg
           p == at.pos
<1>1. PutAt(g, h, r, s, p) /\ Lengths(h) = UsedAfter(Lengths(g), at, r.size)
  BY PutIs
<1>2. at = [seg |-> s, pos |-> p]
  <2> DEFINE used == Lengths(g)
             n == Len(used)
  <2>1. at = IF used[n] # 0 /\ used[n] > SegCells - r.size
               THEN [seg |-> n + 1, pos |-> 0] ELSE [seg |-> n, pos |-> used[n]]
    BY DEF Place
  <2> HIDE DEF used, n
  <2> QED
    BY <2>1
<1> HIDE DEF s, p
<1>3. /\ GenOK(h) /\ h.segs # <<>> /\ Clean(h) /\ Count(h) = Count(g) + 1
      /\ \A k \in 1 .. Count(g) : /\ Walk(h)[k] = Walk(g)[k] /\ Msg(h, k) = Msg(g, k)
                                  /\ RecordAt(h, Walk(h)[k]) = RecordAt(g, Walk(g)[k])
      /\ Walk(h)[Count(h)] = <<s, p>> /\ RecordAt(h, <<s, p>>) = r
      /\ Msg(h, Count(h)) = Payload(r, g.blob.cells)
      /\ \A n \in Int : OnMedium(g, n) => OnMedium(h, n)
  BY <1>1, PutStands
<1>4. Count(g) \in Nat /\ Count(h) \in Nat
  BY <1>3, WalkFacts
<1>5. Count(g) <= Count(h) /\ Count(h) \in 1 .. Count(h) + 1
  BY <1>3, <1>4
<1>6. Keeps(g, h)
  BY <1>3, <1>5 DEF Keeps
<1>7. s \in Nat /\ p \in Nat
  <2>1. <<s, p>> \in Spots(h)
    BY <1>3, <1>5, WalkFacts
  <2> QED
    BY <2>1 DEF Spots
<1> QED
  BY <1>1, <1>2, <1>3, <1>6, <1>7 DEF s, p, Placed

\* Keeping the records is transitive.
LEMMA KeepsOn ==
  ASSUME NEW f, NEW g, NEW h, GenOK(f), f.segs # <<>>, Keeps(f, g), Keeps(g, h)
  PROVE  Keeps(f, h)
<1>1. Count(f) \in Nat /\ Count(g) \in Nat /\ Count(h) \in Nat
  BY WalkFacts DEF Keeps
<1>2. \A k \in 1 .. Count(f) : k \in 1 .. Count(g)
  BY <1>1 DEF Keeps
<1>3. Count(f) <= Count(h)
  BY <1>1 DEF Keeps
<1> QED
  BY <1>2, <1>3 DEF Keeps

\* The entries, their records and their messages.
LEMMA EntryFacts ==
  ASSUME IInv, status = "up", NEW k \in 1 .. Len(log.entries)
  PROVE  /\ Len(log.entries) = log.next - First(log)
         /\ First(log) - log.base + k \in 1 .. Count(Cur)
         /\ Walk(Cur)[First(log) - log.base + k] = <<log.entries[k].seg, log.entries[k].pos>>
         /\ Msg(Cur, First(log) - log.base + k) = log.entries[k].id
         /\ log.entries[k].id = hist[First(log) + k]
         /\ log.entries[k] = [off |-> First(log) + k - 1, seg |-> log.entries[k].seg,
                              pos |-> log.entries[k].pos, id |-> log.entries[k].id]
         /\ log.entries[k].id \in Ids
<1> DEFINE more == IF op.at = "sync" THEN 1 ELSE 0
           n == log.next - First(log)
<1>1. /\ log \in LogRec /\ GenOK(Cur) /\ LogInv /\ hist \in Seq(Ids)
      /\ Survives(Mine, Cur, hist, stable) /\ Mine.base = log.base /\ Mine.trim <= First(log)
      /\ log.next = Len(hist) /\ Tells(log, hist) /\ log.entries \in Seq(EntryRec)
  BY UpFacts
<1>2. Indexes(log, Cur, more) /\ more \in Nat
  BY <1>1 DEF LogInv
<1> HIDE DEF more
<1>3. \A j \in 1 .. log.next - First(log) :
              /\ First(log) - log.base + j \in 1 .. Count(Cur)
              /\ Msg(Cur, First(log) - log.base + j) = hist[First(log) + j]
              /\ log.entries[j] = [off |-> First(log) + j - 1, seg |-> log.entries[j].seg,
                                   pos |-> log.entries[j].pos, id |-> hist[First(log) + j]]
              /\ Walk(Cur)[First(log) - log.base + j] = <<log.entries[j].seg, log.entries[j].pos>>
  BY <1>1, <1>2, IndexesTell
<1>4. Len(log.entries) = log.next - First(log)
  BY <1>1 DEF Tells
<1>5. k \in 1 .. log.next - First(log)
  BY <1>4
<1>6. log.entries[k] \in EntryRec /\ log.entries[k].id = hist[First(log) + k]
  BY <1>1 DEF Tells
<1>7. log.entries[k].id \in Ids
  BY <1>6 DEF EntryRec
<1> QED
  BY <1>3, <1>4, <1>5, <1>6, <1>7

\* The files of the log stay, and other files change.
LEMMA OthersChange ==
  ASSUME IInv, status = "up", op.at # "sync", NEW gen \in Gens, gen # log.gen,
         NEW h, GenOK(h), files' = [files EXCEPT ![gen] = h]
  PROVE  /\ files' = [i \in Gens |-> files'[i]] /\ \A i \in Gens : GenOK(files'[i])
         /\ files'[gen] = h /\ files'[log.gen] = Cur
         /\ Keeps(Cur, Cur) /\ Clean(Cur) /\ Count(Cur) = Count(Cur)
<1>1. TypeInv /\ GenOK(Cur) /\ Cur.segs # <<>> /\ Clean(Cur) /\ Cur = files[log.gen] /\ log.gen \in Gens
  BY UpFacts
<1>2. Keeps(Cur, Cur)
  BY <1>1, KeepsItself
<1> QED
  BY <1>1, <1>2, FilesBut

\* A compaction begins with an empty next generation.
LEMMA CompactStartKeeps ==
  ASSUME IInv, CompactStart
  PROVE  IInv'
<1>1. /\ status = "up" /\ op.at = "idle" /\ log.gen < MaxGen
      /\ files' = [files EXCEPT ![log.gen + 1] = Fresh]
      /\ op' = [at |-> "copy", locs |-> <<>>, used |-> <<0>>]
      /\ slots' = slots /\ log' = log /\ status' = status /\ fsync' = fsync /\ ids' = ids
      /\ downs' = downs /\ hist' = hist /\ stable' = stable /\ promised' = promised
  BY DEF CompactStart, UpAnd
<1>2. ~Pending /\ ~Pending' /\ op'.at = "copy" /\ op.at # "sync"
  BY <1>1 DEF Pending
<1>3. /\ log.gen + 1 \in Gens /\ log.gen + 1 # log.gen /\ log.gen \in Nat /\ TypeInv
      /\ log.entries \in Seq(EntryRec)
  BY <1>1, UpFacts
<1>4. /\ GenOK(Fresh) /\ Fresh.segs # <<>> /\ Clean(Fresh) /\ Count(Fresh) = 0
      /\ Lengths(Fresh) = <<0>>
  BY FreshIs
<1>5. /\ files' = [i \in Gens |-> files'[i]] /\ \A i \in Gens : GenOK(files'[i])
      /\ files'[log.gen + 1] = Fresh /\ files'[log.gen] = Cur
      /\ Keeps(Cur, Cur) /\ Clean(Cur) /\ Count(Cur) = Count(Cur)
  BY <1>1, <1>2, <1>3, <1>4, OthersChange
<1>6. ids' \in 0 .. MaxAppends
  BY <1>1, <1>3 DEF TypeInv
<1>7. TypeInv' /\ PromiseInv' /\ LogInv' /\ SlotInv' /\ Cur' = Cur
  BY <1>1, <1>2, <1>5, <1>6, FilesGrow
<1>8. OpInv'
  <2>1. Copied(Fresh, <<>>, <<0>>)'
    BY <1>1, <1>3, <1>4 DEF Copied
  <2>2. op'.locs = <<>> /\ op'.used = <<0>> /\ op' = [at |-> op'.at, locs |-> op'.locs, used |-> op'.used]
    BY <1>1
  <2>3. files'[log'.gen + 1] = Fresh
    BY <1>1, <1>5
  <2>4. Copies'
    BY <1>1, <2>1, <2>2, <2>3 DEF Copies, Copied
  <2> QED
    BY <1>2, <2>4 DEF OpInv
<1> QED
  BY <1>1, <1>7, <1>8 DEF IInv, UpInv

\* The old generation is removed once no header names it.
LEMMA CompactRemoveKeeps ==
  ASSUME IInv, CompactRemove
  PROVE  IInv'
<1>1. /\ status = "up" /\ op.at = "remove"
      /\ files' = [files EXCEPT ![log.gen - 1] = Absent] /\ op' = Idle
      /\ slots' = slots /\ log' = log /\ status' = status /\ fsync' = fsync /\ ids' = ids
      /\ downs' = downs /\ hist' = hist /\ stable' = stable /\ promised' = promised
  BY DEF CompactRemove, UpAnd
<1>2. ~Pending /\ ~Pending' /\ op.at # "sync" /\ op'.at # "sync"
  BY <1>1 DEF Pending, Idle
<1>3. log.gen \in 0 .. MaxGen /\ log.gen > 0 /\ TypeInv /\ MaxGen \in Nat
  BY <1>1, UpFacts, OpIs, SegLogAssumption
<1>4. log.gen - 1 \in Gens /\ log.gen - 1 # log.gen
  BY <1>3 DEF Gens
<1>5. GenOK(Absent)
  BY DEF GenOK, Absent, NewFile, BlobFile
<1>6. /\ files' = [i \in Gens |-> files'[i]] /\ \A i \in Gens : GenOK(files'[i])
      /\ files'[log.gen] = Cur
      /\ Keeps(Cur, Cur) /\ Clean(Cur) /\ Count(Cur) = Count(Cur)
  BY <1>1, <1>2, <1>4, <1>5, OthersChange
<1>7. ids' \in 0 .. MaxAppends
  BY <1>1, <1>3 DEF TypeInv
<1>8. TypeInv' /\ PromiseInv' /\ LogInv' /\ SlotInv' /\ Cur' = Cur
  BY <1>1, <1>2, <1>6, <1>7, FilesGrow
<1> QED
  BY <1>1, <1>8 DEF IInv, UpInv, OpInv

\* What the copy so far is.
LEMMA CopyFacts ==
  ASSUME IInv, status = "up", op.at \in {"copy", "switch"}
  PROVE  /\ log.gen + 1 \in Gens /\ log.gen + 1 # log.gen /\ log.gen + 1 \in 0 .. MaxGen
         /\ GenOK(files[log.gen + 1]) /\ Copied(files[log.gen + 1], op.locs, op.used)
         /\ op = [at |-> op.at, locs |-> op.locs, used |-> op.used] /\ log.gen < MaxGen
         /\ log.gen + 1 > 0
<1>1. Copies /\ log.gen \in 0 .. MaxGen /\ log.gen + 1 \in Gens /\ TypeInv
  BY UpFacts, OpIs
<1>2. log.gen < MaxGen /\ Copied(files[log.gen + 1], op.locs, op.used)
      /\ op = [at |-> op.at, locs |-> op.locs, used |-> op.used]
  BY <1>1 DEF Copies
<1>3. GenOK(files[log.gen + 1])
  BY <1>1 DEF TypeInv
<1>4. log.gen + 1 # log.gen /\ log.gen + 1 \in 0 .. MaxGen /\ log.gen + 1 > 0
  BY <1>1, <1>2, SegLogAssumption
<1> QED
  BY <1>1, <1>2, <1>3, <1>4

\* The copy goes on in files in which it stands.
LEMMA CopiedOn ==
  ASSUME NEW g, NEW locs, NEW used, Copied(g, locs, used),
         NEW h, Keeps(g, h), Clean(h), Count(h) = Count(g), Lengths(h) = Lengths(g)
  PROVE  Copied(h, locs, used)
<1>1. \A k \in 1 .. Len(locs) : k \in 1 .. Count(g)
  BY DEF Copied
<1> QED
  BY <1>1 DEF Copied, Keeps

\* Each copied record follows the copy of the one before it.
LEMMA CompactCopyKeeps ==
  ASSUME IInv, CompactCopy
  PROVE  IInv'
<1> DEFINE n == Len(op.locs)
           e == log.entries[n + 1]
           old == RecordAt(Cur, <<e.seg, e.pos>>)
           id == Payload(old, Cur.blob.cells)
           g == files[log.gen + 1]
           more == [g.blob EXCEPT !.cells = Append(@, id)]
           blob == IF old.blob = 0 THEN g.blob ELSE more
           r == [id |-> id, size |-> old.size,
                 blob |-> IF old.blob = 0 THEN 0 ELSE Len(blob.cells)]
           at == Place(op.used, r.size)
           f == [g EXCEPT !.blob = blob]
           h == Put(f, at, CellsOf(r))
<1>1. /\ status = "up" /\ op.at = "copy" /\ n < Len(log.entries)
      /\ files' = [files EXCEPT ![log.gen + 1] = h]
      /\ op' = [op EXCEPT !.locs = Append(@, at), !.used = UsedAfter(@, at, r.size)]
      /\ slots' = slots /\ log' = log /\ status' = status /\ fsync' = fsync /\ ids' = ids
      /\ downs' = downs /\ hist' = hist /\ stable' = stable /\ promised' = promised
  BY DEF CompactCopy, UpAnd
<1>2. /\ log.gen + 1 \in Gens /\ log.gen + 1 # log.gen /\ log.gen < MaxGen
      /\ GenOK(g) /\ Copied(g, op.locs, op.used)
      /\ op = [at |-> op.at, locs |-> op.locs, used |-> op.used] /\ TypeInv
      /\ GenOK(Cur) /\ Cur.segs # <<>> /\ log.entries \in Seq(EntryRec)
  BY <1>1, CopyFacts, UpFacts
<1>3. /\ g.segs # <<>> /\ Clean(g) /\ op.used = Lengths(g) /\ Count(g) = n /\ n \in Nat
      /\ op.locs \in Seq([seg : Nat, pos : Nat])
      /\ \A k \in 1 .. n : /\ Walk(g)[k] = <<op.locs[k].seg, op.locs[k].pos>>
                           /\ Msg(g, k) = log.entries[k].id
  BY <1>2 DEF Copied
<1>4. n + 1 \in 1 .. Len(log.entries) /\ Len(log.entries) \in Nat
  <2>1. n < Len(log.entries) /\ n \in Nat /\ Len(log.entries) \in Nat
    <3>1. n < Len(log.entries)
      BY <1>1
    <3>2. Len(log.entries) \in Nat
      BY <1>2
    <3> QED
      BY <1>3, <3>1, <3>2
  <2> HIDE DEF n
  <2> QED
    BY <2>1
<1>5. /\ First(log) - log.base + (n + 1) \in 1 .. Count(Cur)
      /\ Walk(Cur)[First(log) - log.base + (n + 1)] = <<e.seg, e.pos>>
      /\ Msg(Cur, First(log) - log.base + (n + 1)) = e.id /\ e.id \in Ids
  <2> DEFINE k == n + 1
  <2>1. k \in 1 .. Len(log.entries)
    BY <1>4
  <2> HIDE DEF k
  <2>2. /\ First(log) - log.base + k \in 1 .. Count(Cur)
        /\ Walk(Cur)[First(log) - log.base + k] = <<log.entries[k].seg, log.entries[k].pos>>
        /\ Msg(Cur, First(log) - log.base + k) = log.entries[k].id /\ log.entries[k].id \in Ids
    BY <1>1, <2>1, EntryFacts
  <2> QED
    BY <2>2 DEF k
<1>6. old \in Rec /\ id = e.id /\ id \in Ids
  <2> DEFINE j == First(log) - log.base + (n + 1)
  <2>1. j \in 1 .. Count(Cur) /\ Walk(Cur)[j] = <<e.seg, e.pos>> /\ Msg(Cur, j) = e.id
    BY <1>5
  <2> HIDE DEF j
  <2>2. j \in 1 .. Count(Cur) + 1
    <3>1. Count(Cur) \in Nat
      BY <1>2, WalkFacts
    <3> QED
      BY <2>1, <3>1
  <2>3. Walk(Cur)[j] \in Spots(Cur) /\ Decodes(Cur, Walk(Cur)[j])
    BY <1>2, <2>1, <2>2, WalkFacts
  <2>4. RecordAt(Cur, Walk(Cur)[j]) \in Rec
    BY <1>2, <2>3, DecodesIn
  <2>5. id = Msg(Cur, j)
    BY <2>1 DEF Msg
  <2> QED
    BY <1>5, <2>1, <2>4, <2>5
<1> HIDE DEF old, id, e
<1>7. /\ GenOK(f) /\ Keeps(g, f) /\ Clean(f) /\ Count(f) = Count(g) /\ Lengths(f) = Lengths(g)
      /\ r \in Rec /\ r.blob <= Len(f.blob.cells) /\ Payload(r, f.blob.cells) = id
  <2>1. /\ g = [segs |-> g.segs, blob |-> g.blob]
        /\ g.blob = [cells |-> g.blob.cells, synced |-> g.blob.synced]
        /\ g.blob.cells \in Seq(Ids) /\ Len(g.blob.cells) \in Nat
    BY <1>2, BlobOK
  <2>2. old.size \in 1 .. SegCells
    BY <1>6 DEF Rec
  <2>3. CASE old.blob = 0
    <3>1. blob = g.blob /\ r = [id |-> id, size |-> old.size, blob |-> 0]
      BY <2>3
    <3> HIDE DEF blob
    <3>2. f = g
      BY <2>1, <3>1
    <3>3. r \in Rec /\ r.blob = 0 /\ r.id = id
      BY <1>6, <2>2, <3>1 DEF Rec
    <3> HIDE DEF f, r, g
    <3>4. 0 <= Len(f.blob.cells) /\ Keeps(g, f)
      BY <1>2, <1>3, <2>1, <3>2, KeepsItself
    <3> QED
      BY <1>2, <1>3, <3>2, <3>3, <3>4 DEF Payload
  <2>4. CASE old.blob # 0
    <3>1. blob = more /\ r = [id |-> id, size |-> old.size, blob |-> Len(blob.cells)]
      BY <2>4
    <3> DEFINE c == Append(g.blob.cells, id)
    <3>2. more = [g.blob EXCEPT !.cells = c]
      OBVIOUS
    <3> HIDE DEF blob, more, c
    <3>3. more = [cells |-> c, synced |-> g.blob.synced]
      <4> DEFINE b == g.blob
      <4>1. b = [cells |-> b.cells, synced |-> b.synced] /\ more = [b EXCEPT !.cells = c]
        BY <2>1, <3>2
      <4> HIDE DEF b, g
      <4>2. more = [cells |-> c, synced |-> b.synced]
        BY <4>1
      <4> QED
        BY <4>2 DEF b
    <3>4. f = [segs |-> g.segs, blob |-> more]
      <4> HIDE DEF g
      <4> QED
        BY <2>1, <3>1
    <3> HIDE DEF f, r, g
    <3>5. /\ Grown(g, f) /\ f.segs = g.segs /\ f.blob = more
          /\ Len(more.cells) = Len(g.blob.cells) + 1 /\ more.cells[Len(more.cells)] = id
      <4>1. /\ more = [cells |-> more.cells, synced |-> more.synced]
            /\ more.cells = Append(g.blob.cells, id)
            /\ more.synced = g.blob.synced
        BY <3>3 DEF c
      <4>2. GenOK(g) /\ g.segs # <<>> /\ id \in Ids
        BY <1>2, <1>3, <1>6
      <4>3. more.synced = g.blob.synced \/ more.synced = Len(more.cells)
        BY <4>1
      <4> QED
        BY <3>4, <4>1, <4>2, <4>3, BlobGrows
    <3>6. GenOK(f) /\ Keeps(g, f) /\ Clean(f) /\ Count(f) = Count(g) /\ Lengths(f) = Lengths(g)
      <4>1. GenOK(f)
        BY <3>5 DEF Grown
      <4> QED
        BY <1>3, <3>5, <4>1, GrownKeeps
    <3>7. Len(more.cells) \in Nat /\ Len(more.cells) # 0
      BY <2>1, <3>5
    <3>8. r.id = id /\ r.blob = Len(more.cells) /\ r \in Rec
      BY <1>6, <2>2, <3>1, <3>7 DEF Rec
    <3>9. r.blob <= Len(f.blob.cells) /\ Payload(r, f.blob.cells) = id
      BY <3>5, <3>7, <3>8 DEF Payload
    <3> QED
      BY <3>6, <3>8, <3>9
  <2> QED
    BY <2>3, <2>4
<1>8. at = Place(Lengths(f), r.size) /\ h = Put(f, at, CellsOf(r)) /\ f.segs # <<>>
  <2>1. op.used = Lengths(f) /\ f.segs # <<>>
    BY <1>3, <1>7 DEF Keeps
  <2> QED
    BY <2>1
<1>9. op' = [at |-> "copy", locs |-> Append(op.locs, at), used |-> UsedAfter(op.used, at, r.size)]
  <2> DEFINE locs == Append(op.locs, at)
             used == UsedAfter(op.used, at, r.size)
  <2>1. op' = [op EXCEPT !.locs = locs, !.used = used]
    BY <1>1, <1>2
  <2> HIDE DEF locs, used
  <2>2. op' = [at |-> "copy", locs |-> locs, used |-> used]
    BY <1>1, <1>2, <2>1
  <2> QED
    BY <2>2 DEF locs, used
<1> HIDE DEF f, r, at, h, g, n
<1>10. /\ GenOK(h) /\ Keeps(f, h) /\ Clean(h) /\ Count(h) = Count(f) + 1
       /\ Walk(h)[Count(h)] = <<at.seg, at.pos>> /\ at = [seg |-> at.seg, pos |-> at.pos]
       /\ at.seg \in Nat /\ at.pos \in Nat
       /\ Msg(h, Count(h)) = Payload(r, f.blob.cells)
       /\ Lengths(h) = UsedAfter(Lengths(f), at, r.size)
  <2>1. GenOK(f) /\ f.segs # <<>> /\ Clean(f) /\ r \in Rec /\ r.blob <= Len(f.blob.cells)
    BY <1>7, <1>8
  <2>2. Placed(f, r, at, h)
    BY <1>8, <2>1, PutKeeps
  <2> QED
    BY <2>2 DEF Placed
<1>11. Keeps(g, h) /\ Count(h) = n + 1 /\ Lengths(h) = UsedAfter(op.used, at, r.size)
       /\ Msg(h, n + 1) = log.entries[n + 1].id /\ Walk(h)[n + 1] = <<at.seg, at.pos>>
  <2>1. Keeps(g, h)
    BY <1>2, <1>3, <1>7, <1>10, KeepsOn
  <2>2. Count(h) = n + 1 /\ Lengths(f) = op.used
    BY <1>3, <1>7, <1>10
  <2> QED
    BY <1>6, <1>7, <1>10, <2>1, <2>2 DEF e
<1>12. Copied(h, op'.locs, op'.used)
  <2> DEFINE locs == Append(op.locs, at)
  <2>1. /\ locs \in Seq([seg : Nat, pos : Nat]) /\ Len(locs) = n + 1 /\ locs[n + 1] = at
        /\ \A k \in 1 .. n : locs[k] = op.locs[k]
    BY <1>3, <1>10 DEF n
  <2> HIDE DEF locs
  <2>2. ASSUME NEW k \in 1 .. n + 1
        PROVE  Walk(h)[k] = <<locs[k].seg, locs[k].pos>> /\ Msg(h, k) = log.entries[k].id
    <3>1. CASE k = n + 1
      BY <1>11, <2>1, <3>1
    <3>2. CASE k # n + 1
      <4>1. k \in 1 .. n
        BY <1>3, <3>2
      <4> QED
        BY <1>3, <1>11, <2>1, <4>1 DEF Keeps
    <3> QED
      BY <3>1, <3>2
  <2>3. op'.locs = locs /\ op'.used = Lengths(h)
    BY <1>9, <1>11 DEF locs
  <2>4. Len(locs) <= Len(log.entries) /\ h.segs # <<>> /\ Clean(h) /\ Count(h) = Len(locs)
    BY <1>4, <1>10, <1>11, <2>1 DEF Keeps
  <2>5. \A k \in 1 .. Len(locs) : Walk(h)[k] = <<locs[k].seg, locs[k].pos>> /\ Msg(h, k) = log.entries[k].id
    BY <2>1, <2>2
  <2> QED
    BY <2>1, <2>3, <2>4, <2>5 DEF Copied
<1>13. ~Pending /\ ~Pending' /\ op'.at = "copy" /\ op.at # "sync"
  BY <1>1, <1>9 DEF Pending
<1>14. /\ files' = [i \in Gens |-> files'[i]] /\ \A i \in Gens : GenOK(files'[i])
       /\ files'[log.gen + 1] = h /\ files'[log.gen] = Cur
       /\ Keeps(Cur, Cur) /\ Clean(Cur) /\ Count(Cur) = Count(Cur)
  BY <1>1, <1>2, <1>10, <1>13, OthersChange
<1>15. ids' \in 0 .. MaxAppends
  BY <1>1, <1>2 DEF TypeInv
<1>16. TypeInv' /\ PromiseInv' /\ LogInv' /\ SlotInv' /\ Cur' = Cur
  BY <1>1, <1>13, <1>14, <1>15, FilesGrow
<1>17. OpInv'
  <2>1. op' = [at |-> op'.at, locs |-> op'.locs, used |-> op'.used]
    BY <1>9
  <2>2. files'[log'.gen + 1] = h /\ log'.gen < MaxGen
    BY <1>1, <1>2, <1>14
  <2>3. Copied(h, op'.locs, op'.used) /\ log' = log
    BY <1>1, <1>12
  <2>4. Copies'
    BY <2>1, <2>2, <2>3 DEF Copies, Copied
  <2> QED
    BY <1>13, <2>4 DEF OpInv
<1> QED
  BY <1>1, <1>16, <1>17 DEF IInv, UpInv

\* The header that names the copy is written when the copy is on the medium.
LEMMA CompactHeaderKeeps ==
  ASSUME IInv, CompactHeader
  PROVE  IInv'
<1> DEFINE g == files[log.gen + 1]
           h == AllSynced(g)
           from == First(log)
<1>1. /\ status = "up" /\ op.at = "copy" /\ Len(op.locs) = Len(log.entries)
      /\ files' = [files EXCEPT ![log.gen + 1] = AllSynced(@)]
      /\ log' = [log EXCEPT !.trim = RetainedStart]
      /\ WriteMeta(log.gen + 1, RetainedStart, RetainedStart)
      /\ op' = [op EXCEPT !.at = "switch"]
      /\ status' = status /\ fsync' = fsync
      /\ ids' = ids /\ downs' = downs /\ hist' = hist /\ stable' = stable /\ promised' = promised
  BY DEF CompactHeader, UpAnd
<1>2. /\ log.gen + 1 \in Gens /\ log.gen + 1 # log.gen /\ log.gen + 1 \in 0 .. MaxGen
      /\ log.gen < MaxGen
      /\ GenOK(g) /\ Copied(g, op.locs, op.used)
      /\ op = [at |-> op.at, locs |-> op.locs, used |-> op.used]
  BY <1>1, CopyFacts
<1>3. /\ TypeInv /\ PromiseInv /\ LogInv /\ log \in LogRec /\ from \in Nat /\ log.base \in Nat
      /\ Survives(Mine, Cur, hist, stable) /\ Cur # Absent /\ RetainedStart = from
      /\ Len(hist) \in Nat /\ log.next = Len(hist) /\ from <= log.next /\ log.seq \in Nat
      /\ stable \in Nat /\ stable <= Len(hist) /\ GenOK(Cur) /\ log.used = Lengths(Cur)
      /\ Len(log.entries) = log.next - from
      /\ \A k \in 1 .. Len(log.entries) : log.entries[k].id = hist[from + k]
  BY <1>1, UpFacts DEF Tells
<1>4. g.segs # <<>> /\ Clean(g) /\ Count(g) = Len(op.locs)
      /\ \A k \in 1 .. Len(op.locs) : Msg(g, k) = log.entries[k].id
  BY <1>2 DEF Copied
<1>5. op' = [at |-> "switch", locs |-> op.locs, used |-> op.used]
  BY <1>1, <1>2
<1>6. ~Pending /\ Pending' /\ op'.at = "switch" /\ op.at # "sync"
  BY <1>1, <1>5 DEF Pending
<1>7. files' = [files EXCEPT ![log.gen + 1] = h]
  BY <1>1, <1>2, <1>3 DEF TypeInv
<1> HIDE DEF g, h, from
<1>8. /\ Keeps(g, h) /\ Clean(h) /\ Count(h) = Count(g) /\ Lengths(h) = Lengths(g)
      /\ OnMedium(h, Count(h)) /\ GenOK(h)
  <2>1. Grown(g, h) /\ OnMedium(h, Count(h))
    BY <1>2, <1>4, AllSyncedIs DEF h
  <2>2. GenOK(h)
    BY <2>1 DEF Grown
  <2> QED
    BY <1>4, <2>1, <2>2, GrownKeeps
<1>9. Copied(h, op.locs, op.used)
  BY <1>2, <1>8, CopiedOn
<1>10. /\ files' = [i \in Gens |-> files'[i]] /\ \A i \in Gens : GenOK(files'[i])
       /\ files'[log.gen + 1] = h /\ files'[log.gen] = Cur
       /\ Keeps(Cur, Cur) /\ Clean(Cur) /\ Count(Cur) = Count(Cur)
  BY <1>1, <1>2, <1>6, <1>7, <1>8, OthersChange
<1>11. /\ log' \in LogRec /\ log'.gen = log.gen /\ log'.base = log.base /\ log'.seq = log.seq
       /\ log'.next = log.next /\ log'.entries = log.entries /\ log'.used = log.used
  BY <1>1, <1>3 DEF LogRec
<1>12. TypeInv' /\ PromiseInv'
  BY <1>1, <1>3, <1>10 DEF TypeInv, PromiseInv
<1>13. LogInv' /\ First(log') = First(log)
  <2>1. \A p \in promised' : First(log) <= p[1]
    BY <1>1, <1>3 DEF LogInv
  <2> QED
    BY <1>1, <1>6, <1>10, <1>11, <2>1, IndexStays
<1> DEFINE m == [seq |-> log.seq + 1, gen |-> log.gen + 1, base |-> from, trim |-> from]
<1>14. Survives(m, h, hist, stable)
  <2>1. m \in Meta /\ m.base = from /\ m.trim = from
    BY <1>2, <1>3 DEF Meta
  <2>2. h.segs # <<>> /\ h # Absent
    BY <1>8, NotAbsent DEF Keeps
  <2> HIDE DEF m
  <2>3. Count(h) = log.next - from /\ Count(h) = Len(log.entries) /\ Count(h) \in Nat
    BY <1>1, <1>3, <1>4, <1>8
  <2>4. ASSUME NEW n \in Int, n <= Count(h) PROVE OnMedium(h, n)
    <3>1. \A k \in 1 .. n : k \in 1 .. Count(h)
      BY <2>3, <2>4
    <3> QED
      BY <1>8, <2>4, <3>1 DEF OnMedium
  <2>5. m.trim - m.base \in Int /\ m.trim - m.base <= Count(h)
        /\ stable - m.base \in Int /\ stable - m.base <= Count(h)
    BY <1>3, <2>1, <2>3
  <2>6. \A k \in 1 .. Count(h) : m.trim < m.base + k /\ m.base + k <= Len(hist) => Msg(h, k) = hist[m.base + k]
    <3> TAKE k \in 1 .. Count(h)
    <3>1. k \in 1 .. Count(g) /\ k \in 1 .. Len(op.locs) /\ k \in 1 .. Len(log.entries)
      BY <1>4, <1>8, <2>3
    <3>2. Msg(h, k) = Msg(g, k) /\ Msg(g, k) = log.entries[k].id
      BY <1>4, <1>8, <3>1 DEF Keeps
    <3> QED
      BY <1>3, <2>1, <3>1, <3>2
  <2>7. m.base <= m.trim /\ m.trim <= Len(hist)
    BY <1>3, <2>1
  <2> QED
    BY <2>1, <2>2, <2>4, <2>5, <2>6, <2>7 DEF Survives
<1>15. SlotInv' /\ Coming' = m
  <2>1. /\ WriteMeta(log.gen + 1, from, from) /\ from <= First(log)
        /\ Survives(Mine, files'[log.gen], hist, stable)
        /\ Survives(m, files'[log.gen + 1], hist, stable)
    BY <1>1, <1>3, <1>10, <1>14 DEF from
  <2>2. log.gen + 1 \in 0 .. MaxGen /\ from \in Nat
    BY <1>2, <1>3
  <2> QED
    BY <1>1, <1>6, <1>11, <1>13, <2>1, <2>2, HeaderComes
<1>16. OpInv'
  <2>1. Copied(h, op'.locs, op'.used) /\ log'.entries = log.entries /\ log'.gen = log.gen
    BY <1>5, <1>9, <1>11
  <2>2. op' = [at |-> op'.at, locs |-> op'.locs, used |-> op'.used] /\ op'.locs = op.locs
    BY <1>5
  <2>3. Copies'
    BY <1>2, <1>10, <2>1, <2>2 DEF Copies, Copied
  <2>4. Coming'.gen = log.gen + 1 /\ Coming'.base = from /\ Coming'.trim = from
    BY <1>15
  <2>5. First(log') = from /\ OnMedium(h, Len(op.locs))
    BY <1>4, <1>8, <1>13 DEF from
  <2>6. Switches'
    BY <1>1, <1>10, <2>1, <2>2, <2>4, <2>5 DEF Switches
  <2> QED
    BY <1>6, <2>3, <2>6 DEF OpInv
<1> QED
  BY <1>1, <1>12, <1>13, <1>15, <1>16 DEF IInv, UpInv

\* The index moves to the copy, which holds the same messages.
LEMMA CompactSwitchKeeps ==
  ASSUME IInv, CompactSwitch
  PROVE  IInv'
<1> DEFINE h == files[log.gen + 1]
           from == First(log)
           next == log.next
           old == log.entries
           locs == op.locs
           new == [k \in DOMAIN old |-> [off |-> old[k].off, seg |-> locs[k].seg,
                                         pos |-> locs[k].pos, id |-> old[k].id]]
<1>1. /\ status = "up" /\ op.at = "switch" /\ SyncMeta
      /\ log' = [log EXCEPT !.gen = @ + 1, !.base = RetainedStart, !.seq = @ + 1,
                            !.used = op.used, !.entries = new]
      /\ Promise(old, next) /\ op' = [at |-> "remove"]
      /\ files' = files /\ status' = status /\ fsync' = fsync
      /\ ids' = ids /\ downs' = downs /\ hist' = hist
  BY DEF CompactSwitch, UpAnd
<1>2. Pending /\ ~Pending' /\ op'.at = "remove"
  BY <1>1 DEF Pending
<1>3. /\ log.gen + 1 \in 0 .. MaxGen /\ log.gen + 1 > 0 /\ GenOK(h) /\ Copied(h, locs, op.used)
  BY <1>1, CopyFacts
<1>4. /\ TypeInv /\ PromiseInv /\ LogInv /\ SlotInv /\ log \in LogRec /\ from \in Nat
      /\ next \in Nat /\ hist \in Seq(Ids)
      /\ RetainedStart = from /\ Len(hist) \in Nat /\ next = Len(hist) /\ from <= next
      /\ log.seq \in Nat /\ stable \in Nat /\ Switches /\ old \in Seq(EntryRec)
      /\ Len(old) = next - from
  BY <1>1, UpFacts, OpIs DEF Tells
<1>5. /\ Len(locs) = Len(old)
      /\ Coming.gen = log.gen + 1 /\ Coming.base = from /\ Coming.trim = from
      /\ OnMedium(h, Len(locs))
  BY <1>4 DEF Switches
<1>6. /\ h.segs # <<>> /\ Clean(h) /\ op.used = Lengths(h) /\ Count(h) = Len(locs)
      /\ locs \in Seq([seg : Nat, pos : Nat])
      /\ \A k \in 1 .. Len(locs) : /\ Walk(h)[k] = <<locs[k].seg, locs[k].pos>>
                                   /\ Msg(h, k) = old[k].id
  BY <1>3 DEF Copied
<1>7. Writing(slots, log.seq) /\ Survives(Coming, h, hist, stable)
  BY <1>2, <1>4, <1>5 DEF SlotInv, Sound
<1>8. \A k \in 1 .. Len(old) : old[k].off = from + k - 1
  BY <1>1, UpFacts DEF Tells
<1> HIDE DEF h, from, next, old, locs
<1>9. /\ new = [k \in 1 .. Len(old) |-> new[k]] /\ Len(old) \in Nat
      /\ \A k \in 1 .. Len(old) :
           new[k] = [off |-> from + k - 1, seg |-> locs[k].seg, pos |-> locs[k].pos, id |-> old[k].id]
  <2>1. DOMAIN old = 1 .. Len(old) /\ Len(old) \in Nat
    BY <1>4
  <2>2. ASSUME NEW k \in 1 .. Len(old)
        PROVE  new[k] = [off |-> from + k - 1, seg |-> locs[k].seg, pos |-> locs[k].pos, id |-> old[k].id]
    <3>1. old[k].off = from + k - 1
      BY <1>8
    <3> QED
      BY <2>1, <3>1
  <2> QED
    BY <2>1, <2>2
<1> HIDE DEF new
<1>10. new = Index(h, from, from, next) /\ new \in Seq(EntryRec) /\ Len(new) = Len(old)
  <2>1. next - from = Len(old) /\ Count(h) = next - from /\ from \in from .. next
    BY <1>4, <1>5, <1>6
  <2>2. ASSUME NEW k \in 1 .. Len(old)
        PROVE  new[k] = Entry(h, Walk(h)[from - from + k], from + k - 1) /\ new[k] \in EntryRec
    <3>1. k \in 1 .. Count(h) /\ from - from + k = k /\ from + k - 1 \in Nat /\ k \in 1 .. Len(locs)
      BY <1>4, <1>5, <1>6
    <3>2. /\ Entry(h, Walk(h)[k], from + k - 1)
               = [off |-> from + k - 1, seg |-> Walk(h)[k][1], pos |-> Walk(h)[k][2], id |-> Msg(h, k)]
          /\ Walk(h)[k][1] \in Nat /\ Walk(h)[k][2] \in Nat /\ Msg(h, k) \in Ids
      BY <1>3, <1>4, <1>6, <3>1, EntriesAre
    <3>3. Walk(h)[k] = <<locs[k].seg, locs[k].pos>> /\ Msg(h, k) = old[k].id
      BY <1>6, <3>1
    <3>4. Walk(h)[k][1] = locs[k].seg /\ Walk(h)[k][2] = locs[k].pos
      BY <3>3
    <3>5. new[k] = Entry(h, Walk(h)[k], from + k - 1)
      BY <1>9, <3>2, <3>3, <3>4
    <3>6. new[k] \in EntryRec
      BY <3>1, <3>2, <3>5 DEF EntryRec
    <3> QED
      BY <3>1, <3>5, <3>6
  <2>3. new = [k \in 1 .. next - from |-> Entry(h, Walk(h)[from - from + k], from + k - 1)]
    BY <1>9, <2>1, <2>2
  <2>4. new = Index(h, from, from, next)
    BY <2>3 DEF Index
  <2>5. new \in Seq(EntryRec) /\ Len(new) = Len(old)
    BY <1>9, <2>2
  <2> QED
    BY <2>4, <2>5
<1>11. Lengths(h) \in Seq(Nat)
  <2>1. \A i \in 1 .. Len(h.segs) : Len(h.segs[i].cells) \in Nat
    BY <1>3, SegOK
  <2>2. Len(h.segs) \in Nat /\ DOMAIN h.segs = 1 .. Len(h.segs)
    BY <1>3 DEF GenOK
  <2> QED
    BY <2>1, <2>2 DEF Lengths
<1>12. /\ log' \in LogRec /\ log'.gen = log.gen + 1 /\ log'.base = from /\ log'.seq = log.seq + 1
       /\ log'.next = next /\ log'.entries = new /\ log'.used = Lengths(h)
  <2> DEFINE gen == log.gen + 1
             seq == log.seq + 1
             used == Lengths(h)
  <2>1. log' = [log EXCEPT !.gen = gen, !.base = from, !.seq = seq, !.used = used, !.entries = new]
    BY <1>1, <1>4, <1>6
  <2>2. gen \in 0 .. MaxGen /\ seq \in Nat /\ used \in Seq(Nat) /\ log.next = next
    BY <1>3, <1>4, <1>11 DEF next
  <2> HIDE DEF gen, seq, used
  <2>3. /\ log' \in LogRec /\ log'.gen = gen /\ log'.base = from /\ log'.seq = seq
        /\ log'.next = next /\ log'.entries = new /\ log'.used = used
    BY <1>4, <1>10, <2>1, <2>2 DEF LogRec
  <2> QED
    BY <2>3 DEF gen, seq, used
<1>13. First(log') = from
  <2>1. from \in from .. next /\ next - from <= Count(h)
    BY <1>4, <1>5, <1>6
  <2> QED
    BY ZenonT(40), <1>3, <1>4, <1>6, <1>10, <1>12, <2>1, FirstIs
<1>14. Indexes(log', h, 0) /\ Cur' = h
  <2>1. Count(h) = next - from + 0 /\ from \in from .. next
    BY <1>4, <1>5, <1>6
  <2>2. Cur' = h
    BY <1>1, <1>12 DEF Cur, h
  <2> QED
    BY <1>6, <1>10, <1>12, <1>13, <2>1, <2>2 DEF Indexes
<1>15. /\ PromiseInv' /\ promised' \subseteq (Nat \X Ids) /\ stable' = Len(hist)
       /\ \A p \in promised' : from <= p[1]
  <2>1. Promise(log.entries, log.next)
    BY <1>1 DEF old, next
  <2> QED
    BY <1>1, <2>1, PromiseKeeps DEF from
<1>16. TypeInv'
  <2>1. stable' \in 0 .. Len(hist)
    BY <1>4, <1>15
  <2> QED
    BY <1>1, <1>4, <1>15, <2>1 DEF TypeInv
<1>17. LogInv'
  <2>1. log'.next = Len(hist') /\ op'.at # "sync"
    BY <1>1, <1>4, <1>12
  <2> QED
    BY <1>12, <1>13, <1>14, <1>15, <2>1 DEF LogInv
<1>18. Quiet(slots', log.seq + 1) /\ slots'[(log.seq + 1) % 2].val = Coming
  <2>1. slots' = Landed(slots, log.seq)
    BY <1>1 DEF SyncMeta, Landed
  <2> QED
    BY <1>4, <1>7, <2>1, HeaderLanded DEF Coming
<1>19. SlotInv'
  <2>1. Mine' = Coming
    BY <1>12, <1>18 DEF Mine
  <2>2. Survives(Coming, h, hist, stable')
    <3>1. Keeps(h, h) /\ h # Absent
      BY <1>3, <1>6, KeepsItself, NotAbsent
    <3>2. stable' - Coming.base = Len(locs) /\ Coming.base + Count(h) = Len(hist) /\ stable' \in Int
      BY <1>4, <1>5, <1>6, <1>15
    <3>3. Len(hist) <= Coming.base + Count(h) /\ OnMedium(h, stable' - Coming.base)
      BY <1>4, <1>5, <3>2
    <3> QED
      BY <1>3, <1>4, <1>7, <3>1, <3>2, <3>3, SurvivesSame
  <2>3. Sound(Mine)'
    <3>1. files'[Coming.gen] = h
      BY <1>1, <1>5 DEF h
    <3> QED
      BY <1>1, <2>1, <2>2, <3>1 DEF Sound
  <2>4. Coming.trim <= First(log')
    BY <1>4, <1>5, <1>13
  <2> QED
    BY <1>2, <1>5, <1>12, <1>18, <2>1, <2>3, <2>4 DEF SlotInv
<1>20. OpInv'
  BY <1>1, <1>3, <1>12 DEF OpInv
<1> QED
  BY <1>1, <1>15, <1>16, <1>17, <1>19, <1>20 DEF IInv, UpInv

-----------------------------------------------------------------------------
\* A crash.
\* A header that recovery may find.
Good(m) == Survives(m, files[m.gen], hist, stable) /\ \A p \in promised : m.trim <= p[1]

\* What a crash leaves of the header is a good one.
LEMMA HeaderFound ==
  ASSUME IInv, NEW a \in SlotCuts(slots[0]), NEW b \in SlotCuts(slots[1]),
         NEW new, new = [i \in {0, 1} |-> <<a, b>>[i + 1]]
  PROVE  \E t \in Nat : /\ Quiet(new, t) /\ Newest({a.val, b.val}) = new[t % 2].val
                        /\ Good(new[t % 2].val)
<1> DEFINE m == Newest({a.val, b.val})
<1>1. CASE status = "up"
  <2>1. /\ SlotInv /\ LogInv /\ TypeInv /\ log.seq \in Nat /\ First(log) \in Nat
        /\ slots[log.seq % 2].val = Mine /\ Mine.trim <= First(log) /\ Mine.trim \in Nat
        /\ Mine.gen = log.gen
    BY <1>1, UpFacts DEF Meta
  <2>2. ASSUME NEW trim \in Nat, trim <= First(log) PROVE \A p \in promised : trim <= p[1]
    <3> TAKE p \in promised
    <3>1. p[1] \in Nat /\ First(log) <= p[1]
      BY <2>1 DEF TypeInv, LogInv
    <3> QED
      BY <2>1, <2>2, <3>1
  <2>3. Good(Mine)
    BY <2>1, <2>2 DEF SlotInv, Sound, Good
  <2>4. Quiet(slots, log.seq) \/ Writing(slots, log.seq)
    BY <2>1 DEF SlotInv
  <2>5. PICK t \in Nat :
           /\ Quiet(new, t) /\ m = new[t % 2].val
           /\ \/ m = slots[log.seq % 2].val
              \/ Writing(slots, log.seq) /\ m = slots[(log.seq + 1) % 2].val
    <3> DEFINE s == log.seq
    <3>1. s \in Nat /\ (Quiet(slots, s) \/ Writing(slots, s))
      BY <2>1, <2>4
    <3> HIDE DEF s
    <3>2. CutHeader(slots, s, m, new)
      BY <3>1, HeaderCut
    <3> HIDE DEF m
    <3> QED
      BY <3>2 DEF CutHeader, s
  <2>6. ASSUME Writing(slots, log.seq) PROVE Good(Coming)
    <3>1. Pending
      <4>1. CASE ~Pending
        <5>1. Quiet(slots, log.seq)
          BY <2>1, <4>1 DEF SlotInv
        <5>2. slots[(log.seq + 1) % 2].synced = TRUE /\ slots[(log.seq + 1) % 2].synced = FALSE
          BY <2>6, <5>1 DEF Quiet, Writing, Durable
        <5> QED
          BY <5>2
      <4> QED
        BY <4>1
    <3>2. Coming.trim <= First(log) /\ Sound(Coming) /\ Coming \in Meta
      BY <2>1, <2>6, <3>1 DEF SlotInv, Writing, Coming
    <3>3. Coming.trim \in Nat
      BY <3>2 DEF Meta
    <3> QED
      BY <2>2, <3>2, <3>3 DEF Sound, Good
  <2> QED
    BY <2>1, <2>3, <2>5, <2>6 DEF Coming
<1>2. CASE status = "down"
  <2>1. PICK s \in Nat : Quiet(slots, s) /\ Holds(slots[s % 2].val, files[slots[s % 2].val.gen])
    BY <1>2 DEF IInv, DownInv
  <2>2. Good(slots[s % 2].val)
    BY <2>1 DEF Holds, Good
  <2>3. ~Writing(slots, s)
    <3>1. CASE Writing(slots, s)
      <4>1. slots[(s + 1) % 2].synced = TRUE /\ slots[(s + 1) % 2].synced = FALSE
        BY <2>1, <3>1 DEF Quiet, Writing, Durable
      <4> QED
        BY <4>1
    <3> QED
      BY <3>1
  <2>4. PICK t \in Nat :
           /\ Quiet(new, t) /\ m = new[t % 2].val
           /\ \/ m = slots[s % 2].val
              \/ Writing(slots, s) /\ m = slots[(s + 1) % 2].val
    <3>1. CutHeader(slots, s, m, new)
      BY <2>1, HeaderCut
    <3> HIDE DEF m
    <3> QED
      BY <3>1 DEF CutHeader
  <2> QED
    BY <2>2, <2>3, <2>4
<1>3. status \in {"down", "up"}
  BY DEF IInv, TypeInv
<1> QED
  BY <1>1, <1>2, <1>3

\* The history that the files g, left by a crash, and the trim point make.
Past(g, base, trim, past) ==
    LET left == From(Entries(g, base), trim)
    IN SubSeq(past, 1, trim) \o [k \in DOMAIN left |-> left[k].id]

\* The past that the files tell, above the trim point.
LEMMA PastIs ==
  ASSUME NEW g, GenOK(g), g.segs # <<>>, NEW base \in Nat, NEW trim \in Nat, base <= trim,
         trim - base <= Count(g), NEW past \in Seq(Ids), trim <= Len(past)
  PROVE  /\ Past(g, base, trim, past) \in Seq(Ids)
         /\ Len(Past(g, base, trim, past)) = base + Count(g)
         /\ \A k \in 1 .. Count(g) : trim < base + k =>
              Past(g, base, trim, past)[base + k] = Msg(g, k)
<1> DEFINE n == base + Count(g)
           left == From(Entries(g, base), trim)
           new == [k \in DOMAIN left |-> left[k].id]
           old == SubSeq(past, 1, trim)
<1>1. /\ Count(g) \in Nat /\ n \in Nat /\ base \in base .. n /\ trim \in base .. n
      /\ n - base <= Count(g) /\ trim <= n
  <2>1. Count(g) \in Nat
    BY WalkFacts
  <2> QED
    BY <2>1
<1>2. left = Index(g, base, trim, n)
  <2>1. Entries(g, base) = Index(g, base, base, n)
    BY EntriesIndex
  <2> HIDE DEF n
  <2>2. From(Index(g, base, base, n), trim) = Index(g, base, trim, n)
    BY <1>1, FromIndex
  <2> QED
    BY <2>1, <2>2
<1>3. Past(g, base, trim, past) = old \o new
  BY DEF Past
<1> HIDE DEF left
<1>4. IsIndex(left, g, base, trim, n)
  <2> HIDE DEF n
  <2> QED
    BY <1>1, <1>2, IndexAre
<1> HIDE DEF n
<1>5. /\ left \in Seq(EntryRec) /\ Len(left) = n - trim
      /\ \A k \in 1 .. n - trim : left[k].id = Msg(g, trim - base + k) /\ left[k].id \in Ids
  <2>1. /\ left \in Seq(EntryRec) /\ Len(left) = n - trim
        /\ \A k \in 1 .. n - trim :
             left[k] = [off |-> trim + k - 1, seg |-> Walk(g)[trim - base + k][1],
                        pos |-> Walk(g)[trim - base + k][2], id |-> Msg(g, trim - base + k)]
    BY <1>4 DEF IsIndex
  <2>2. \A k \in 1 .. n - trim : left[k] \in EntryRec
    BY <2>1
  <2>3. \A k \in 1 .. n - trim : left[k].id \in Ids
    BY <2>2 DEF EntryRec
  <2>4. \A k \in 1 .. n - trim : left[k].id = Msg(g, trim - base + k)
    BY <2>1
  <2> QED
    BY <2>1, <2>3, <2>4
<1>6. /\ new \in Seq(Ids) /\ Len(new) = n - trim
      /\ \A k \in 1 .. n - trim : new[k] = Msg(g, trim - base + k)
  <2>1. DOMAIN left = 1 .. n - trim /\ n - trim \in Nat
    BY <1>1, <1>5
  <2>2. new = [k \in 1 .. n - trim |-> left[k].id]
    BY <2>1
  <2> DEFINE len == n - trim
  <2>3. len \in Nat /\ \A k \in 1 .. len : new[k] = left[k].id /\ new[k] \in Ids
    BY <1>5, <2>1
  <2>4. new = [k \in 1 .. len |-> new[k]]
    BY <2>2
  <2> HIDE DEF new, len
  <2>5. new \in [1 .. len -> Ids]
    BY <2>3, <2>4
  <2>6. new \in Seq(Ids) /\ Len(new) = len
    BY <2>3, <2>5
  <2> QED
    BY <1>5, <2>3, <2>6 DEF len
<1>7. old \in Seq(Ids) /\ Len(old) = trim
  <2>1. Len(past) \in Nat
    OBVIOUS
  <2> QED
    BY <2>1
<1> HIDE DEF old, new
<1>8. old \o new \in Seq(Ids) /\ Len(old \o new) = n
      /\ \A k \in 1 .. n - trim : (old \o new)[trim + k] = new[k]
  <2>1. \A k \in 1 .. Len(new) : (old \o new)[Len(old) + k] = new[k]
    BY <1>6, <1>7
  <2>2. Len(old \o new) = trim + (n - trim)
    <3>1. \A s, t \in Seq(Ids) : Len(s \o t) = Len(s) + Len(t)
      OBVIOUS
    <3> QED
      BY <1>6, <1>7, <3>1
  <2>3. old \o new \in Seq(Ids)
    BY <1>6, <1>7
  <2> QED
    <3>1. n \in Nat /\ trim + (n - trim) = n
      BY <1>1
    <3> QED
      BY <1>6, <1>7, <2>1, <2>2, <2>3, <3>1
<1>9. ASSUME NEW k \in 1 .. Count(g), trim < base + k
      PROVE  (old \o new)[base + k] = Msg(g, k)
  <2>1. n = base + Count(g)
    BY DEF n
  <2>2. PICK j \in 1 .. n - trim : j = base + k - trim
    BY <1>1, <1>9, <2>1
  <2>3. trim + j = base + k /\ trim - base + j = k
    BY <1>1, <2>2
  <2>4. (old \o new)[trim + j] = Msg(g, trim - base + j)
    BY <1>6, <1>8
  <2> QED
    BY <2>3, <2>4
<1> QED
  BY <1>3, <1>8, <1>9 DEF n

\* No entries, no history.
LEMMA PastNone ==
  /\ Past(Absent, 0, 0, <<>>) = <<>> /\ AllSynced(Absent) = Absent /\ GenOK(Absent)
<1>1. Entries(Absent, 0) = <<>>
  BY DEF Entries, Absent
<1>2. From(<<>>, 0) = <<>>
  <2>1. /\ <<>> \in Seq(EntryRec) /\ 0 \in 0 .. Len(<<>>) /\ 0 \in Nat
        /\ \A k \in 1 .. Len(<<>>) : (<<>>)[k].off = 0 + k - 1
    OBVIOUS
  <2>2. From(<<>>, 0 + 0) = SubSeq(<<>>, 0 + 1, Len(<<>>))
    BY <2>1, FromIs
  <2>3. SubSeq(<<>>, 0 + 1, Len(<<>>)) = <<>> /\ 0 + 0 = 0
    OBVIOUS
  <2> QED
    BY <2>2, <2>3
<1>3. Past(Absent, 0, 0, <<>>) = <<>>
  <2> DEFINE old == SubSeq(<<>>, 1, 0)
             new == [k \in DOMAIN <<>> |-> (<<>>)[k].id]
  <2>1. Past(Absent, 0, 0, <<>>) = old \o new
    BY <1>1, <1>2 DEF Past
  <2>2. old = <<>> /\ new = <<>>
    OBVIOUS
  <2> HIDE DEF old, new
  <2>3. old \o new = <<>>
    BY <2>2
  <2> QED
    BY <2>1, <2>3
<1>4. AllSynced(Absent) = Absent
  <2>1. Synced(NewFile) = NewFile
    BY DEF Synced, NewFile
  <2>2. [i \in DOMAIN <<>> |-> Synced((<<>>)[i])] = <<>>
    OBVIOUS
  <2> QED
    BY <2>1, <2>2 DEF AllSynced, Absent
<1>5. GenOK(Absent)
  BY DEF GenOK, Absent, NewFile, BlobFile
<1> QED
  BY <1>3, <1>4, <1>5

\* What a crash leaves of the files g0 of a good header, and the history it makes.
LEMMA CrashLeaves ==
  ASSUME TypeInv, PromiseInv, NEW m, Good(m), NEW g, CutOf(files[m.gen], g)
         \/ (files[m.gen] = Absent /\ g = Absent),
         NEW past, past = Past(g, m.base, m.trim, hist), GenOK(g)
  PROVE  /\ past \in Seq(Ids) /\ Survives(m, g, past, Len(past))
         /\ g # Absent => m.base + Count(g) = Len(past)
         /\ \A p \in promised : p[1] < Len(past) /\ past[p[1] + 1] = p[2]
<1> DEFINE g0 == files[m.gen]
           base == m.base
           trim == m.trim
<1>1. /\ Survives(m, g0, hist, stable) /\ \A p \in promised : trim <= p[1]
  BY DEF Good
<1>2. /\ m \in Meta /\ base \in Nat /\ trim \in Nat /\ base <= trim /\ trim <= Len(hist)
      /\ hist \in Seq(Ids) /\ Len(hist) \in Nat /\ stable \in Nat /\ stable <= Len(hist)
      /\ m.gen \in Gens /\ GenOK(g0)
  <2>1. m \in Meta /\ base <= trim /\ trim <= Len(hist)
    BY <1>1 DEF Survives
  <2>2. base \in Nat /\ trim \in Nat /\ m.gen \in 0 .. MaxGen
    BY <2>1 DEF Meta
  <2>3. m.gen \in Gens
    BY <2>2, SegLogAssumption DEF Gens
  <2> QED
    BY <2>1, <2>2, <2>3 DEF TypeInv
<1>3. \A p \in promised : p[1] \in Nat /\ p[1] < stable /\ hist[p[1] + 1] = p[2]
  BY DEF TypeInv, PromiseInv
<1>4. CASE g0 = Absent
  <2>1. m = NoMeta /\ hist = <<>>
    BY <1>1, <1>4 DEF Survives
  <2>2. g = Absent
    <3>1. CASE CutOf(g0, g)
      <4>1. g.segs = <<>> /\ g.blob.cells = <<>> /\ g.blob.synced = 0
        <5>1. Len(g.segs) = 0 /\ Len(g.blob.cells) <= 0 /\ g.blob.synced = Len(g.blob.cells)
          BY <1>4, <3>1 DEF CutOf, Absent, NewFile
        <5>2. g.segs \in Seq(Segment) /\ g.blob.cells \in Seq(Ids) /\ Len(g.blob.cells) \in Nat
          BY BlobOK DEF GenOK
        <5> QED
          BY <5>1, <5>2
      <4>2. g = [segs |-> g.segs, blob |-> g.blob] /\ g.blob = [cells |-> g.blob.cells, synced |-> g.blob.synced]
        BY BlobOK
      <4> QED
        BY <4>1, <4>2 DEF Absent, NewFile
    <3> QED
      BY <3>1
  <2>3. past = <<>>
    BY <2>1, <2>2, NoMetaIn, PastNone
  <2>4. promised = {}
    <3>1. stable = 0
      BY <1>2, <2>1
    <3> QED
      BY <1>3, <3>1
  <2>5. Survives(m, g, past, Len(past))
    BY <1>2, <2>1, <2>2, <2>3, NoMetaIn DEF Survives
  <2>6. past \in Seq(Ids)
    BY <2>3
  <2>7. \A p \in promised : p[1] < Len(past) /\ past[p[1] + 1] = p[2]
    BY <2>4
  <2> HIDE DEF base, trim
  <2> QED
    BY <2>2, <2>5, <2>6, <2>7
<1>5. CASE g0 # Absent
  <2> DEFINE x == trim - base
             y == stable - base
             n == IF x <= y THEN y ELSE x
  <2>1. /\ g0.segs # <<>> /\ OnMedium(g0, x) /\ OnMedium(g0, y)
        /\ \A k \in 1 .. Count(g0) : trim < base + k /\ base + k <= Len(hist) => Msg(g0, k) = hist[base + k]
    BY <1>1, <1>5 DEF Survives
  <2>2. CutOf(g0, g)
    BY <1>5
  <2>3. OnMedium(g0, n) /\ n \in Int /\ x <= n /\ y <= n
    BY <1>2, <2>1
  <2>4. n <= Count(g0)
    BY <2>3 DEF OnMedium
  <2> HIDE DEF n, g0
  <2>5. /\ GenOK(g) /\ g.segs # <<>> /\ n <= Count(g) /\ OnMedium(g, Count(g))
        /\ \A k \in 1 .. n : Walk(g)[k] = Walk(g0)[k] /\ Msg(g, k) = Msg(g0, k)
    BY <1>2, <2>1, <2>2, <2>3, CutStands
  <2>6. Count(g) \in Nat /\ Count(g0) \in Nat /\ x <= Count(g) /\ y <= Count(g)
    <3>1. Count(g) \in Nat /\ Count(g0) \in Nat
      BY <1>2, <2>1, <2>5, WalkFacts
    <3> QED
      BY <1>2, <2>3, <2>5, <3>1
  <2>7. /\ past \in Seq(Ids) /\ Len(past) = base + Count(g)
        /\ \A k \in 1 .. Count(g) : trim < base + k => past[base + k] = Msg(g, k)
    <3>1. past = Past(g, base, trim, hist)
      OBVIOUS
    <3>2. /\ GenOK(g) /\ g.segs # <<>> /\ base \in Nat /\ trim \in Nat /\ base <= trim
          /\ trim - base <= Count(g) /\ hist \in Seq(Ids) /\ trim <= Len(hist)
      BY <1>2, <2>5, <2>6
    <3> HIDE DEF base, trim
    <3>3. /\ Past(g, base, trim, hist) \in Seq(Ids)
          /\ Len(Past(g, base, trim, hist)) = base + Count(g)
          /\ \A k \in 1 .. Count(g) : trim < base + k =>
               Past(g, base, trim, hist)[base + k] = Msg(g, k)
      BY <3>2, PastIs
    <3> QED
      BY <3>1, <3>3
  <2>8. Survives(m, g, past, Len(past))
    <3>1. OnMedium(g, x)
      <4>1. \A k \in 1 .. x : k \in 1 .. Count(g)
        BY <1>2, <2>6
      <4> QED
        BY <2>5, <2>6, <4>1 DEF OnMedium
    <3>2. Len(past) - base = Count(g) /\ trim <= Len(past)
      BY <1>2, <2>6, <2>7
    <3>3. OnMedium(g, Len(past) - base)
      BY <2>5, <3>2
    <3>4. g # Absent
      BY <2>5, NotAbsent
    <3> QED
      BY <1>2, <2>5, <2>7, <3>1, <3>2, <3>3, <3>4 DEF Survives
  <2>9. ASSUME NEW p \in promised PROVE p[1] < Len(past) /\ past[p[1] + 1] = p[2]
    <3>1. p[1] \in Nat /\ p[1] < stable /\ hist[p[1] + 1] = p[2] /\ trim <= p[1]
      BY <1>1, <1>3
    <3>2. PICK k \in Nat : k = p[1] + 1 - base
      BY <1>2, <3>1
    <3>3. /\ base + k = p[1] + 1 /\ k \in 1 .. n /\ k \in 1 .. Count(g) /\ k \in 1 .. Count(g0)
          /\ trim < base + k /\ base + k <= Len(hist) /\ p[1] < base + Count(g)
      <4> DEFINE q == p[1]
                 c == Count(g)
                 c0 == Count(g0)
                 len == Len(hist)
      <4>1. /\ q \in Nat /\ c \in Nat /\ c0 \in Nat /\ len \in Nat /\ n \in Int /\ base \in Nat
            /\ trim \in Nat /\ stable \in Nat /\ q < stable /\ trim <= q /\ base <= trim
            /\ k = q + 1 - base /\ stable - base <= n /\ stable - base <= c /\ n <= c0 /\ stable <= len
        BY <1>2, <2>3, <2>4, <2>6, <3>1, <3>2
      <4> HIDE DEF q, c, c0, len, base, trim
      <4>2. /\ base + k = q + 1 /\ k \in 1 .. n /\ k \in 1 .. c /\ k \in 1 .. c0
            /\ trim < base + k /\ base + k <= len /\ q < base + c
        BY <4>1
      <4> QED
        BY <4>2 DEF q, c, c0, len
    <3>4. past[base + k] = Msg(g, k) /\ Msg(g, k) = Msg(g0, k) /\ Msg(g0, k) = hist[base + k]
      BY <2>1, <2>5, <2>7, <3>3
    <3> QED
      BY <2>7, <3>1, <3>3, <3>4
  <2> QED
    BY <2>7, <2>8, <2>9
<1> QED
  BY <1>4, <1>5

\* Whatever header and files a crash leaves, they hold the past that counts
\* from then on.
LEMMA CrashKeeps ==
  ASSUME IInv, Crash
  PROVE  IInv'
<1> DEFINE dirty == { g \in Gens : files[g] # AllSynced(files[g]) }
<1>1. PICK cut \in [dirty -> UNION { GenCuts(files[g]) : g \in dirty }],
           a \in SlotCuts(slots[0]), b \in SlotCuts(slots[1]) :
        LET m == Newest({a.val, b.val})
            g == IF m.gen \in dirty THEN cut[m.gen] ELSE files[m.gen]
            left == From(Entries(g, m.base), m.trim)
        IN /\ \A i \in dirty : cut[i] \in GenCuts(files[i])
           /\ files' = [i \in Gens |-> IF i \in dirty THEN cut[i] ELSE files[i]]
           /\ slots' = [i \in {0, 1} |-> <<a, b>>[i + 1]]
           /\ hist' = SubSeq(hist, 1, m.trim) \o [k \in DOMAIN left |-> left[k].id]
  BY DEF Crash
<1> DEFINE m == Newest({a.val, b.val})
           g == IF m.gen \in dirty THEN cut[m.gen] ELSE files[m.gen]
<1>2. /\ \A i \in dirty : cut[i] \in GenCuts(files[i])
      /\ files' = [i \in Gens |-> IF i \in dirty THEN cut[i] ELSE files[i]]
      /\ slots' = [i \in {0, 1} |-> <<a, b>>[i + 1]]
      /\ hist' = Past(g, m.base, m.trim, hist)
  BY <1>1 DEF Past
<1>3. /\ downs < MaxDowns /\ downs' = downs + 1 /\ log' = Closed /\ op' = Idle /\ status' = "down"
      /\ stable' = Len(hist') /\ fsync' = fsync /\ ids' = ids /\ promised' = promised
  BY DEF Crash, GoDown
<1>4. TypeInv /\ PromiseInv
  BY DEF IInv
<1>5. PICK t \in Nat : Quiet(slots', t) /\ m = slots'[t % 2].val /\ Good(m)
  <2>1. \E t \in Nat : /\ Quiet(slots', t) /\ Newest({a.val, b.val}) = slots'[t % 2].val
                       /\ Good(slots'[t % 2].val)
    BY <1>2, HeaderFound
  <2> QED
    BY <2>1
<1> HIDE DEF m
<1>6. m.gen \in Gens
  <2>1. m \in Meta
    BY <1>5 DEF Good, Survives
  <2>2. m.gen \in 0 .. MaxGen
    BY <2>1 DEF Meta
  <2> QED
    BY <2>2, SegLogAssumption DEF Gens
<1>7. \A i \in Gens : GenOK(files[i])
  BY <1>4 DEF TypeInv
<1>8. ASSUME NEW i \in dirty PROVE CutOf(files[i], cut[i])
  <2>1. GenOK(files[i]) /\ cut[i] \in GenCuts(files[i])
    BY <1>2, <1>7
  <2> QED
    BY <2>1, CutIs
<1>9. files' = [i \in Gens |-> files'[i]] /\ \A i \in Gens : GenOK(files'[i])
  <2>1. ASSUME NEW i \in Gens PROVE GenOK(files'[i])
    <3>1. CASE i \in dirty
      <4>1. files'[i] = cut[i]
        BY <1>2, <3>1
      <4> QED
        BY <1>8, <3>1, <4>1 DEF CutOf
    <3>2. CASE i \notin dirty
      <4>1. files'[i] = files[i]
        BY <1>2, <3>2
      <4> QED
        BY <1>7, <4>1
    <3> QED
      BY <3>1, <3>2
  <2>2. files' = [i \in Gens |-> files'[i]]
    BY <1>2
  <2> QED
    BY <2>1, <2>2
<1>10. files'[m.gen] = g
  BY <1>2, <1>6
<1>11. CutOf(files[m.gen], g) \/ (files[m.gen] = Absent /\ g = Absent)
  <2>1. CASE m.gen \in dirty
    BY <1>8, <2>1
  <2>2. CASE m.gen \notin dirty
    <3>1. g = files[m.gen] /\ files[m.gen] = AllSynced(files[m.gen]) /\ GenOK(files[m.gen])
      BY <1>6, <1>7, <2>2
    <3>2. CutOf(files[m.gen], files[m.gen])
      BY <3>1, CutSynced
    <3> QED
      BY <3>1, <3>2
  <2> QED
    BY <2>1, <2>2
<1> HIDE DEF g, dirty
<1>12. /\ hist' \in Seq(Ids) /\ Survives(m, g, hist', Len(hist'))
       /\ g # Absent => m.base + Count(g) = Len(hist')
       /\ \A p \in promised : p[1] < Len(hist') /\ hist'[p[1] + 1] = p[2]
  <2>1. GenOK(g)
    BY <1>6, <1>9, <1>10
  <2> DEFINE past == hist'
  <2>2. past = Past(g, m.base, m.trim, hist) /\ Good(m)
    BY <1>2, <1>5
  <2> HIDE DEF past
  <2>3. /\ past \in Seq(Ids) /\ Survives(m, g, past, Len(past))
        /\ g # Absent => m.base + Count(g) = Len(past)
        /\ \A p \in promised : p[1] < Len(past) /\ past[p[1] + 1] = p[2]
    BY <1>4, <1>11, <2>1, <2>2, CrashLeaves
  <2> QED
    BY <2>3 DEF past
<1>13. TypeInv'
  <2>1. downs' \in 0 .. MaxDowns
    BY <1>3, <1>4, SegLogAssumption DEF TypeInv
  <2>2. stable' \in 0 .. Len(hist')
    BY <1>3, <1>12
  <2> QED
    BY <1>3, <1>4, <1>9, <1>12, <2>1, <2>2 DEF TypeInv
<1>14. PromiseInv'
  BY <1>3, <1>12 DEF PromiseInv
<1>15. DownInv'
  <2>1. \A p \in promised : m.trim <= p[1]
    BY <1>5 DEF Good
  <2> DEFINE n == slots'[t % 2].val
  <2>2. /\ Survives(n, files'[n.gen], hist', stable')
        /\ files'[n.gen] # Absent => n.base + Count(files'[n.gen]) = Len(hist')
        /\ \A p \in promised' : n.trim <= p[1]
    BY <1>3, <1>5, <1>10, <1>12, <2>1
  <2>3. Quiet(slots', t) /\ Holds(slots[t % 2].val, files[slots[t % 2].val.gen])'
    BY <1>5, <2>2 DEF Holds
  <2> QED
    BY <1>3, <2>3 DEF DownInv
<1> QED
  BY <1>3, <1>13, <1>14, <1>15 DEF IInv

-----------------------------------------------------------------------------
\* Opening the log.
LEMMA MaxOfTwo ==
  ASSUME NEW a \in Nat, NEW b \in Nat, b <= a
  PROVE  Max({a, b}) = a
<1>1. \A x \in {a, b} : x >= a /\ (\A y \in {a, b} : x >= y) => x = a
  OBVIOUS
<1>2. a \in {a, b} /\ \A y \in {a, b} : a >= y
  OBVIOUS
<1> QED
  BY <1>1, <1>2 DEF Max

\* What a good header and its files become when the log is opened.
Opened(g) == IF g = Absent THEN Fresh ELSE Recovered(g)

\* Recovery finds the past in the files.
LEMMA OpenedIs ==
  ASSUME NEW m, NEW g, NEW past \in Seq(Ids), NEW safe \in Nat, safe <= Len(past),
         Survives(m, g, past, safe), GenOK(g), g # Absent => m.base + Count(g) = Len(past)
  PROVE  /\ GenOK(Opened(g)) /\ Opened(g).segs # <<>> /\ Clean(Opened(g))
         /\ m.base + Count(Opened(g)) = Len(past) /\ Survives(m, Opened(g), past, safe)
<1> DEFINE h == Opened(g)
<1>1. CASE g = Absent
  <2>1. m = NoMeta /\ past = <<>> /\ m \in Meta /\ safe = 0 /\ m.base = 0 /\ m.trim = 0
    <3>1. m = NoMeta /\ past = <<>> /\ m \in Meta
      BY <1>1 DEF Survives
    <3>2. safe = 0
      BY <3>1
    <3> QED
      BY <3>1, <3>2, NoMetaIn
  <2>2. h = Fresh
    BY <1>1 DEF Opened
  <2> HIDE DEF h
  <2>3. /\ GenOK(h) /\ h.segs # <<>> /\ h # Absent /\ Clean(h) /\ Count(h) = 0 /\ OnMedium(h, 0)
    BY <2>2, FreshIs
  <2>4. m.base + Count(h) = Len(past)
    BY <2>1, <2>3
  <2>5. Survives(m, h, past, safe)
    <3>1. OnMedium(h, m.trim - m.base) /\ OnMedium(h, safe - m.base)
      BY <2>1, <2>3
    <3>2. m.base <= m.trim /\ m.trim <= Len(past) /\ 1 .. Count(h) = {}
      BY <2>1, <2>3
    <3> QED
      BY <2>1, <2>3, <3>1, <3>2 DEF Survives
  <2> QED
    BY <2>3, <2>4, <2>5 DEF h
<1>2. CASE g # Absent
  <2>1. h = Recovered(g) /\ g.segs # <<>> /\ m \in Meta /\ m.base \in Nat
        /\ m.base + Count(g) = Len(past) /\ OnMedium(g, safe - m.base)
    BY <1>2 DEF Survives, Opened, Meta
  <2> HIDE DEF h
  <2>2. /\ GenOK(h) /\ h.segs # <<>> /\ Clean(h) /\ Count(h) = Count(g)
        /\ \A k \in 1 .. Count(g) : Walk(h)[k] = Walk(g)[k] /\ Msg(h, k) = Msg(g, k)
        /\ \A n \in Int : OnMedium(g, n) => OnMedium(h, n)
    BY <2>1, RecoveredStands
  <2>3. Keeps(g, h)
    <3>1. Count(g) \in Nat
      BY <2>1, WalkFacts
    <3> QED
      BY <2>2, <3>1 DEF Keeps
  <2>4. OnMedium(h, safe - m.base) /\ Len(past) <= m.base + Count(g) /\ safe \in Int
    BY <2>1, <2>2
  <2>5. Survives(m, h, past, safe)
    BY <1>2, <2>3, <2>4, SurvivesSame
  <2> QED
    BY <2>1, <2>2, <2>5 DEF h
<1> QED
  BY <1>1, <1>2

\* Open finds the files, and its index tells the past.
LEMMA OpenKeeps ==
  ASSUME IInv, Open
  PROVE  IInv'
<1> DEFINE m == Header
           g == files[m.gen]
           h == Opened(g)
           all == Entries(h, m.base)
<1>1. /\ status = "down"
      /\ \/ g = Absent /\ m # NoMeta
         \/ /\ files' = [files EXCEPT ![m.gen] = h]
            /\ log' = [gen |-> m.gen, base |-> m.base, trim |-> m.trim, seq |-> m.seq,
                       next |-> Max({m.base + Len(all), m.trim}),
                       entries |-> From(all, m.trim), used |-> Lengths(h)]
            /\ op' = [at |-> "opened"] /\ status' = "up"
      /\ slots' = slots /\ fsync' = fsync /\ ids' = ids /\ downs' = downs /\ hist' = hist
      /\ stable' = stable /\ promised' = promised
  BY DEF Open, Opened, Lengths
<1>2. TypeInv /\ PromiseInv /\ DownInv
  BY <1>1 DEF IInv
<1>3. PICK s \in Nat : Quiet(slots, s) /\ Holds(slots[s % 2].val, files[slots[s % 2].val.gen])
  BY <1>2 DEF DownInv
<1>4. m = slots[s % 2].val
  BY <1>3, HeaderIs DEF Header
<1> HIDE DEF m
<1>5. /\ Survives(m, g, hist, stable) /\ m.seq = s /\ m \in Meta
      /\ g # Absent => m.base + Count(g) = Len(hist)
      /\ \A p \in promised : m.trim <= p[1]
  BY <1>3, <1>4 DEF Holds, Quiet, HeaderAt
<1>6. /\ m.gen \in 0 .. MaxGen /\ m.base \in Nat /\ m.trim \in Nat /\ m.seq \in Nat
      /\ m.base <= m.trim /\ m.trim <= Len(hist) /\ m.gen \in Gens
  <2>1. m.gen \in 0 .. MaxGen /\ m.base \in Nat /\ m.trim \in Nat /\ m.seq \in Nat
    BY <1>5 DEF Meta
  <2> QED
    BY <1>5, <2>1, SegLogAssumption DEF Survives, Gens
<1>7. hist \in Seq(Ids) /\ Len(hist) \in Nat /\ stable \in Nat /\ stable <= Len(hist) /\ GenOK(g)
  BY <1>2, <1>6 DEF TypeInv
<1>8. ~(g = Absent /\ m # NoMeta)
  BY <1>5 DEF Survives
<1> HIDE DEF g
<1>9. /\ GenOK(h) /\ h.segs # <<>> /\ Clean(h) /\ m.base + Count(h) = Len(hist)
      /\ Survives(m, h, hist, stable)
  BY <1>5, <1>7, OpenedIs
<1> HIDE DEF h
<1> DEFINE base == m.base
           trim == m.trim
           next == base + Count(h)
<1>10. next = Len(hist) /\ next \in Nat /\ Count(h) \in Nat /\ base \in base .. next
       /\ trim \in base .. next /\ next - base <= Count(h) /\ base \in Nat
  <2>1. Count(h) \in Nat
    BY <1>9, WalkFacts
  <2> QED
    BY <1>6, <1>7, <1>9, <2>1
<1>11. Max({m.base + Len(all), m.trim}) = next
  <2>1. Len(all) = Count(h)
    BY <1>6, <1>9, EntriesAre
  <2>2. Max({next, trim}) = next
    <3>1. trim \in Nat /\ trim <= next
      BY <1>6, <1>10
    <3> HIDE DEF next, trim
    <3> QED
      BY <1>10, <3>1, MaxOfTwo
  <2> QED
    BY <2>1, <2>2
<1> DEFINE left == From(all, trim)
<1>12. left = Index(h, base, trim, next)
  <2>1. all = Index(h, base, base, base + Count(h))
    <3>1. base \in Nat
      BY <1>6
    <3> HIDE DEF base
    <3> QED
      BY <1>9, <3>1, EntriesIndex DEF base
  <2> HIDE DEF all
  <2>2. all = Index(h, base, base, next)
    BY <2>1
  <2> HIDE DEF base, trim, next
  <2>3. From(Index(h, base, base, next), trim) = Index(h, base, trim, next)
    BY <1>9, <1>10, FromIndex
  <2> QED
    BY <2>2, <2>3
<1> HIDE DEF left, all
<1>13. /\ files' = [files EXCEPT ![m.gen] = h] /\ op' = [at |-> "opened"] /\ status' = "up"
       /\ log' = [gen |-> m.gen, base |-> base, trim |-> trim, seq |-> m.seq, next |-> next,
                  entries |-> left, used |-> Lengths(h)]
  BY <1>1, <1>8, <1>11 DEF left
<1> HIDE DEF base, trim, next
<1>14. /\ IsIndex(left, h, base, trim, next) /\ left \in Seq(EntryRec)
  <2>1. IsIndex(left, h, base, trim, next)
    BY <1>9, <1>10, <1>12, IndexAre
  <2> QED
    BY <2>1 DEF IsIndex
<1>15. Lengths(h) \in Seq(Nat)
  <2>1. \A i \in 1 .. Len(h.segs) : Len(h.segs[i].cells) \in Nat
    BY <1>9, SegOK
  <2>2. Len(h.segs) \in Nat /\ DOMAIN h.segs = 1 .. Len(h.segs)
    BY <1>9 DEF GenOK
  <2> QED
    BY <2>1, <2>2 DEF Lengths
<1>16. /\ log' \in LogRec /\ log'.gen = m.gen /\ log'.base = base /\ log'.trim = trim
       /\ log'.seq = m.seq /\ log'.next = next /\ log'.entries = left /\ log'.used = Lengths(h)
  <2>1. trim \in Nat
    BY <1>6 DEF trim
  <2> QED
    BY <1>6, <1>10, <1>13, <1>14, <1>15, <2>1 DEF LogRec
<1>17. First(log') = trim
  BY <1>9, <1>10, <1>12, <1>16, FirstIs
<1>18. /\ files' = [i \in Gens |-> files'[i]] /\ \A i \in Gens : GenOK(files'[i])
       /\ files'[m.gen] = h
  BY <1>2, <1>6, <1>9, <1>13, FilesBut
<1>19. TypeInv' /\ PromiseInv'
  BY <1>1, <1>2, <1>13, <1>18 DEF TypeInv, PromiseInv
<1>20. LogInv'
  <2>1. Cur' = h
    BY <1>16, <1>18 DEF Cur
  <2>2. Count(h) = next - base + 0
    BY <1>6, <1>10 DEF next, base
  <2>3. Indexes(log', h, 0)
    BY <1>9, <1>10, <1>12, <1>16, <1>17, <2>2 DEF Indexes
  <2>4. \A p \in promised' : First(log') <= p[1]
    BY <1>1, <1>5, <1>17 DEF trim
  <2>5. log'.next = Len(hist') /\ op'.at # "sync"
    BY <1>1, <1>10, <1>13, <1>16
  <2> QED
    BY <1>16, <2>1, <2>3, <2>4, <2>5 DEF LogInv
<1>21. Mine' = m
  BY <1>1, <1>4, <1>5, <1>16 DEF Mine
<1>22. SlotInv'
  <2>1. Sound(Mine)'
    BY <1>1, <1>9, <1>18, <1>21 DEF Sound
  <2>2. Quiet(slots', log'.seq) /\ ~Pending'
    BY <1>1, <1>3, <1>5, <1>13, <1>16 DEF Pending
  <2>3. Mine'.gen = log'.gen /\ Mine'.base = log'.base /\ Mine'.trim <= First(log')
    BY <1>6, <1>16, <1>17, <1>21 DEF base, trim
  <2> QED
    BY <2>1, <2>2, <2>3 DEF SlotInv
<1>23. OpInv'
  BY <1>13, <1>16, <1>21 DEF OpInv, trim
<1> QED
  BY <1>13, <1>19, <1>20, <1>22, <1>23 DEF IInv, UpInv

-----------------------------------------------------------------------------
\* The theorems.
LEMMA Beginning == Init => IInv
<1> SUFFICES ASSUME Init PROVE IInv
  OBVIOUS
<1>1. /\ files = [g \in Gens |-> Absent] /\ slots = [i \in {0, 1} |-> Durable(NoMeta)]
      /\ log = Closed /\ op = Idle /\ status = "down" /\ fsync \in Policies
      /\ ids = 0 /\ downs = 0 /\ hist = <<>> /\ stable = 0 /\ promised = {}
  BY DEF Init
<1>2. 0 \in 0 .. MaxAppends /\ 0 \in 0 .. MaxDowns /\ 0 \in Gens
  BY SegLogAssumption DEF Gens
<1>3. TypeInv
  <2>1. files = [g \in Gens |-> files[g]] /\ \A g \in Gens : GenOK(files[g])
    BY <1>1, PastNone
  <2>2. hist \in Seq(Ids) /\ stable \in 0 .. Len(hist) /\ stable = Len(hist)
    BY <1>1
  <2> QED
    BY <1>1, <1>2, <2>1, <2>2 DEF TypeInv
<1>4. PromiseInv
  BY <1>1 DEF PromiseInv
<1>5. DownInv
  <2>1. \A m : Durable(m) = Durable(Durable(m).val) /\ Durable(m).val = m
    BY DEF Durable
  <2>2. (0 % 2) = 0 /\ ((0 + 1) % 2) = 1
    OBVIOUS
  <2>3. slots[0] = Durable(NoMeta) /\ slots[1] = Durable(NoMeta)
        /\ slots = [i \in {0, 1} |-> slots[i]]
    BY <1>1
  <2>4. Quiet(slots, 0)
    BY <2>1, <2>2, <2>3, NoMetaIn DEF Quiet, HeaderAt, Older
  <2>5. slots[0 % 2].val = NoMeta /\ files[NoMeta.gen] = Absent
    BY <1>1, <1>2, <2>1, <2>2, <2>3, NoMetaIn
  <2>6. Survives(NoMeta, Absent, hist, stable)
    BY <1>1, NoMetaIn DEF Survives
  <2>7. Holds(slots[0 % 2].val, files[slots[0 % 2].val.gen])
    BY <1>1, <2>5, <2>6 DEF Holds
  <2> QED
    BY <1>1, <2>4, <2>7 DEF DownInv
<1> QED
  BY <1>1, <1>3, <1>4, <1>5 DEF IInv

\* Nothing changes.
LEMMA Stuttering == IInv /\ UNCHANGED vars => IInv'
<1> SUFFICES ASSUME IInv, UNCHANGED vars PROVE IInv'
  OBVIOUS
<1>1. /\ files' = files /\ slots' = slots /\ log' = log /\ op' = op /\ status' = status
      /\ fsync' = fsync /\ ids' = ids /\ downs' = downs /\ hist' = hist /\ stable' = stable
      /\ promised' = promised
  BY DEF vars
<1>2. TypeInv' /\ PromiseInv'
  BY <1>1 DEF IInv, TypeInv, PromiseInv
<1>3. status' = "down" => DownInv'
  BY <1>1 DEF IInv, DownInv, Holds
<1>4. ASSUME status' = "up" PROVE UpInv'
  <2>1. Cur' = Cur /\ Mine' = Mine /\ Coming' = Coming /\ (Pending' <=> Pending)
    BY <1>1 DEF Cur, Mine, Coming, Pending
  <2>2. LogInv' /\ SlotInv'
    BY <1>1, <1>4, <2>1 DEF IInv, UpInv, LogInv, SlotInv, Sound
  <2>3. OpInv'
    <3>1. OpInv
      BY <1>1, <1>4 DEF IInv, UpInv
    <3>2. (Writes' <=> Writes) /\ (Syncs' <=> Syncs) /\ (Commits' <=> Commits)
      BY <1>1, <2>1 DEF Writes, Syncs, Commits
    <3>3. (Copies' <=> Copies) /\ (Switches' <=> Switches)
      BY <1>1, <2>1 DEF Copies, Copied, Switches
    <3> QED
      BY <1>1, <2>1, <3>1, <3>2, <3>3 DEF OpInv
  <2> QED
    BY <2>2, <2>3 DEF UpInv
<1> QED
  BY <1>2, <1>3, <1>4 DEF IInv

\* Every step keeps the invariant.
LEMMA Steps == IInv /\ [Next]_vars => IInv'
<1> SUFFICES ASSUME IInv, [Next]_vars PROVE IInv'
  OBVIOUS
<1>1. CASE \E size \in Sizes : AppendStart(size, FALSE)
  <2>1. PICK size \in Sizes : AppendStart(size, FALSE)
    BY <1>1
  <2>2. size \in 1 .. SegCells
    BY SegLogAssumption
  <2> QED
    BY <2>1, <2>2, AppendStartKeeps
<1>2. CASE AppendStart(1, TRUE)
  <2>1. 1 \in 1 .. SegCells
    BY SegLogAssumption
  <2> QED
    BY <1>2, <2>1, AppendStartKeeps
<1>3. CASE \E n \in 1 .. MaxAppends : TrimFront(n)
  BY <1>3, TrimFrontKeeps
<1>4. CASE Open \/ SetBlobThreshold \/ Close \/ Crash
  BY <1>4, OpenKeeps, SetBlobThresholdKeeps, CloseKeeps, CrashKeeps
<1>5. CASE WriteRecord \/ FinishAppend \/ Sync
  BY <1>5, WriteRecordKeeps, FinishAppendKeeps, SyncKeeps
<1>6. CASE Snapshot \/ Commit
  BY <1>6, SnapshotKeeps, CommitKeeps
<1>7. CASE CompactStart \/ CompactCopy \/ CompactHeader \/ CompactSwitch \/ CompactRemove
  BY <1>7, CompactStartKeeps, CompactCopyKeeps, CompactHeaderKeeps, CompactSwitchKeeps,
     CompactRemoveKeeps
<1>8. CASE UNCHANGED vars
  BY <1>8, Stuttering
<1> QED
  BY <1>1, <1>2, <1>3, <1>4, <1>5, <1>6, <1>7, <1>8 DEF Next

(* The index in memory is that of the files, the header on the medium, and *)
(* the one that is being written, find files that hold the history, and a  *)
(* crash leaves no other header: through every step of the log.            *)
THEOREM Invariance == Spec => []IInv
BY Beginning, Steps, PTL DEF Spec

(* Positions stay inside the segments and offsets below next: the rotation *)
(* of emq_log_append_ex writes no record over the end of a segment.        *)
THEOREM TypeCorrectness == Spec => []TypeOK
<1>1. ASSUME IInv PROVE TypeOK
  <2>1. TypeInv
    BY <1>1 DEF IInv
  <2>2. ASSUME NEW g \in Gens, NEW i \in DOMAIN files[g].segs
        PROVE  /\ files[g].segs[i].synced <= Len(files[g].segs[i].cells)
               /\ Len(files[g].segs[i].cells) <= SegCells
    BY <2>1, <2>2 DEF TypeInv, GenOK
  <2>3. ASSUME status = "up"
        PROVE  /\ Len(log.used) = Len(Cur.segs)
               /\ \A i \in DOMAIN log.used : log.used[i] <= Len(Cur.segs[i].cells)
               /\ \A i \in DOMAIN log.entries : log.entries[i].off < log.next
    <3>1. /\ log.used = Lengths(Cur) /\ GenOK(Cur) /\ Tells(log, hist) /\ First(log) \in Nat
          /\ log.next \in Nat
      BY <1>1, <2>3, UpFacts
    <3>2. Len(Cur.segs) \in Nat /\ DOMAIN Cur.segs = 1 .. Len(Cur.segs)
      BY <3>1 DEF GenOK
    <3>3. Len(log.used) = Len(Cur.segs) /\ DOMAIN log.used = 1 .. Len(Cur.segs)
          /\ \A i \in 1 .. Len(Cur.segs) : log.used[i] = Len(Cur.segs[i].cells)
      BY <3>1, <3>2 DEF Lengths
    <3>4. \A i \in DOMAIN log.used : log.used[i] <= Len(Cur.segs[i].cells)
      <4> TAKE i \in DOMAIN log.used
      <4>1. i \in 1 .. Len(Cur.segs) /\ Len(Cur.segs[i].cells) \in Nat
        BY <3>1, <3>3, SegOK
      <4> QED
        BY <3>3, <4>1
    <3>5. \A i \in DOMAIN log.entries : log.entries[i].off < log.next
      <4> DEFINE e == log.entries
                 from == First(log)
                 next == log.next
      <4>1. /\ e \in Seq(EntryRec) /\ Len(e) = next - from
            /\ \A k \in 1 .. Len(e) : e[k].off = from + k - 1
        BY <3>1 DEF Tells
      <4>2. from \in Nat /\ next \in Nat
        BY <3>1
      <4> HIDE DEF e, from, next
      <4>3. DOMAIN e = 1 .. Len(e) /\ Len(e) \in Nat
        BY <4>1
      <4>4. \A i \in DOMAIN e : e[i].off < next
        BY <4>1, <4>2, <4>3
      <4> QED
        BY <4>4 DEF e, next
    <3> QED
      BY <3>3, <3>4, <3>5
  <2>4. ASSUME status = "down" PROVE DOMAIN log.entries = {}
    BY <1>1, <2>4 DEF IInv, DownInv, Closed
  <2>5. status \in {"down", "up"}
    BY <2>1 DEF TypeInv
  <2>6. \A i \in DOMAIN log.entries : log.entries[i].off < log.next
    BY <2>3, <2>4, <2>5
  <2> QED
    BY <2>1, <2>2, <2>3, <2>5, <2>6 DEF TypeOK, TypeInv
<1> QED
  BY <1>1, Invariance, PTL

(* A message whose append was acknowledged under EMQ_FSYNC_EVERY_WRITE, or *)
(* that a sync, snapshot or compaction covered, is found at its offset     *)
(* after any number of crashes and restarts, wherever they strike, until   *)
(* it is trimmed.                                                          *)
THEOREM NothingPromisedIsLost == Spec => []AckedSurvives
<1>1. ASSUME IInv PROVE AckedSurvives
  <2> SUFFICES ASSUME status = "up", NEW p \in promised
               PROVE  p \in { <<e.off, e.id>> : e \in ToSet(log.entries) }
    BY DEF AckedSurvives
  <2>1. /\ TypeInv /\ PromiseInv /\ LogInv /\ Tells(log, hist) /\ First(log) \in Nat
        /\ log.next = Len(hist) /\ Len(hist) \in Nat /\ stable \in Nat /\ stable <= Len(hist)
    BY <1>1, UpFacts
  <2>2. /\ p = <<p[1], p[2]>> /\ p[1] \in Nat /\ p[1] < stable /\ hist[p[1] + 1] = p[2]
        /\ First(log) <= p[1]
    BY <2>1 DEF TypeInv, PromiseInv, LogInv
  <2>3. PICK k \in Nat : k = p[1] - First(log) + 1
    BY <2>1, <2>2
  <2>4. /\ Len(log.entries) = log.next - First(log) /\ log.entries \in Seq(EntryRec)
        /\ \A j \in 1 .. Len(log.entries) : /\ log.entries[j].off = First(log) + j - 1
                                            /\ log.entries[j].id = hist[First(log) + j]
    BY <2>1 DEF Tells
  <2>5. k \in 1 .. Len(log.entries) /\ First(log) + k - 1 = p[1] /\ First(log) + k = p[1] + 1
    BY <2>1, <2>2, <2>3, <2>4
  <2>6. log.entries[k].off = p[1] /\ log.entries[k].id = p[2]
    BY <2>2, <2>4, <2>5
  <2>7. log.entries[k] \in ToSet(log.entries)
    BY <2>4, <2>5 DEF ToSet
  <2> QED
    BY <2>2, <2>6, <2>7
<1> QED
  BY <1>1, Invariance, PTL

(* Every message accepted and not trimmed is found at its offset, and its  *)
(* record, read where emq_log_find says, holds that message.               *)
THEOREM IndexIsRight == Spec => []IndexMatchesFiles
<1>1. ASSUME IInv PROVE IndexMatchesFiles
  <2> SUFFICES ASSUME status = "up"
               PROVE  /\ log.next = Len(hist)
                      /\ [k \in DOMAIN log.entries |-> log.entries[k].id]
                           = SubSeq(hist, RetainedStart + 1, log.next)
                      /\ log.next - log.base <= Len(Entries(Cur, log.base))
                      /\ log.entries = SubSeq(Entries(Cur, log.base),
                                RetainedStart - log.base + 1, log.next - log.base)
    BY DEF IndexMatchesFiles
  <2> DEFINE from == First(log)
             next == log.next
             s == log.entries
             more == IF op.at = "sync" THEN 1 ELSE 0
  <2>1. /\ log \in LogRec /\ GenOK(Cur) /\ LogInv /\ hist \in Seq(Ids) /\ Len(hist) \in Nat
        /\ Survives(Mine, Cur, hist, stable) /\ Mine.base = log.base /\ Mine.trim <= from
        /\ next = Len(hist) /\ Tells(log, hist) /\ from \in Nat /\ from <= next
        /\ RetainedStart = from
    BY <1>1, UpFacts
  <2>2. Indexes(log, Cur, more) /\ more \in Nat
    BY <2>1 DEF LogInv
  <2> HIDE DEF more
  <2>3. IsIndex(log.entries, Cur, log.base, First(log), log.next)
    BY <2>1, <2>2, IndexesTell
  <2>4. log.entries = SubSeq(Entries(Cur, log.base), from - log.base + 1, log.next - log.base)
    BY <2>3 DEF IsIndex
  <2>7. log.next - log.base <= Len(Entries(Cur, log.base))
    <3>1. Cur.segs # <<>> /\ Count(Cur) = log.next - log.base + more
      BY <2>2 DEF Indexes
    <3>2. log.base \in Nat /\ log.next \in Nat
      BY <2>1 DEF LogRec
    <3>3. Len(Entries(Cur, log.base)) = Count(Cur)
      BY <2>1, <3>1, <3>2, EntriesAre
    <3> QED
      BY <2>2, <3>1, <3>2, <3>3
  <2>5. s \in Seq(EntryRec) /\ Len(s) = next - from /\ \A k \in 1 .. Len(s) : s[k].id = hist[from + k]
    BY <2>1 DEF Tells
  <2> HIDE DEF from, next, s
  <2>6. [k \in DOMAIN s |-> s[k].id] = SubSeq(hist, from + 1, next)
    <3>1. PICK n \in Nat : n = next - from
      BY <2>1
    <3>2. DOMAIN s = 1 .. n
      BY <2>5, <3>1
    <3>3. SubSeq(hist, from + 1, next) = [k \in 1 .. n |-> hist[from + k]]
      <4>1. /\ SubSeq(hist, from + 1, next) \in Seq(Ids) /\ Len(SubSeq(hist, from + 1, next)) = n
            /\ \A k \in 1 .. n : SubSeq(hist, from + 1, next)[k] = hist[from + k]
        BY <2>1, <3>1
      <4> DEFINE t == SubSeq(hist, from + 1, next)
      <4>3. t \in Seq(Ids) /\ Len(t) = n
        BY <4>1
      <4>2. t = [k \in 1 .. n |-> t[k]]
        <5> HIDE DEF t
        <5> QED
          BY <4>3, <3>1
      <4> QED
        BY <4>1, <4>2
    <3>4. [k \in DOMAIN s |-> s[k].id] = [k \in 1 .. n |-> hist[from + k]]
      BY <2>5, <3>1, <3>2
    <3> QED
      BY <3>3, <3>4
  <2> QED
    BY <2>1, <2>4, <2>6, <2>7 DEF from, next, s
<1> QED
  BY <1>1, Invariance, PTL

(* Wherever a crash strikes, the header that recovery loads names files    *)
(* that are there: emq_log_open does not fail.                             *)
THEOREM AlwaysOpens == Spec => []Opens
<1>1. IInv => Opens
  BY DEF IInv, TypeInv, Opens
<1> QED
  BY <1>1, Invariance, PTL
=============================================================================
