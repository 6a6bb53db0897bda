------------------------------- MODULE SegLog -------------------------------
(***************************************************************************)
(* The persistent log of a queue (src/core/src/core/emq_log.c) in its file *)
(* modes: records appended to segments that rotate, payloads above a       *)
(* threshold kept in a blob file, a header of two alternating slots that   *)
(* names the current generation of files, snapshots, compaction into a     *)
(* fresh generation, and recovery.  Every operation holds the log's mutex, *)
(* so only a crash comes between its steps.                                *)
(*                                                                         *)
(* A file is a sequence of cells of which a prefix is on the medium; the   *)
(* rest is in the page cache, and a crash keeps a prefix of it.            *)
(***************************************************************************)
EXTENDS Naturals, FiniteSets, FiniteSetsExt, SequencesExt

CONSTANTS SegCells,     \* EMQ_SEGMENT_BYTES, in cells
          Sizes,        \* cells of a record
          Policies,     \* the emq_fsync_policy values a queue may be given
          MaxAppends, MaxDowns, MaxGen, MaxSeq      \* bounds of the exploration

ASSUME SegLogAssumption ==
    /\ SegCells \in Nat \ {0} /\ Sizes \subseteq 1 .. SegCells
    /\ Policies \subseteq {"none", "every_write", "interval"}
    /\ {MaxAppends, MaxDowns, MaxGen, MaxSeq} \subseteq Nat

VARIABLES files,    \* per generation, its segment files and its blob file
          slots,    \* the two slots of log.meta
          log,      \* struct emq_log, while it is open
          op,       \* the operation under way
          status,   \* "down", "up", or "failed": emq_log_open returned an error
          fsync,    \* the queue's policy
          ids,      \* messages offered so far
          downs,    \* closes and crashes so far
          hist,     \* history: the messages accepted and not lost, by offset
          stable,   \* history: those below this offset are promised
          promised  \* history: the promised and untrimmed, as <<offset, id>>

vars == <<files, slots, log, op, status, fsync, ids, downs, hist, stable, promised>>

Gens == 0 .. MaxGen + 1
Ids == 1 .. MaxAppends
Idle == [at |-> "idle"]

(* ------------------------------ the files ------------------------------ *)

NewFile == [cells |-> <<>>, synced |-> 0]
Absent == [segs |-> <<>>, blob |-> NewFile]
Fresh == [segs |-> <<NewFile>>, blob |-> NewFile]

Synced(f) == [f EXCEPT !.synced = Len(f.cells)]
AllSynced(g) == [segs |-> [i \in DOMAIN g.segs |-> Synced(g.segs[i])],
                 blob |-> Synced(g.blob)]

SyncedAt(g, seg) == [g EXCEPT !.segs[seg] = Synced(@), !.blob = Synced(@)]

(* What a write of these cells at this position makes of a file. *)
Overwrite(f, pos, cells) ==
    [cells  |-> SubSeq(f.cells, 1, pos) \o cells
                  \o SubSeq(f.cells, pos + Len(cells) + 1, Len(f.cells)),
     synced |-> Min({f.synced, pos})]

(* A record: its message, its size, and the place of its blob (0: inline). *)
CellsOf(r) == [k \in 1 .. r.size |-> [rec |-> r, part |-> k]]

Payload(r, blob) == IF r.blob = 0 THEN r.id ELSE blob[r.blob]

(* A place in a generation is a segment and a position in it. *)
RecordAt(g, at) == g.segs[at[1]].cells[at[2] + 1].rec

(* emq_record_decode, and emq_log_blob_read for a record with a blob. *)
Decodes(g, at) ==
    LET cells == g.segs[at[1]].cells
        r == RecordAt(g, at)
    IN /\ at[2] < Len(cells) /\ at[2] + r.size <= Len(cells)
       /\ SubSeq(cells, at[2] + 1, at[2] + r.size) = CellsOf(r)
       /\ r.blob <= Len(g.blob.cells)

(* Reading goes on here, or, at a segment's end, with the next segment     *)
(* that is not empty.                                                      *)
Onward(g, at) ==
    LET rest == { i \in DOMAIN g.segs : i > at[1] /\ g.segs[i].cells # <<>> }
    IN IF at[2] < Len(g.segs[at[1]].cells) THEN at
       ELSE IF rest # {} THEN <<Min(rest), 0>>
       ELSE <<Len(g.segs), Len(Last(g.segs).cells)>>

After(g, at) == <<at[1], at[2] + RecordAt(g, at).size>>

(* emq_log_recover: the places of a generation's records in order, and the *)
(* place where they end, at the first thing that is not a record.  There   *)
(* are no more of them than places.                                        *)
ReadOn(g, w) ==
    IF Decodes(g, Last(w)) THEN Append(w, Onward(g, After(g, Last(w)))) ELSE w

Walk(g) ==
    LET most == Len(g.segs) * (SegCells + 1)
        read[n \in 0 .. most] ==
          IF n = 0 THEN <<Onward(g, <<1, 0>>)>> ELSE ReadOn(g, read[n - 1])
    IN read[most]

Entry(g, at, off) ==
    [off |-> off, seg |-> at[1], pos |-> at[2], id |-> Payload(RecordAt(g, at), g.blob.cells)]

Entries(g, base) ==
    IF g.segs = <<>> THEN <<>>
    ELSE LET w == Walk(g) IN [k \in 1 .. Len(w) - 1 |-> Entry(g, w[k], base + k - 1)]

EndOfLog(g) == Last(Walk(g))

\* Mutant: leaves the torn record where it is.
Recovered_keeps_tail(g) == [g EXCEPT !.segs = SubSeq(@, 1, EndOfLog(g)[1])]

(* The files once recovery has cut what follows. *)
Recovered(g) ==
    LET end == EndOfLog(g)
        last == g.segs[end[1]]
    IN [g EXCEPT !.segs = Append(SubSeq(@, 1, end[1] - 1),
          [cells |-> SubSeq(last.cells, 1, end[2]), synced |-> Min({last.synced, end[2]})])]

(* The entries that are not trimmed. *)
From(entries, off) ==
    SubSeq(entries, Cardinality({ i \in DOMAIN entries : entries[i].off < off }) + 1, Len(entries))

(* ------------------------------ the header ----------------------------- *)

NoMeta == [seq |-> 0, gen |-> 0, base |-> 0, trim |-> 0]
Durable(m) == [val |-> m, old |-> NoMeta, synced |-> TRUE]

(* emq_log_load_meta: the valid slot of the higher sequence. *)
Newest(metas) == CHOOSE m \in metas : \A n \in metas : n.seq <= m.seq
Header == Newest({slots[0].val, slots[1].val})
SyncedHeader == Newest({IF slots[i].synced THEN slots[i].val ELSE NoMeta : i \in {0, 1}})

\* Mutant: always writes the same slot.
WriteMeta_one_slot(gen, base, trim) ==
    slots' = [slots EXCEPT ![1] =
         [val |-> [seq |-> log.seq + 1, gen |-> gen, base |-> base, trim |-> trim],
          old |-> slots[1].val, synced |-> FALSE]]

(* emq_log_write_meta up to its sync. *)
WriteMeta(gen, base, trim) ==
    LET i == (log.seq + 1) % 2
    IN slots' = [slots EXCEPT ![i] =
         [val |-> [seq |-> log.seq + 1, gen |-> gen, base |-> base, trim |-> trim],
          old |-> slots[i].val, synced |-> FALSE]]

(* The sync that makes the slot being written count. *)
SyncMeta ==
    LET i == (log.seq + 1) % 2
    IN slots' = [slots EXCEPT ![i] = Durable(slots[i].val)]

(* ------------------------------- the log ------------------------------- *)

Closed == [gen |-> 0, base |-> 0, trim |-> 0, seq |-> 0, next |-> 0,
           entries |-> <<>>, used |-> <<>>]

Cur == files[log.gen]
RetainedStart == IF log.entries = <<>> THEN log.next ELSE log.entries[1].off
UpAnd(at) == status = "up" /\ op.at = at

Init ==
    /\ files = [g \in Gens |-> Absent]
    /\ slots = [i \in {0, 1} |-> Durable(NoMeta)]
    /\ log = Closed /\ op = Idle /\ status = "down"
    /\ fsync \in Policies
    /\ ids = 0 /\ downs = 0 /\ hist = <<>> /\ stable = 0 /\ promised = {}

(* --------------------------- open, close, crash ------------------------ *)

(* emq_log_open and the header write emq_registry_create follows it with.  *)
Open ==
    /\ status = "down"
    /\ LET m == Header
           g == files[m.gen]
           h == IF g = Absent THEN Fresh ELSE Recovered(g)
           all == Entries(h, m.base)
       IN \/ /\ g = Absent /\ m # NoMeta
             /\ status' = "failed"
             /\ UNCHANGED <<files, log, op>>
          \/ /\ g = Absent => m = NoMeta
             /\ files' = [files EXCEPT ![m.gen] = h]
             /\ log' = [gen |-> m.gen, base |-> m.base, trim |-> m.trim, seq |-> m.seq,
                        next |-> Max({m.base + Len(all), m.trim}),
                        entries |-> From(all, m.trim),
                        used |-> [i \in DOMAIN h.segs |-> Len(h.segs[i].cells)]]
             /\ op' = [at |-> "opened"]
             /\ status' = "up"
    /\ UNCHANGED <<slots, fsync, ids, downs, hist, stable, promised>>

SetBlobThreshold ==
    /\ UpAnd("opened") /\ log.seq < MaxSeq
    /\ WriteMeta(log.gen, log.base, log.trim)
    /\ op' = [at |-> "commit", snapshot |-> FALSE]
    /\ UNCHANGED <<files, log, status, fsync, ids, downs, hist, stable, promised>>

GoDown ==
    /\ downs < MaxDowns
    /\ downs' = downs + 1
    /\ log' = Closed /\ op' = Idle /\ status' = "down"

(* emq_log_close syncs nothing; the page cache outlives the process. *)
Close ==
    /\ UpAnd("idle")
    /\ GoDown
    /\ UNCHANGED <<files, slots, fsync, ids, hist, stable, promised>>

(* What a crash may leave of a file, of a generation, of a header slot. *)
Cuts(f) == { [cells |-> SubSeq(f.cells, 1, n), synced |-> n] : n \in f.synced .. Len(f.cells) }
GenCuts(g) ==
    { [segs |-> s, blob |-> b] :
        s \in { t \in [DOMAIN g.segs -> UNION { Cuts(g.segs[i]) : i \in DOMAIN g.segs }] :
                  \A i \in DOMAIN t : t[i] \in Cuts(g.segs[i]) },
        b \in Cuts(g.blob) }
SlotCuts(s) == { Durable(m) : m \in IF s.synced THEN {s.val} ELSE {s.val, s.old, NoMeta} }

(* The process dies in the middle of anything, or the power fails. *)
Crash ==
    /\ status # "failed"
    /\ GoDown
    /\ LET dirty == { g \in Gens : files[g] # AllSynced(files[g]) }
       IN \E cut \in [dirty -> UNION { GenCuts(files[g]) : g \in dirty }],
             a \in SlotCuts(slots[0]), b \in SlotCuts(slots[1]) :
            LET m == Newest({a.val, b.val})
                g == IF m.gen \in dirty THEN cut[m.gen] ELSE files[m.gen]
                left == From(Entries(g, m.base), m.trim)
            IN /\ \A i \in dirty : cut[i] \in GenCuts(files[i])
               /\ files' = [i \in Gens |-> IF i \in dirty THEN cut[i] ELSE files[i]]
               /\ slots' = [i \in {0, 1} |-> <<a, b>>[i + 1]]
               /\ hist' = SubSeq(hist, 1, m.trim) \o [k \in DOMAIN left |-> left[k].id]
    /\ stable' = Len(hist')
    /\ UNCHANGED <<fsync, ids, promised>>

(* ---------------------------- append and sync -------------------------- *)

Promise(entries, next) ==
    /\ stable' = next
    /\ promised' = promised \cup { <<e.off, e.id>> : e \in ToSet(entries) }

\* Mutant: rotates a cell too late.
Place_late(used, size) ==
    LET n == Len(used)
    IN IF used[n] # 0 /\ used[n] > SegCells - size + 1
         THEN [seg |-> n + 1, pos |-> 0]
         ELSE [seg |-> n, pos |-> used[n]]

(* emq_log_rotate_if_needed: where a record of this size goes. *)
Place(used, size) ==
    LET n == Len(used)
    IN IF used[n] # 0 /\ used[n] > SegCells - size
         THEN [seg |-> n + 1, pos |-> 0]
         ELSE [seg |-> n, pos |-> used[n]]

Put(g, at, cells) ==
    IF at.seg > Len(g.segs)
      THEN [g EXCEPT !.segs = Append(@, Overwrite(NewFile, 0, cells))]
      ELSE [g EXCEPT !.segs[at.seg] = Overwrite(@, at.pos, cells)]

UsedAfter(used, at, size) ==
    IF at.seg > Len(used) THEN Append(used, size)
                          ELSE [used EXCEPT ![at.seg] = at.pos + size]

(* emq_log_append_ex up to the record: a large payload goes to the blob    *)
(* file first, and is synced there when every write is.                    *)
AppendStart(size, big) ==
    /\ UpAnd("idle") /\ ids < MaxAppends
    /\ ids' = ids + 1
    /\ LET f == Cur.blob
           g == [f EXCEPT !.cells = Append(@, ids + 1)]
       IN /\ files' = IF ~big THEN files ELSE
                        [files EXCEPT ![log.gen].blob =
                          IF fsync = "every_write" THEN Synced(g) ELSE g]
          /\ op' = [at |-> "write",
                    rec |-> [id |-> ids + 1, size |-> size,
                             blob |-> IF big THEN Len(g.cells) ELSE 0]]
    /\ UNCHANGED <<slots, log, status, fsync, downs, hist, stable, promised>>

WriteRecord ==
    /\ UpAnd("write")
    /\ LET at == Place(log.used, op.rec.size) IN
        /\ files' = [files EXCEPT ![log.gen] = Put(@, at, CellsOf(op.rec))]
        /\ log' = [log EXCEPT !.used = UsedAfter(@, at, op.rec.size)]
        /\ op' = [at |-> "sync", rec |-> op.rec, seg |-> at.seg, pos |-> at.pos]
    /\ UNCHANGED <<slots, status, fsync, ids, downs, hist, stable, promised>>

(* The sync the policy asks for, of the current segment and the blob file  *)
(* ("interval" syncs when 100 ms have passed), and the entry.              *)
FinishAppend ==
    /\ UpAnd("sync")
    /\ \E sync \in BOOLEAN :
        /\ fsync = "every_write" => sync
        /\ fsync = "none" => ~sync
        /\ files' = IF ~sync THEN files ELSE [files EXCEPT ![log.gen] = SyncedAt(@, op.seg)]
    /\ log' = [log EXCEPT !.next = @ + 1,
                 !.entries = Append(@, [off |-> log.next, seg |-> op.seg, pos |-> op.pos,
                                        id |-> op.rec.id])]
    /\ IF fsync = "every_write" THEN Promise(log'.entries, log'.next)
                                ELSE UNCHANGED <<stable, promised>>
    /\ hist' = Append(hist, op.rec.id)
    /\ op' = Idle
    /\ UNCHANGED <<slots, status, fsync, ids, downs>>

Sync ==
    /\ UpAnd("idle")
    /\ files' = [files EXCEPT ![log.gen] = AllSynced(@)]
    /\ Promise(log.entries, log.next)
    /\ UNCHANGED <<slots, log, op, status, fsync, ids, downs, hist>>

(* ---------------------- trim, snapshot and compaction ------------------ *)

TrimFront(n) ==
    /\ UpAnd("idle") /\ n \in RetainedStart + 1 .. log.next
    /\ LET left == From(log.entries, n)
       IN log' = [log EXCEPT !.entries = left,
                             !.trim = IF left = <<>> THEN log.next ELSE left[1].off]
    /\ promised' = { p \in promised : p[1] >= n }
    /\ UNCHANGED <<files, slots, op, status, fsync, ids, downs, hist, stable>>

(* emq_log_snapshot: sync the files, write the header, sync the header. *)
Snapshot ==
    /\ UpAnd("idle") /\ log.seq < MaxSeq
    /\ files' = [files EXCEPT ![log.gen] = AllSynced(@)]
    /\ log' = [log EXCEPT !.trim = RetainedStart]
    /\ WriteMeta(log.gen, log.base, RetainedStart)
    /\ op' = [at |-> "commit", snapshot |-> TRUE]
    /\ UNCHANGED <<status, fsync, ids, downs, hist, stable, promised>>

Commit ==
    /\ UpAnd("commit")
    /\ SyncMeta
    /\ log' = [log EXCEPT !.seq = @ + 1]
    /\ IF op.snapshot THEN Promise(log.entries, log.next) ELSE UNCHANGED <<stable, promised>>
    /\ op' = Idle
    /\ UNCHANGED <<files, status, fsync, ids, downs, hist>>

(* emq_log_compact: leftovers of the next generation are removed and it is *)
(* created; the retained entries are copied into it; it is synced and the  *)
(* header written; once that is synced the log moves over, and the old     *)
(* generation is removed.                                                  *)
CompactStart ==
    /\ UpAnd("idle") /\ log.gen < MaxGen /\ log.seq < MaxSeq
    /\ files' = [files EXCEPT ![log.gen + 1] = Fresh]
    /\ op' = [at |-> "copy", locs |-> <<>>, used |-> <<0>>]
    /\ UNCHANGED <<slots, log, status, fsync, ids, downs, hist, stable, promised>>

CompactCopy ==
    /\ UpAnd("copy") /\ Len(op.locs) < Len(log.entries)
    /\ LET e == log.entries[Len(op.locs) + 1]
           old == RecordAt(Cur, <<e.seg, e.pos>>)
           id == Payload(old, Cur.blob.cells)
           g == files[log.gen + 1]
           blob == IF old.blob = 0 THEN g.blob
                                   ELSE [g.blob EXCEPT !.cells = Append(@, id)]
           r == [id |-> id, size |-> old.size,
                 blob |-> IF old.blob = 0 THEN 0 ELSE Len(blob.cells)]
           at == Place(op.used, r.size)
       IN /\ files' = [files EXCEPT ![log.gen + 1] =
                         Put([g EXCEPT !.blob = blob], at, CellsOf(r))]
          /\ op' = [op EXCEPT !.locs = Append(@, at), !.used = UsedAfter(@, at, r.size)]
    /\ UNCHANGED <<slots, log, status, fsync, ids, downs, hist, stable, promised>>

\* Mutant: writes the header before the new generation is synced.
CompactHeader_first ==
    /\ UpAnd("copy") /\ Len(op.locs) = Len(log.entries)
    /\ log' = [log EXCEPT !.trim = RetainedStart]
    /\ WriteMeta(log.gen + 1, RetainedStart, RetainedStart)
    /\ op' = [op EXCEPT !.at = "switch"]
    /\ UNCHANGED <<files, status, fsync, ids, downs, hist, stable, promised>>

CompactHeader ==
    /\ UpAnd("copy") /\ Len(op.locs) = Len(log.entries)
    /\ files' = [files EXCEPT ![log.gen + 1] = AllSynced(@)]
    /\ log' = [log EXCEPT !.trim = RetainedStart]
    /\ WriteMeta(log.gen + 1, RetainedStart, RetainedStart)
    /\ op' = [op EXCEPT !.at = "switch"]
    /\ UNCHANGED <<status, fsync, ids, downs, hist, stable, promised>>

\* Mutant: does not wait for the header to be on the medium.
CompactSwitch_unsynced ==
    /\ UpAnd("switch")
    /\ log' = [log EXCEPT !.gen = @ + 1, !.base = RetainedStart, !.seq = @ + 1,
                 !.used = op.used,
                 !.entries = [k \in DOMAIN @ |->
                   [off |-> @[k].off, seg |-> op.locs[k].seg,
                    pos |-> op.locs[k].pos, id |-> @[k].id]]]
    /\ op' = [at |-> "remove"]
    /\ UNCHANGED <<files, slots, status, fsync, ids, downs, hist, stable, promised>>

CompactSwitch ==
    /\ UpAnd("switch")
    /\ SyncMeta
    /\ log' = [log EXCEPT !.gen = @ + 1, !.base = RetainedStart, !.seq = @ + 1,
                 !.used = op.used,
                 !.entries = [k \in DOMAIN @ |->
                   [off |-> @[k].off, seg |-> op.locs[k].seg,
                    pos |-> op.locs[k].pos, id |-> @[k].id]]]
    /\ Promise(log.entries, log.next)
    /\ op' = [at |-> "remove"]
    /\ UNCHANGED <<files, status, fsync, ids, downs, hist>>

CompactRemove ==
    /\ UpAnd("remove")
    /\ files' = [files EXCEPT ![log.gen - 1] = Absent]
    /\ op' = Idle
    /\ UNCHANGED <<slots, log, status, fsync, ids, downs, hist, stable, promised>>

Next ==
    \/ Open \/ SetBlobThreshold \/ Close \/ Crash
    \/ \E size \in Sizes : AppendStart(size, FALSE)
    \/ AppendStart(1, TRUE)
    \/ WriteRecord \/ FinishAppend \/ Sync
    \/ \E n \in 1 .. MaxAppends : TrimFront(n)
    \/ Snapshot \/ Commit
    \/ CompactStart \/ CompactCopy \/ CompactHeader \/ CompactSwitch \/ CompactRemove

Spec == Init /\ [][Next]_vars
-----------------------------------------------------------------------------
(* Types, and the bounds the code keeps: positions inside the segments,    *)
(* offsets below next, one "used" for each open segment.                   *)
TypeOK ==
    /\ status \in {"down", "up", "failed"} /\ fsync \in Policies
    /\ ids \in 0 .. MaxAppends /\ downs \in 0 .. MaxDowns
    /\ hist \in Seq(Ids) /\ stable \in 0 .. Len(hist) /\ promised \subseteq (Nat \X Ids)
    /\ \A g \in Gens : \A i \in DOMAIN files[g].segs :
         /\ files[g].segs[i].synced <= Len(files[g].segs[i].cells)
         /\ Len(files[g].segs[i].cells) <= SegCells
    /\ status = "up" => /\ Len(log.used) = Len(Cur.segs)
                        /\ \A i \in DOMAIN log.used : log.used[i] <= Len(Cur.segs[i].cells)
    /\ \A i \in DOMAIN log.entries : log.entries[i].off < log.next

(* recovery_supervisor.c and emq_queue_sync: a message whose append was    *)
(* acknowledged under EMQ_FSYNC_EVERY_WRITE, or that a sync, snapshot or   *)
(* compaction covered, is in the log at its offset after any number of     *)
(* crashes and restarts, until it is trimmed.                              *)
AckedSurvives ==
    status = "up" => promised \subseteq { <<e.off, e.id>> : e \in ToSet(log.entries) }

(* emq_log_find, emq_log_read_payload: the index in memory agrees with what *)
(* was accepted and with the files, through rotation, recovery, overwriting *)
(* and compaction: every message accepted and not trimmed is found at its   *)
(* offset, and its record, read where the index says, holds that message.   *)
IndexMatchesFiles ==
    status = "up" =>
        /\ log.next = Len(hist)
        /\ [k \in DOMAIN log.entries |-> log.entries[k].id] = SubSeq(hist, RetainedStart + 1, log.next)
        /\ LET all == Entries(Cur, log.base) IN
            /\ log.next - log.base <= Len(all)
            /\ log.entries = SubSeq(all, RetainedStart - log.base + 1, log.next - log.base)

(* emq_log_open: wherever a crash strikes, the header names a generation   *)
(* whose files are there.                                                  *)
Opens == status # "failed"

Abstract == INSTANCE DurableLog WITH
    floor  <- SyncedHeader.trim,
    first  <- IF status = "up" THEN RetainedStart ELSE SyncedHeader.trim,
    kept   <- SubSeq(hist, SyncedHeader.trim + 1, Len(hist)),
    stable <- stable

(* The log implements DurableLog: no operation and no crash loses a        *)
(* promised message, brings back one trimmed before a completed snapshot   *)
(* or compaction, reorders what is left or gives a message another offset. *)
ImplementsDurableLog == Abstract!Spec
=============================================================================
