------------------------------ MODULE SegFaults ------------------------------
(***************************************************************************)
(* SegLog when a file operation may fail and the process goes on: a record *)
(* written in part, a sync that returns an error, a header that cannot be  *)
(* synced (src/core/src/core/emq_log.c returns the error to the caller).   *)
(***************************************************************************)
EXTENDS SegLog

CONSTANT Faults         \* of "short_write", "sync" and "meta_sync", those that may happen

(* The write stops half-way: the append returns an error and stands where  *)
(* it stood, but what it wrote is in the file.                             *)
ShortWrite ==
    /\ UpAnd("write") /\ "short_write" \in Faults
    /\ LET at == Place(log.used, op.rec.size) IN
        \E n \in 0 .. op.rec.size - 1 :
          /\ files' = [files EXCEPT ![log.gen] = Put(@, at, SubSeq(CellsOf(op.rec), 1, n))]
          /\ log' = [log EXCEPT !.used = UsedAfter(@, at, 0)]
    /\ op' = Idle
    /\ UNCHANGED <<slots, status, fsync, ids, downs, hist, stable, promised>>

(* That sync fails: the append returns an error after the segment's end    *)
(* has moved past the record.                                              *)
SyncFails ==
    /\ UpAnd("sync") /\ "sync" \in Faults /\ fsync # "none"
    /\ op' = Idle
    /\ UNCHANGED <<files, slots, log, status, fsync, ids, downs, hist, stable, promised>>

(* The header of a snapshot could not be synced. *)
CommitFails ==
    /\ UpAnd("commit") /\ "meta_sync" \in Faults
    /\ op' = Idle
    /\ UNCHANGED <<files, slots, log, status, fsync, ids, downs, hist, stable, promised>>

(* The header could not be synced: the new generation is removed again. *)
CompactFails ==
    /\ UpAnd("switch") /\ "meta_sync" \in Faults
    /\ files' = [files EXCEPT ![log.gen + 1] = Absent]
    /\ op' = Idle
    /\ UNCHANGED <<slots, log, status, fsync, ids, downs, hist, stable, promised>>

FaultyNext == Next \/ ShortWrite \/ SyncFails \/ CommitFails \/ CompactFails

FaultySpec == Init /\ [][FaultyNext]_vars
=============================================================================
