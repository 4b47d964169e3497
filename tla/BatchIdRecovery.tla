-------------------------- MODULE BatchIdRecovery --------------------------
(***************************************************************************)
(* Batch ids across crashes and restarts.  The BatchId column family of    *)
(* QuorumStoreDB (quorum_store_db.rs) keeps the last batch id per epoch;   *)
(* clean_and_get_batch_id(current_epoch) deletes older epochs' rows and    *)
(* returns the current one.  The BatchGenerator (not in this tree; spec    *)
(* 3 and 4.1) starts its BatchBuilder (utils.rs) at the recovered id + 1,  *)
(* sends AppendToBatch fragments under the builder's id, saves the id      *)
(* before it sends EndBatch, and take_summaries then increments the id.    *)
(* A crash may come between any two of these steps; the database survives  *)
(* it, the generator's memory does not.                                    *)
(***************************************************************************)
EXTENDS Naturals, FiniteSets
LOCAL INSTANCE FiniteSetsExt

CONSTANTS
    Epochs,       \* epochs the node may run in, a finite set of Nat
    MaxBatchId,   \* bound on the batch ids handed out
    MaxFrags,     \* fragments per batch, the final one included
    MaxCrashes,   \* bound on crashes
    None          \* no row in the BatchId column family

ASSUME Epochs \subseteq Nat /\ Epochs # {} /\ None \notin Nat

VARIABLES
    db,           \* the BatchId column family: epoch -> batch id | None
    epoch,        \* the epoch the node runs in (last started)
    up,           \* the generator task is running
    id,           \* BatchBuilder.id
    frags,        \* fragments of the current batch already sent
    saved,        \* save_batch_id of the current batch is done
    crashes,
    incarnation,  \* history: number of starts so far
    sentIds,      \* history: <<epoch, id, incarnation>> of every fragment sent
    endedIds      \* history: <<epoch, id>> of every EndBatch sent

vars == <<db, epoch, up, id, frags, saved, crashes, incarnation, sentIds, endedIds>>

TypeOK ==
    /\ db \in [Epochs -> 0..MaxBatchId \cup {None}]
    /\ epoch \in Epochs /\ up \in BOOLEAN
    /\ id \in 1..MaxBatchId + 1   \* BatchId 0 is never handed out
    /\ frags \in 0..MaxFrags - 1
    /\ saved \in BOOLEAN
    /\ endedIds \subseteq Epochs \X (1..MaxBatchId)

(* QuorumStoreDB::new: the database is created with its column families   *)
(* if missing, so a first start finds no BatchId row.                      *)
NewDb == [e \in Epochs |-> None]

Init ==
    /\ db = NewDb
    /\ epoch = CHOOSE e \in Epochs : \A f \in Epochs : e <= f
    /\ up = FALSE
    /\ id = 1 /\ frags = 0 /\ saved = FALSE
    /\ crashes = 0 /\ incarnation = 0
    /\ sentIds = {} /\ endedIds = {}

(* clean_and_get_batch_id(e): rows of older epochs are deleted (the        *)
(* assert current_epoch >= epoch holds: rows are only written for the      *)
(* epoch the node runs in, and a node never starts in an older epoch).     *)
(* delete_batch_id(epoch): one write that deletes the epoch's row.         *)
DeleteBatchId(rows, f) == [rows EXCEPT ![f] = None]

CleanedRows(e) ==
    FoldSet(LAMBDA f, rows : DeleteBatchId(rows, f), db,
            {f \in Epochs : db[f] # None /\ f < e})

(* A recovery that numbers a fresh epoch's batches from 0.                 *)
RecoveredIdZeroBased(row) == IF row = None THEN 0 ELSE row + 1

(* A recovery that resumes at the recovered id itself.                     *)
RecoveredIdNoIncrement(row) == IF row = None THEN 1 ELSE row

(* The first id after a start: max(persisted, 0) + 1.                      *)
RecoveredId(row) == IF row = None THEN 1 ELSE row + 1

(* The node (re)starts in epoch e, no older than the last one.             *)
Start(e) ==
    /\ ~up /\ e >= epoch
    /\ db' = CleanedRows(e)
    /\ id' = RecoveredId(db[e])
    /\ epoch' = e /\ up' = TRUE
    /\ frags' = 0 /\ saved' = FALSE
    /\ incarnation' = incarnation + 1
    /\ UNCHANGED <<crashes, sentIds, endedIds>>

(* AppendToBatch(txns, id): an intermediate fragment under the builder's id. *)
SendFragment ==
    /\ up /\ ~saved /\ id <= MaxBatchId /\ frags < MaxFrags - 1
    /\ sentIds' = sentIds \cup {<<epoch, id, incarnation>>}
    /\ frags' = frags + 1
    /\ UNCHANGED <<db, epoch, up, id, saved, crashes, incarnation, endedIds>>

(* save_batch_id(epoch, id), before EndBatch is sent.                      *)
SaveBatchId ==
    /\ up /\ ~saved /\ id <= MaxBatchId
    /\ db' = [db EXCEPT ![epoch] = id]
    /\ saved' = TRUE
    /\ UNCHANGED <<epoch, up, id, frags, crashes, incarnation, sentIds, endedIds>>

(* EndBatch(txns, id, ..) is sent, then take_summaries increments the id.  *)
SendEndBatch ==
    /\ up /\ saved
    /\ sentIds' = sentIds \cup {<<epoch, id, incarnation>>}
    /\ endedIds' = endedIds \cup {<<epoch, id>>}
    /\ id' = id + 1
    /\ frags' = 0 /\ saved' = FALSE
    /\ UNCHANGED <<db, epoch, up, crashes, incarnation>>

Crash ==
    /\ up /\ crashes < MaxCrashes
    /\ up' = FALSE
    /\ crashes' = crashes + 1
    /\ UNCHANGED <<db, epoch, id, frags, saved, incarnation, sentIds, endedIds>>

Next ==
    \/ \E e \in Epochs : Start(e)
    \/ SendFragment
    \/ SaveBatchId
    \/ SendEndBatch
    \/ Crash

Spec == Init /\ [][Next]_vars

------------------------------------------------------------------------------
(* Spec 8.7: within an epoch, every EndBatch carries a batch id above that *)
(* of every batch ended before it, in this run of the node or an earlier   *)
(* one: the id saved before the EndBatch survives any crash.               *)
EndedIdsIncrease ==
    [][SendEndBatch => \A eb \in endedIds : eb[1] = epoch => eb[2] < id]_vars

(* No batch id is used by two runs of the node in one epoch: peers'        *)
(* aggregators tell a source's batches apart by id alone.                  *)
BatchIdNotReused ==
    \A s, t \in sentIds : s[1] = t[1] /\ s[2] = t[2] => s[3] = t[3]

=============================================================================
