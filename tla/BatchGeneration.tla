-------------------------- MODULE BatchGeneration --------------------------
(***************************************************************************)
(* The BatchGenerator's life (not in this tree; spec 4.1 and 3) with both  *)
(* of the pieces of this tree it drives: its BatchBuilder (utils.rs, the   *)
(* operators of BatchBuilder) and the BatchId column family of             *)
(* QuorumStoreDB (quorum_store_db.rs, the operators of BatchIdRecovery).   *)
(* Transactions pulled from mempool are appended until one does not fit;   *)
(* a batch ends on that, or on a tick, and its id is saved before the      *)
(* EndBatch goes out.  The node may crash between any two steps: the       *)
(* database survives, the builder does not, and mempool, which keeps a     *)
(* transaction until it is committed, offers the lost batch's             *)
(* transactions again since no exclude list covers them any more.  The     *)
(* transaction that did not fit is not excluded by the next pull, so       *)
(* mempool offers it again (batch_generator_test.rs, the 1 + 8 = 9         *)
(* excluded transactions).                                                 *)
(***************************************************************************)
EXTENDS Naturals, Sequences, SequencesExt, FiniteSets

CONSTANTS
    Txns, SizeOf, MaxTxns, MaxBytes,   \* the builder's (BatchBuilder)
    Epochs, MaxBatchId, MaxCrashes,    \* the database's (BatchIdRecovery)
    None

VARIABLES
    builder,    \* the BatchBuilder value
    mempool,    \* transactions mempool may hand out (not excluded, not ended)
    appendedIn, \* history: the builder id each appended transaction went into
    db, epoch, up, crashes, endedIds,
    ending,     \* "no", or why the current batch is ending: "tick" | "full"
    delivered   \* history: transactions of every batch that ended

(* The commands sent to the coordinator, and the fragments' ids, are left  *)
(* out: BatchCoordinator and BatchIdRecovery check those.                  *)
B == INSTANCE BatchBuilder
R == INSTANCE BatchIdRecovery WITH id <- builder.id, frags <- 0, saved <- FALSE,
                                   MaxFrags <- 1, incarnation <- 0, sentIds <- {}

vars == <<builder, mempool, appendedIn, db, epoch, up, crashes, endedIds,
          ending, delivered>>

TypeOK ==
    /\ B!TypeOK /\ R!TypeOK
    /\ ending \in {"no", "tick", "full"}
    /\ delivered \subseteq Txns

Init ==
    /\ builder = B!NewBuilder(1)
    /\ mempool = Txns
    /\ appendedIn = [t \in Txns |-> 0]
    /\ R!Init
    /\ ending = "no" /\ delivered = {}

(* The batch is open: the generator pulls, ticks and sends fragments.      *)
Open == up /\ ending = "no" /\ builder.id <= MaxBatchId

Pull(t) ==
    /\ Open /\ t \in mempool
    /\ IF B!CanAppend(builder, t)
         THEN /\ builder' = B!AppendTransaction(builder, t)
              /\ appendedIn' = [appendedIn EXCEPT ![t] = builder.id]
              /\ mempool' = mempool \ {t}
              /\ UNCHANGED <<db, ending>>
         ELSE /\ db' = [db EXCEPT ![epoch] = builder.id]
              /\ ending' = "full"
              /\ UNCHANGED <<builder, appendedIn, mempool>>
    /\ UNCHANGED <<epoch, up, crashes, endedIds, delivered>>

(* A tick with new serialized data: an AppendToBatch fragment.             *)
TickFragment ==
    /\ Open /\ builder.data # <<>>
    /\ builder' = B!TakeSerializedTxns(builder)
    /\ UNCHANGED <<mempool, appendedIn, db, epoch, up, crashes, endedIds, ending,
                   delivered>>

(* A tick ends the non-empty batch: save_batch_id first.                   *)
TickSave ==
    /\ Open /\ builder.summaries # <<>>
    /\ db' = [db EXCEPT ![epoch] = builder.id]
    /\ ending' = "tick"
    /\ UNCHANGED <<builder, mempool, appendedIn, epoch, up, crashes, endedIds,
                   delivered>>

(* EndBatch under the saved id, then take_summaries: the next batch opens  *)
(* empty under the next id.                                                *)
EndBatch ==
    /\ up /\ ending # "no"
    /\ builder' = B!TakeSummaries(B!TakeSerializedTxns(builder))
    /\ endedIds' = endedIds \cup {<<epoch, builder.id>>}
    /\ delivered' = delivered \cup ToSet(builder.summaries)
    /\ ending' = "no"
    /\ UNCHANGED <<mempool, appendedIn, db, epoch, up, crashes>>

(* The transactions a crash takes from the generator.                      *)
LostInCrash == ToSet(builder.summaries)

(* A crash: the builder is gone, mempool offers its transactions again.    *)
Crash ==
    /\ up /\ crashes < MaxCrashes
    /\ up' = FALSE /\ crashes' = crashes + 1
    /\ builder' = B!NewBuilder(builder.id)
    /\ mempool' = mempool \cup LostInCrash
    /\ appendedIn' = [t \in Txns |-> IF t \in LostInCrash THEN 0 ELSE appendedIn[t]]
    /\ ending' = "no"
    /\ UNCHANGED <<db, epoch, endedIds, delivered>>

(* BatchGenerator::new in epoch e: clean_and_get_batch_id, then a builder  *)
(* at the recovered id.                                                    *)
Start(e) ==
    /\ ~up /\ e >= epoch
    /\ db' = R!CleanedRows(e)
    /\ builder' = B!NewBuilder(R!RecoveredId(db[e]))
    /\ epoch' = e /\ up' = TRUE
    /\ UNCHANGED <<mempool, appendedIn, crashes, endedIds, ending, delivered>>

Next ==
    \/ \E e \in Epochs : Start(e)
    \/ \E t \in Txns : Pull(t)
    \/ TickFragment
    \/ TickSave
    \/ EndBatch
    \/ Crash

Spec == Init /\ [][Next]_vars

------------------------------------------------------------------------------
(* While the generator runs, the summaries cover every transaction         *)
(* appended to the current batch and not yet ended, so the next mempool   *)
(* pull excludes all of them, also once a restart or a new epoch hands     *)
(* out ids that earlier batches had (spec 8, exclude-filter scenario).     *)
ExcludeCoversBatch ==
    up => ToSet(builder.summaries) =
            {t \in Txns \ delivered : appendedIn[t] = builder.id}

(* Spec 8.7: within an epoch, every EndBatch carries a batch id above that *)
(* of every batch ended before it, over crashes between the save and the   *)
(* EndBatch and restarts in a later epoch.                                 *)
EndedIdsIncrease ==
    [][EndBatch => \A eb \in endedIds : eb[1] = epoch => eb[2] < builder.id]_vars

=============================================================================
