------------------------------ MODULE Truncate ------------------------------
(***************************************************************************)
(* The db-tool's truncate command (db_debugger/truncate/mod.rs, Cmd::run): *)
(* it deletes all data after a target version from an AptosDB that is not  *)
(* in use.  It reads the ledger db's version (the last TransactionInfo)    *)
(* and the state merkle db's, asserts both are at or above what it needs,  *)
(* truncates the Jellyfish Merkle tree back to a version that has a root   *)
(* (the closest node version at or before the target, else the last       *)
(* epoch-ending version at or before it), truncates the ledger in batches  *)
(* of ledger_db_batch_size, and replays write sets to bring the tree up to *)
(* the target.  The process may be killed between any two writes and is   *)
(* then run again with the same arguments.                                 *)
(*                                                                         *)
(* Versions are 0..MaxVersion.  The ledger holds 0..ledgerV; the tree has  *)
(* nodes at some state checkpoint versions and a root node at some of      *)
(* them.  The helpers truncate_state_merkle_db, truncate_ledger_db,        *)
(* get_current_version_in_state_merkle_db and catch_up_state_merkle_db are *)
(* not in this tree: each is one write of what its name says, the ledger   *)
(* one a batch per step from the top down, and the tree's version is its   *)
(* highest node version.  Unless opted out, the run first copies the     *)
(* database into a backup checkpoint directory that must not exist yet.    *)
(***************************************************************************)
EXTENDS Integers, FiniteSets

CONSTANTS
    MaxVersion,   \* versions are 0..MaxVersion
    BatchSize,    \* ledger_db_batch_size
    MaxCrashes    \* bound on the runs killed

NoVersion == -1

VARIABLES
    ledgerV,   \* version of the last TransactionInfo in the ledger db
    epochs,    \* EpochByVersion: the epoch-ending versions in the ledger db
    nodes,     \* versions at which the state merkle db has JMT nodes
    roots,     \* versions at which it has a root node (NodeKey::new_empty_path)
    target,    \* --target-version
    pc,        \* where the current run is
    rootV,     \* state_merkle_target_version found by this run
    crashes,
    optOut,    \* --opt-out-backup-checkpoint
    backup,    \* the database copied into --backup-checkpoint-dir, or NoBackup
    original   \* history: the database as the operator handed it over

vars == <<ledgerV, epochs, nodes, roots, target, pc, rootV, crashes, optOut, backup, original>>

NoBackup == <<>>

bvars == <<optOut, backup, original>>

(* The database's contents.                                                *)
Db == <<ledgerV, epochs, nodes, roots>>

Versions == 0..MaxVersion

MaxV(S) == CHOOSE v \in S : \A w \in S : w <= v

(* get_current_version_in_state_merkle_db.                                 *)
SmtVersion == IF nodes = {} THEN NoVersion ELSE MaxV(nodes)

(* find_closest_node_version_at_or_before.                                 *)
ClosestNodeAtOrBefore(v) ==
    LET le == {n \in nodes : n <= v} IN IF le = {} THEN NoVersion ELSE MaxV(le)

(* EpochByVersion: seek_for_prev(version), then next().                    *)
EpochAtOrBefore(v) ==
    LET le == {e \in epochs : e <= v} IN IF le = {} THEN NoVersion ELSE MaxV(le)

(* A lookup that stops at the closest node version.                        *)
FindTreeRootNoEpoch(v) ==
    LET c == ClosestNodeAtOrBefore(v)
    IN IF c # NoVersion /\ c \in roots THEN c ELSE NoVersion

(* A lookup that takes the closest node version without checking a root.   *)
FindTreeRootUnchecked(v) == ClosestNodeAtOrBefore(v)

(* find_tree_root_at_or_before with root_exists_at_version.                *)
FindTreeRoot(v) ==
    LET c == ClosestNodeAtOrBefore(v)
        e == EpochAtOrBefore(v)
    IN CASE c = NoVersion  -> NoVersion
         [] c \in roots    -> c
         [] e = NoVersion  -> NoVersion
         [] e \in roots    -> e
         [] OTHER          -> NoVersion

(* The condition of line 85 with an off-by-one.                            *)
SmtAheadOfTargetOffByOne(s) == target + 1 < s

(* The state merkle db must go back: it is past the target.                *)
SmtAheadOfTarget(s) == target < s

(* The last version left after one batch of truncate_ledger_db, from the   *)
(* top, where a last batch shorter than the batch size is never deleted.  *)
BatchFloorLastSkipped(v) == IF v - BatchSize >= target THEN v - BatchSize ELSE v

(* ... and one that is not clamped at the target.                         *)
BatchFloorUnclamped(v) == v - BatchSize

BatchFloor(v) == IF v - BatchSize > target THEN v - BatchSize ELSE target

(* The database a node leaves behind.  State checkpoints (version 0 and    *)
(* every epoch end among them) up to the ledger version; the tree is       *)
(* committed up to one of them.  The state merkle pruner has removed the   *)
(* roots below p, the epoch snapshot pruner the epoch-ending roots below  *)
(* q <= p, and some other nodes of pruned versions are still live.         *)
Init ==
    /\ \E L \in Versions, cps \in SUBSET Versions, ep \in SUBSET Versions,
          s \in Versions, p \in Versions, q \in Versions, live \in SUBSET Versions :
          /\ 0 \in cps /\ cps \subseteq 0..L
          /\ 0 \in ep /\ ep \subseteq cps
          /\ s \in cps /\ q <= p /\ p <= s
          /\ live \subseteq {c \in cps : c < p}
          /\ ledgerV = L
          /\ epochs = ep
          /\ roots = {c \in cps : c <= s /\ (c >= p \/ (c \in ep /\ c >= q))}
          /\ nodes = roots \cup live
          /\ target \in 0..L
    /\ pc = "start" /\ rootV = NoVersion /\ crashes = 0
    /\ optOut \in BOOLEAN /\ backup = NoBackup
    /\ original = Db

(* An ensure! that lets the checkpoint directory exist.                    *)
BackupAllowedAlways(exists) == TRUE

(* ensure!(!backup_checkpoint_dir.exists(), "Backup dir already exists.")  *)
BackupAllowed(exists) == ~exists

(* Lines 47-61: AptosDB::create_checkpoint into the backup directory, or   *)
(* the opt-out; the ensure! failing ends the run with an error.            *)
CreateBackup ==
    /\ pc = "start"
    /\ IF optOut THEN pc' = "open" /\ UNCHANGED backup
       ELSE IF BackupAllowed(backup # NoBackup)
              THEN pc' = "open" /\ backup' = Db
              ELSE pc' = "error" /\ UNCHANGED backup
    /\ UNCHANGED <<ledgerV, epochs, nodes, roots, target, rootV, crashes, optOut, original>>

(* Lines 62-104 up to the tree's truncation: open the dbs, read both       *)
(* versions (the expects), the two assert_le!, and, when the tree is past  *)
(* the target, find the root to truncate it to or panic.                   *)
OpenAndFindRoot ==
    /\ pc = "open"
    /\ LET s == SmtVersion
           r == FindTreeRoot(target)
       IN CASE s = NoVersion \/ s > ledgerV \/ target > ledgerV
                   -> pc' = "panic" /\ UNCHANGED rootV
            [] SmtAheadOfTarget(s) /\ r = NoVersion
                   -> pc' = "panic" /\ UNCHANGED rootV
            [] SmtAheadOfTarget(s)
                   -> pc' = "smt" /\ rootV' = r
            [] OTHER
                   -> pc' = "ledger" /\ UNCHANGED rootV
    /\ UNCHANGED <<ledgerV, epochs, nodes, roots, target, crashes, bvars>>

(* truncate_state_merkle_db(state_merkle_target_version).                  *)
TruncateStateMerkle ==
    /\ pc = "smt"
    /\ nodes' = {n \in nodes : n <= rootV}
    /\ roots' = {n \in roots : n <= rootV}
    /\ pc' = "ledger"
    /\ UNCHANGED <<ledgerV, epochs, target, rootV, crashes, bvars>>

(* One batch of truncate_ledger_db(ledger_db_version, target, batch size): *)
(* the transactions and epoch ends above the batch's floor go.            *)
TruncateLedgerBatch ==
    /\ pc = "ledger" /\ ledgerV > target
    /\ ledgerV' = BatchFloor(ledgerV)
    /\ epochs' = {e \in epochs : e <= BatchFloor(ledgerV)}
    /\ UNCHANGED <<nodes, roots, target, pc, rootV, crashes, bvars>>

(* Lines 116-129: the ledger is at the target; if the tree is behind it,   *)
(* catch_up_state_merkle_db replays the write sets and commits the tree    *)
(* at the ledger's version.                                                 *)
CatchUp ==
    /\ pc = "ledger" /\ ledgerV <= target
    /\ IF SmtVersion # NoVersion /\ SmtVersion < target
         THEN /\ nodes' = nodes \cup {ledgerV}
              /\ roots' = roots \cup {ledgerV}
         ELSE UNCHANGED <<nodes, roots>>
    /\ pc' = "done"
    /\ UNCHANGED <<ledgerV, epochs, target, rootV, crashes, bvars>>

(* The process is killed between two writes and run again.                 *)
CrashAndRerun ==
    /\ pc \notin {"start", "done", "panic", "error"} /\ crashes < MaxCrashes
    /\ pc' = "start" /\ rootV' = NoVersion
    /\ crashes' = crashes + 1
    /\ UNCHANGED <<ledgerV, epochs, nodes, roots, target, bvars>>

Step == CreateBackup \/ OpenAndFindRoot \/ TruncateStateMerkle \/ TruncateLedgerBatch \/ CatchUp

Next == Step \/ CrashAndRerun

(* The tool runs one step after another while it is not killed.            *)
Spec == Init /\ [][Next]_vars /\ WF_vars(Step)

------------------------------------------------------------------------------
TypeOK ==
    /\ ledgerV \in Versions /\ target \in Versions
    /\ epochs \subseteq Versions
    /\ roots \subseteq nodes /\ nodes \subseteq Versions
    /\ pc \in {"start", "open", "smt", "ledger", "done", "panic", "error"}
    /\ optOut \in BOOLEAN
    /\ rootV \in Versions \cup {NoVersion}
    /\ crashes \in 0..MaxCrashes

(* Wherever the run is killed, the database still passes the asserts of   *)
(* the run that follows: the tree is never ahead of the ledger, and the    *)
(* ledger never goes below the target.  The order of the two truncations  *)
(* and the choice of the root are what keep this.                          *)
RerunPossible ==
    pc # "panic" => /\ SmtVersion # NoVersion
                    /\ SmtVersion <= ledgerV
                    /\ target <= ledgerV

(* A run that completes, after any number of killed runs, leaves what the  *)
(* test checks: the ledger ends at the target, no epoch end, JMT node or   *)
(* root lies above it, and the tree is at the target with a root there.    *)
TruncatedToTarget ==
    pc = "done" =>
        /\ ledgerV = target
        /\ \A e \in epochs : e <= target
        /\ \A n \in nodes : n <= target
        /\ SmtVersion = target /\ target \in roots

(* The run panics ("Could not find a valid root ... maybe it was pruned?") *)
(* only when no root at or before the target is left: trying the closest   *)
(* node version and then the last epoch end finds every root there is.     *)
PanicOnlyWhenPruned ==
    pc = "panic" => \A v \in roots : v > target

(* Every run that is not killed ends: done, panicked, or refused by the    *)
(* ensure! on the backup directory.                                        *)
Terminates == <>(pc \in {"done", "panic", "error"})

(* The backup checkpoint is a copy of the database as the operator handed  *)
(* it over, never of one a killed run has already partly truncated: a     *)
(* rerun with the same arguments finds the directory and stops.            *)
BackupOfOriginal == backup # NoBackup => backup = original

=============================================================================
