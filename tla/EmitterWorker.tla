--------------------------- MODULE EmitterWorker ---------------------------
(***************************************************************************)
(* The submission side of the transaction emitter                          *)
(* (crates/transaction-emitter-lib/src/emitter/mod.rs): the EmitJob that   *)
(* start_job spawns, its workers, and the bookkeeping a worker does after  *)
(* each round of submissions: wait_for_accounts_sequence polls the chain   *)
(* for the account's sequence number until the round's transactions are    *)
(* all committed, the ledger has passed their expiration, or 240 s more    *)
(* of wall time have gone by; update_seq_num_and_get_num_expired then      *)
(* resets the local sequence number to what was fetched and counts the     *)
(* round's committed and expired transactions.                             *)
(*                                                                         *)
(* Each worker owns one account (accounts_per_worker is 1 in both modes).  *)
(* The submission loop itself (submission_worker.rs) is not in this tree:  *)
(* a round is modelled as the submission of transactions_per_account       *)
(* transactions numbered from the local sequence number, of which the      *)
(* node may accept any prefix.  The chain commits an account's next        *)
(* transaction while the ledger timestamp is before its expiration.        *)
(***************************************************************************)
EXTENDS Integers, FiniteSets

CONSTANTS
    Workers,          \* the spawned workers, one account each
    TxnsPerAccount,   \* mode_params.transactions_per_account
    ExpirationSecs,   \* mode_params.txn_expiration_time_secs
    AbortSecs,        \* the extra wall time after expiration before giving up (240 s)
    MaxWall,          \* bound on the wall clock, in seconds
    MaxRounds         \* bound on the rounds of one worker

ASSUME TxnsPerAccount \in Nat \ {0} /\ ExpirationSecs \in Nat \ {0}
ASSUME AbortSecs \in Nat /\ MaxWall \in Nat /\ MaxRounds \in Nat

None == -1   \* no entry in latest_fetched_counts

VARIABLES
    \* worker state: the LocalAccount's sequence number and the round
    local,        \* local sequence number of the worker's account
    phase,        \* "idle" | "waiting" | "exited"
    startSeq,     \* start_seq_num of the round
    endSeq,       \* end_seq_num of the round
    expiration,   \* txn_expiration_ts_secs of the round
    fetched,      \* latest_fetched_counts entry of the account, or None
    outcome,      \* how the last wait ended: "none" | "done" | "expired" | "abort"
    committed,    \* committed count of the last round
    expiredCnt,   \* expired count of the last round
    rounds,       \* rounds done so far
    panicked,     \* an assert! of the wait or the update fired
    \* the job
    stop,         \* EmitJob.stop
    joined,       \* stop_and_accumulate has joined every worker
    \* the chain, as seen through the REST endpoint
    chainSeq,     \* on-chain sequence number of each worker's account
    pool,         \* accepted, uncommitted transactions: [w, seq, exp]
    ledger,       \* ledger timestamp (seconds)
    wall          \* wall clock (seconds)

workerVars == <<local, phase, startSeq, endSeq, expiration, fetched, outcome,
                committed, expiredCnt, rounds, panicked>>
chainVars == <<chainSeq, pool, ledger, wall>>
vars == <<workerVars, stop, joined, chainVars>>

MaxSeq == MaxRounds * TxnsPerAccount

TypeOK ==
    /\ local \in [Workers -> 0..MaxSeq]
    /\ phase \in [Workers -> {"idle", "waiting", "exited"}]
    /\ startSeq \in [Workers -> 0..MaxSeq]
    /\ endSeq \in [Workers -> 0..MaxSeq]
    /\ fetched \in [Workers -> {None} \cup 0..MaxSeq]
    /\ outcome \in [Workers -> {"none", "done", "expired", "abort"}]
    /\ committed \in [Workers -> 0..TxnsPerAccount]
    /\ expiredCnt \in [Workers -> 0..TxnsPerAccount]
    /\ rounds \in [Workers -> 0..MaxRounds]
    /\ panicked \in BOOLEAN
    /\ stop \in BOOLEAN /\ joined \in BOOLEAN
    /\ chainSeq \in [Workers -> 0..MaxSeq]
    /\ ledger \in 0..MaxWall /\ wall \in 0..MaxWall
    /\ ledger <= wall

(* start_job: every worker starts idle with a freshly created account.     *)
Init ==
    /\ local = [w \in Workers |-> 0]
    /\ phase = [w \in Workers |-> "idle"]
    /\ startSeq = [w \in Workers |-> 0]
    /\ endSeq = [w \in Workers |-> 0]
    /\ expiration = [w \in Workers |-> 0]
    /\ fetched = [w \in Workers |-> None]
    /\ outcome = [w \in Workers |-> "none"]
    /\ committed = [w \in Workers |-> 0]
    /\ expiredCnt = [w \in Workers |-> 0]
    /\ rounds = [w \in Workers |-> 0]
    /\ panicked = FALSE
    /\ stop = FALSE
    /\ joined = FALSE
    /\ chainSeq = [w \in Workers |-> 0]
    /\ pool = {}
    /\ ledger = 0
    /\ wall = 0

(***************************************************************************)
(* query_sequence_numbers: the account's sequence number and the ledger    *)
(* timestamp of the state it was read from (the min over one account).     *)
(***************************************************************************)
QuerySequenceNumbers(w) == [seq |-> chainSeq[w], ts |-> ledger]

(* wait_for_accounts_sequence starts with empty latest_fetched_counts.     *)
WaitInit(w) == fetched' = [fetched EXCEPT ![w] = None]

(***************************************************************************)
(* A round of the submission worker: transactions local .. local + n - 1   *)
(* are signed (the local sequence number moves to the end), the node       *)
(* accepts a prefix of them, and the worker starts waiting.                *)
(***************************************************************************)
SubmitRound(w, k) ==
    /\ phase[w] = "idle"
    /\ ~stop
    /\ rounds[w] < MaxRounds
    /\ wall + ExpirationSecs + AbortSecs <= MaxWall
    /\ startSeq' = [startSeq EXCEPT ![w] = local[w]]
    /\ endSeq' = [endSeq EXCEPT ![w] = local[w] + TxnsPerAccount]
    /\ local' = [local EXCEPT ![w] = local[w] + TxnsPerAccount]
    /\ expiration' = [expiration EXCEPT ![w] = wall + ExpirationSecs]
    /\ pool' = pool \cup {[w |-> w, seq |-> local[w] + i, exp |-> wall + ExpirationSecs] :
                              i \in 0..k - 1}
    /\ WaitInit(w)
    /\ phase' = [phase EXCEPT ![w] = "waiting"]
    /\ rounds' = [rounds EXCEPT ![w] = rounds[w] + 1]
    /\ UNCHANGED <<outcome, committed, expiredCnt, panicked, stop, joined,
                   chainSeq, ledger, wall>>

(* latest_fetched_counts after one query, which may fail.                  *)
FetchedAfter(w, ok) == IF ok THEN QuerySequenceNumbers(w).seq ELSE fetched[w]

(* assert!(prev_sequence_number <= sequence_number)                        *)
WaitAssertFails(w, ok) ==
    /\ ok
    /\ (IF fetched[w] = None THEN startSeq[w] ELSE fetched[w])
          > QuerySequenceNumbers(w).seq

(* A wait that gives up once the wall clock passes the expiration.         *)
WaitExitWallClock(w, ok) ==
    LET q == QuerySequenceNumbers(w)
    IN  CASE ok /\ q.seq = endSeq[w]               -> "done"
          [] ok /\ wall > expiration[w]            -> "expired"
          [] wall >= expiration[w] + AbortSecs     -> "abort"
          [] OTHER                                 -> "none"

(* A wait without the 240 s abort.                                         *)
WaitExitNoAbort(w, ok) ==
    LET q == QuerySequenceNumbers(w)
    IN  CASE ok /\ q.seq = endSeq[w]               -> "done"
          [] ok /\ q.ts > expiration[w]            -> "expired"
          [] OTHER                                 -> "none"

(***************************************************************************)
(* The breaks of the wait loop after one query: every pending account      *)
(* reached end_seq_num; the ledger timestamp is past the expiration; or    *)
(* (also after a failed query) the wall clock is 240 s past it.            *)
(***************************************************************************)
WaitExit(w, ok) ==
    LET q == QuerySequenceNumbers(w)
    IN  CASE ok /\ q.seq = endSeq[w]               -> "done"
          [] ok /\ q.ts > expiration[w]            -> "expired"
          [] wall >= expiration[w] + AbortSecs     -> "abort"
          [] OTHER                                 -> "none"

(* One iteration of the wait loop that does not break (then it sleeps).    *)
WaitContinue(w, ok) ==
    /\ phase[w] = "waiting"
    /\ WaitExit(w, ok) = "none"
    /\ fetched' = [fetched EXCEPT ![w] = FetchedAfter(w, ok)]
    /\ panicked' = (panicked \/ WaitAssertFails(w, ok))
    /\ phase' = [phase EXCEPT ![w] = IF WaitAssertFails(w, ok) THEN "exited" ELSE @]
    /\ UNCHANGED <<local, startSeq, endSeq, expiration, outcome, committed,
                   expiredCnt, rounds, stop, joined, chainVars>>

(* The asserts of update_seq_num_and_get_num_expired, given the count f.   *)
UpdateAssertFails(w, f) ==
    /\ f # None
    /\ \/ f > endSeq[w]
       \/ f < startSeq[w]
       \/ f # local[w] /\ local[w] <= f

(* An update that leaves the local sequence number at end_seq_num.         *)
SeqAfterUpdateKept(w, f) == local[w]

(* The local sequence number after the update: the fetched count, or the   *)
(* round's start when nothing could be fetched.                            *)
SeqAfterUpdate(w, f) == IF f = None THEN startSeq[w] ELSE f

(* Counts that take end_seq_num itself for the expired ones when nothing  *)
(* could be fetched.                                                       *)
RoundCountsEndOnly(w, f) ==
    IF f = None THEN <<0, endSeq[w]>>
                ELSE <<f - startSeq[w], endSeq[w] - f>>

(* The (committed, expired) counts the update returns.                     *)
RoundCounts(w, f) ==
    IF f = None THEN <<0, endSeq[w] - startSeq[w]>>
                ELSE <<f - startSeq[w], endSeq[w] - f>>

(***************************************************************************)
(* The iteration that breaks out of the wait, followed by                  *)
(* update_seq_num_and_get_num_expired on its result.  A failing assert!    *)
(* panics the worker's task.                                               *)
(***************************************************************************)
WaitEnd(w, ok) ==
    LET f == FetchedAfter(w, ok)
        bad == WaitAssertFails(w, ok) \/ UpdateAssertFails(w, f)
    IN  /\ phase[w] = "waiting"
        /\ WaitExit(w, ok) # "none"
        /\ fetched' = [fetched EXCEPT ![w] = f]
        /\ outcome' = [outcome EXCEPT ![w] = WaitExit(w, ok)]
        /\ panicked' = (panicked \/ bad)
        /\ phase' = [phase EXCEPT ![w] = IF bad THEN "exited" ELSE "idle"]
        /\ local' = IF bad THEN local ELSE [local EXCEPT ![w] = SeqAfterUpdate(w, f)]
        /\ committed' = IF bad THEN committed ELSE [committed EXCEPT ![w] = RoundCounts(w, f)[1]]
        /\ expiredCnt' = IF bad THEN expiredCnt ELSE [expiredCnt EXCEPT ![w] = RoundCounts(w, f)[2]]
        /\ UNCHANGED <<startSeq, endSeq, expiration, rounds, stop, joined,
                       chainVars>>

(* Accepted transactions that can still commit.                            *)
Live(p, cs, ts) == {t \in p : t.seq >= cs[t.w] /\ ts < t.exp}

(* The chain commits the account's next transaction before it expires.    *)
Commit(w) ==
    \E t \in pool :
        /\ t.w = w /\ t.seq = chainSeq[w] /\ ledger < t.exp
        /\ chainSeq' = [chainSeq EXCEPT ![w] = @ + 1]
        /\ pool' = Live(pool, chainSeq', ledger)
        /\ UNCHANGED <<workerVars, stop, joined, ledger, wall>>

LedgerAdvance ==
    /\ ledger < wall
    /\ ledger' = ledger + 1
    /\ pool' = Live(pool, chainSeq, ledger')
    /\ UNCHANGED <<workerVars, stop, joined, chainSeq, wall>>

WallAdvance ==
    /\ wall < MaxWall
    /\ wall' = wall + 1
    /\ UNCHANGED <<workerVars, stop, joined, chainSeq, pool, ledger>>

(* stop_and_accumulate: stop.store(true).                                  *)
StopJob ==
    /\ ~stop
    /\ stop' = TRUE
    /\ UNCHANGED <<workerVars, joined, chainVars>>

(* A worker sees the stop flag between rounds and returns.                 *)
WorkerExit(w) ==
    /\ stop
    /\ phase[w] = "idle"
    /\ phase' = [phase EXCEPT ![w] = "exited"]
    /\ UNCHANGED <<local, startSeq, endSeq, expiration, fetched, outcome, committed,
                   expiredCnt, rounds, panicked, stop, joined, chainVars>>

(* stop_and_accumulate: join every worker's handle.                        *)
Join ==
    /\ stop
    /\ ~joined
    /\ \A w \in Workers : phase[w] = "exited"
    /\ joined' = TRUE
    /\ UNCHANGED <<workerVars, stop, chainVars>>

Poll(w) == \E ok \in BOOLEAN : WaitContinue(w, ok) \/ WaitEnd(w, ok)

Next ==
    \/ \E w \in Workers, k \in 0..TxnsPerAccount : SubmitRound(w, k)
    \/ \E w \in Workers : Poll(w)
    \/ \E w \in Workers : Commit(w)
    \/ LedgerAdvance
    \/ WallAdvance
    \/ StopJob
    \/ \E w \in Workers : WorkerExit(w)
    \/ Join

(***************************************************************************)
(* A worker's task keeps polling, the wall clock keeps moving, the job is   *)
(* stopped after its duration, and a stopped job joins its workers.  The    *)
(* chain and the REST endpoint get no fairness: the node may stall and      *)
(* every query may fail.                                                   *)
(***************************************************************************)
Fairness ==
    /\ \A w \in Workers : WF_vars(Poll(w)) /\ WF_vars(WorkerExit(w))
    /\ WF_vars(WallAdvance)
    /\ WF_vars(StopJob)
    /\ WF_vars(Join)

Spec == Init /\ [][Next]_vars /\ Fairness

(***************************************************************************)
(* Properties                                                              *)
(***************************************************************************)

(* No assert! of wait_for_accounts_sequence or of                          *)
(* update_seq_num_and_get_num_expired ever fires, over any number of       *)
(* rounds, failed queries and aborted waits.                               *)
NoWorkerPanic == ~panicked

(***************************************************************************)
(* Between rounds, a worker's local sequence number is never ahead of the  *)
(* chain's (an account ahead of the chain would have every later          *)
(* transaction parked), and after a wait that ended because all were      *)
(* committed or the ledger passed their expiration it equals the chain's.  *)
(***************************************************************************)
SeqResynced ==
    \A w \in Workers :
        phase[w] = "idle" =>
            /\ local[w] <= chainSeq[w]
            /\ outcome[w] \in {"done", "expired"} => local[w] = chainSeq[w]

(* Once the job is stopped, stop_and_accumulate returns: every wait ends,  *)
(* also when every query fails and the chain stalls.                       *)
EventuallyJoined == <>joined

=============================================================================
