------------------------------ MODULE Emitter ------------------------------
(***************************************************************************)
(* TxnEmitter::start_job and the job it returns (emitter/mod.rs): the      *)
(* AccountMinter creates the accounts through the REST executor, and only  *)
(* when create_accounts returns Ok are the submission workers spawned,     *)
(* each with the next accounts of the returned list, until the job is      *)
(* stopped and joined.  The two phases run one after the other, so the     *)
(* composition is sequential: the minter's state stays as it returned, and *)
(* the workers' state is as EmitterWorker's Init until the job starts.     *)
(* Workers share no state, so one of them stands for all: worker w takes   *)
(* the w-th returned account.  A worker counts sequence numbers from its   *)
(* account's on-chain number at the start of the job.                      *)
(* emit_txn_for_impl then runs the job's phases one after the other, each  *)
(* for its share of the duration, starting the next phase of the shared    *)
(* stats between two, and stops and joins the job after the last one.      *)
(* DynamicStatsTracking is not in this tree: start_next_phase increments   *)
(* its current phase and returns the new one.                              *)
(***************************************************************************)
EXTENDS Integers, Sequences
LOCAL INSTANCE SequencesExt

CONSTANTS
    Workers, TxnsPerAccount, ExpirationSecs, AbortSecs, MaxWall, MaxRounds,
    NumAccounts, MaxSubmitBatch, MaxRetries,
    NumPhases   \* transaction_mix_per_phase.len()

(* checked_div(phases).unwrap(): the command line gives at least one phase. *)
ASSUME NumPhases \in Nat \ {0}

VARIABLES
    local, phase, startSeq, endSeq, expiration, fetched, outcome, committed,
    expiredCnt, rounds, panicked, stop, joined, chainSeq, pool, ledger, wall,
    mstep, mintToRoot, reuse, seedI, childI, childSt, returned, localSeq,
    pending, ex, acctSeq, onChain, mempool, included, expired,
    started,    \* start_job got its accounts and spawned the workers
    curPhase,   \* the stats' current phase
    phaseStarts,\* EmitJob.phase_starts.len()
    loopPhase   \* emit_txn_for_impl: phases whose run has begun

W == INSTANCE EmitterWorker
M == INSTANCE AccountMinter
P == INSTANCE EmitModeParams

wvars == <<local, phase, startSeq, endSeq, expiration, fetched, outcome, committed,
           expiredCnt, rounds, panicked, stop, joined, chainSeq, pool, ledger, wall>>
mvars == <<mstep, mintToRoot, reuse, seedI, childI, childSt, returned, localSeq,
           pending, ex, acctSeq, onChain, mempool, included, expired>>
phaseVars == <<curPhase, phaseStarts, loopPhase>>
vars == <<wvars, mvars, started, phaseVars>>

(* The account worker w is given: all_accounts is the seeds' children in  *)
(* seed order, and every worker takes accounts_per_worker (one) of them.   *)
WorkerAccount(w) ==
    M!Child(M!Seed((w - 1) \div M!NumChildren + 1), ((w - 1) % M!NumChildren) + 1)

TypeOK ==
    /\ W!TypeOK /\ M!TypeOK /\ started \in BOOLEAN
    /\ curPhase \in 0..NumPhases /\ phaseStarts \in 0..NumPhases
    /\ loopPhase \in 0..NumPhases

Init ==
    /\ W!Init /\ M!Init /\ started = FALSE
    /\ curPhase = 0 /\ phaseStarts = 0 /\ loopPhase = 0

Minting == ~started /\ M!MNext /\ UNCHANGED <<wvars, started, phaseVars>>

(* create_accounts returned Ok: the workers start with their accounts'     *)
(* local sequence numbers, counted from the chain's; the stats are in      *)
(* phase 0 and phase_starts holds its start.                               *)
StartJob ==
    /\ ~started /\ mstep = "ok"
    /\ started' = TRUE
    /\ curPhase' = 0 /\ phaseStarts' = 1 /\ loopPhase' = 0
    /\ local' = [w \in Workers |->
                   localSeq[WorkerAccount(w)] - acctSeq[WorkerAccount(w)]]
    /\ UNCHANGED <<phase, startSeq, endSeq, expiration, fetched, outcome,
                   committed, expiredCnt, rounds, panicked, stop, joined,
                   chainSeq, pool, ledger, wall, mvars>>

(* The workers run; only the main task sets the stop flag.                   *)
Running == started /\ W!Next /\ stop' = stop /\ UNCHANGED <<mvars, started, phaseVars>>

(* EmitJob::start_next_phase: the stats move to the next phase, which must *)
(* be the one phase_starts is about to record (the assert!).               *)
StartNextPhase ==
    /\ curPhase' = curPhase + 1
    /\ phaseStarts = curPhase'
    /\ phaseStarts' = phaseStarts + 1

(* One iteration of the phase loop: after phase 0 the next phase of the     *)
(* stats is started, then the main task sleeps (or prints periodic stats, *)
(* which only reads them) while the workers run.                           *)
RunPhase ==
    /\ started /\ loopPhase < NumPhases
    /\ IF loopPhase > 0 THEN StartNextPhase ELSE UNCHANGED <<curPhase, phaseStarts>>
    /\ loopPhase' = loopPhase + 1
    /\ UNCHANGED <<wvars, mvars, started>>

(* After the last phase, stop_job: stop_and_accumulate sets the flag.      *)
StopAfterPhases ==
    /\ started /\ loopPhase = NumPhases
    /\ W!StopJob
    /\ UNCHANGED <<mvars, started, phaseVars>>

Next == Minting \/ StartJob \/ Running \/ RunPhase \/ StopAfterPhases

(* The fairness of each phase, within that phase.                          *)
Fairness ==
    /\ WF_vars(~started /\ M!MinterStep /\ UNCHANGED <<wvars, started, phaseVars>>)
    /\ \A t \in M!Txns :
          /\ WF_vars(~started /\ t \in DOMAIN ex /\ M!ExecutorStep(t)
                       /\ UNCHANGED <<wvars, started, phaseVars>>)
          /\ WF_vars(~started /\ M!Expire(t) /\ UNCHANGED <<wvars, started, phaseVars>>)
    /\ WF_vars(StartJob)
    /\ \A w \in Workers :
          /\ WF_vars(started /\ W!Poll(w) /\ UNCHANGED <<mvars, started, phaseVars>>)
          /\ WF_vars(started /\ W!WorkerExit(w) /\ UNCHANGED <<mvars, started, phaseVars>>)
    /\ WF_vars(started /\ W!WallAdvance /\ UNCHANGED <<mvars, started, phaseVars>>)
    /\ WF_vars(RunPhase)
    /\ WF_vars(StopAfterPhases)
    /\ WF_vars(started /\ W!Join /\ UNCHANGED <<mvars, started, phaseVars>>)

Spec == Init /\ [][Next]_vars /\ Fairness

------------------------------------------------------------------------------
(* When create_accounts returns Ok, the root, seed and returned accounts   *)
(* exist on chain with local sequence numbers equal to the chain's, over   *)
(* lost submissions, timed-out waits and retries.                          *)
MintedInSync == M!MintedInSync

(* No assert! of the worker's wait or update fires.                        *)
NoWorkerPanic == W!NoWorkerPanic

(* Between rounds a worker's account is never ahead of the chain, and is   *)
(* level with it after a wait that saw every transaction committed or      *)
(* expired; this needs the account handed over by the minter in step with  *)
(* the chain.                                                              *)
SeqResynced == W!SeqResynced

(* start_job either fails in create_accounts or its job runs every phase  *)
(* and, once stopped, is joined: every retry ends at expiration, every     *)
(* wait at its abort.                                                      *)
JobEnds == <>(mstep = "err" \/ joined)


(* The requests the command line can make: a backlog or a target TPS (or  *)
(* both, or neither), a few REST clients, max_transactions_per_account and *)
(* the expiration, each over a small range that includes zero.             *)
Requests ==
    [backlog: {P!None} \cup 0..13, tps: {P!None} \cup 0..3, clients: 0..3,
     maxTpa: 0..4, expSecs: {0, 60}]

JobParams(r) ==
    LET mode == P!Create(r.backlog, r.tps)
    IN IF mode = P!Panic THEN P!Panic
       ELSE P!CalculateModeParams(mode, r.clients, r.maxTpa, r.expSecs)

(* calculate_mode_params keeps the load on target.  MaxLoad: once the      *)
(* backlog fills one account per client, the transactions in flight never  *)
(* exceed it, and unless transactions_per_account was clamped to the       *)
(* worker count they fall short of it by less than one round of every      *)
(* client.  ConstTps: over a wait the job never sends more than tps times  *)
(* the wait, and falls short by less than one round of one extra worker    *)
(* per client.                                                              *)
LoadOnTarget ==
    \A r \in Requests :
        LET p == JobParams(r)
            sent == P!InFlight(p, r.clients)
        IN /\ p.kind = "MaxLoad" =>
                 /\ r.backlog >= r.clients * r.maxTpa => sent <= r.backlog
                 /\ p.tpa = r.maxTpa => r.backlog - sent < r.clients * r.maxTpa
           /\ p.kind = "ConstTps" =>
                 /\ sent <= r.tps * p.waitSecs
                 /\ r.tps * p.waitSecs - sent < r.clients * (p.tpa + 1)


(* Every job start_job spawns was sized by calculate_mode_params with its  *)
(* load on target (LoadOnTarget, over every small request).                 *)
ModeParamsOnTarget == [][StartJob => LoadOnTarget]_vars

=============================================================================
