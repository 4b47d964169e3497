--------------------------- MODULE AccountMinter ---------------------------
(***************************************************************************)
(* AccountMinter::create_accounts (emitter/account_minter.rs) with the     *)
(* RestApiTransactionExecutor it submits through (transaction_executor.rs).*)
(* The root account optionally mints to itself, then funds the seed        *)
(* accounts in batches of max_submit_batch_size; every seed account, as a  *)
(* future of its own, creates and funds its children in batches, or (with *)
(* reuse_accounts) looks them up.  A batch is executed by submitting every *)
(* transaction concurrently (join_all), each one retried: submit_bcs, then *)
(* a wait by hash that may time out, max_retries times, then a wait until  *)
(* the transaction is committed or expired.  A submission may fail yet     *)
(* reach mempool; a wait may time out before the commit.  The chain        *)
(* commits a sender's transactions in sequence-number order until they     *)
(* expire.  Coin amounts are left out: the plan funds every transfer.      *)
(***************************************************************************)
EXTENDS Naturals, FiniteSets, Sequences, TLC

CONSTANTS
    NumAccounts,    \* total_requested_accounts
    MaxSubmitBatch, \* mode_params.max_submit_batch_size
    MaxRetries      \* RestApiTransactionExecutor.max_retries (MAX_RETRIES)

ASSUME NumAccounts \in Nat \ {0} /\ MaxSubmitBatch \in Nat \ {0}
       /\ MaxRetries \in Nat \ {0}

MinOf(a, b) == IF a <= b THEN a ELSE b

(* (total as f32).sqrt() as usize, exact for the bounded totals.           *)
ISqrt(n) == CHOOSE r \in 0..n : r * r <= n /\ (r + 1) * (r + 1) > n

(* (total / 50).clamp(1, sqrt(total) + 1)                                  *)
ExpectedNumSeedAccounts(n) ==
    LET lo == 1
        hi == ISqrt(n) + 1
    IN  IF n \div 50 < lo THEN lo ELSE IF n \div 50 > hi THEN hi ELSE n \div 50

NumSeeds == ExpectedNumSeedAccounts(NumAccounts)

(* num_new_child_accounts (and expected_children_per_seed_account): n     *)
(* requested accounts spread over s seeds, rounded up.                     *)
ChildrenPerSeed(n, s) == (n + s - 1) \div s

NumChildren == ChildrenPerSeed(NumAccounts, NumSeeds)

Source == <<"root", 0>>
Seeds == {<<"seed", j>> : j \in 1..NumSeeds}
Seed(j) == <<"seed", j>>
Child(s, k) == <<"child", s[2], k>>
Children == {Child(s, k) : s \in Seeds, k \in 1..NumChildren}
Accounts == {Source} \cup Seeds \cup Children
Senders == {Source} \cup Seeds

(* A signed transaction: a sender, its sequence number and the account it  *)
(* creates and funds (the sender itself for the mint).                     *)
Txns == [sender : Senders, seq : 0..NumSeeds + 1 + NumChildren, to : Accounts]

Stages == {"submit", "wait", "fallback", "ok", "err"}

VARIABLES
    mstep,      \* where create_accounts is
    mintToRoot, \* req.mint_to_root
    reuse,      \* req.reuse_accounts
    seedI,      \* i of create_and_fund_seed_accounts
    childI,     \* i of each seed's create_and_fund_new_accounts
    childSt,    \* each seed's future: "run" | "ok" | "err"
    returned,   \* the accounts collected so far
    localSeq,   \* LocalAccount sequence numbers
    pending,    \* the batch each sender's execute_transactions is awaiting
    ex,         \* per submitted transaction: [try, st] of submit_check_and_retry
    acctSeq,    \* the chain: sequence number of every account
    onChain,    \* the chain: accounts that exist
    mempool,    \* transactions accepted by some node and not yet committed
    included,   \* transactions committed
    expired     \* transactions past their expiration, never committed

minterVars == <<mstep, mintToRoot, reuse, seedI, childI, childSt, returned,
                localSeq, pending, ex>>
ledgerVars == <<acctSeq, onChain, mempool, included, expired>>
mvars == <<minterVars, ledgerVars>>

TypeOK ==
    /\ mstep \in {"fund", "minting", "seeds", "children", "ok", "err"}
    /\ seedI \in 0..NumSeeds
    /\ childI \in [Seeds -> 0..NumChildren]
    /\ childSt \in [Seeds -> {"run", "ok", "err"}]
    /\ returned \subseteq Children
    /\ pending \in [Senders -> SUBSET Txns]
    /\ ex \in [DOMAIN ex -> [try : 0..MaxRetries, st : Stages]]
    /\ mempool \cup included \cup expired \subseteq Txns

Init ==
    /\ mstep = "fund"
    /\ mintToRoot \in BOOLEAN
    /\ reuse \in BOOLEAN
    /\ seedI = 0
    /\ childI = [s \in Seeds |-> 0]
    /\ childSt = [s \in Seeds |-> "run"]
    /\ returned = {}
    /\ localSeq = [a \in Accounts |-> 0]
    /\ pending = [s \in Senders |-> {}]
    /\ ex = [t \in {} |-> 0]
    \* accounts to reuse exist when an earlier run created and used them
    /\ \E pre \in SUBSET Children :
          /\ reuse \/ pre = {}
          /\ onChain = {Source} \cup pre
          /\ acctSeq = [a \in Accounts |-> IF a \in pre THEN 1 ELSE 0]
    /\ mempool = {} /\ included = {} /\ expired = {}

------------------------------------------------------------------------------
(* The executor                                                            *)

(* Sign one transaction per target with consecutive sequence numbers       *)
(* (sign_with_transaction_builder increments the local one) and await      *)
(* execute_transactions_with_counter on them.                              *)
SignBatch(s, tos) ==
    LET txns == {[sender |-> s, seq |-> localSeq[s] + k - 1, to |-> tos[k]] :
                   k \in DOMAIN tos}
    IN  /\ localSeq' = [localSeq EXCEPT ![s] = @ + Len(tos)]
        /\ pending' = [pending EXCEPT ![s] = txns]
        /\ ex' = ex @@ [t \in txns |-> [try |-> 0, st |-> "submit"]]

(* submit_bcs: whatever it returns, the transaction may or may not have    *)
(* reached a mempool; a committed or expired one is refused.               *)
SubmitBcs(t) ==
    /\ ex[t].st = "submit"
    /\ \E reached \in BOOLEAN :
          mempool' = IF reached /\ t \notin included \cup expired
                     THEN mempool \cup {t} ELSE mempool
    /\ ex' = [ex EXCEPT ![t].st = "wait"]
    /\ UNCHANGED <<mstep, mintToRoot, reuse, seedI, childI, childSt, returned,
                   localSeq, pending, acctSeq, onChain, included, expired>>

(* A wait that takes an accepted submission for a commit.                  *)
WaitSucceededAccepted(t) == t \in included \cup mempool

(* wait_for_transaction_by_hash succeeds once the transaction is committed. *)
WaitSucceeded(t) == t \in included

(* The wait by hash returns: Ok ends submit_check_and_retry, an error      *)
(* (10 s timeout, expired) moves to the next retry round, and after        *)
(* max_retries rounds to the final wait.                                   *)
WaitForTransactionByHash(t) ==
    /\ ex[t].st = "wait"
    /\ ex' = [ex EXCEPT ![t] =
                IF WaitSucceeded(t) THEN [@ EXCEPT !.st = "ok"]
                ELSE [try |-> @.try + 1,
                      st  |-> IF @.try + 1 < MaxRetries THEN "submit" ELSE "fallback"]]
    /\ UNCHANGED <<mstep, mintToRoot, reuse, seedI, childI, childSt, returned,
                   localSeq, pending, ledgerVars>>

(* A final wait that returns only for a committed transaction.             *)
FallbackReturnsCommittedOnly(t) == t \in included

(* wait_for_signed_transaction_bcs returns once the transaction is          *)
(* committed or has expired.                                               *)
FallbackReturns(t) == t \in included \/ t \in expired

WaitForSignedTransaction(t) ==
    /\ ex[t].st = "fallback"
    /\ FallbackReturns(t)
    /\ ex' = [ex EXCEPT ![t].st = IF t \in included THEN "ok" ELSE "err"]
    /\ UNCHANGED <<mstep, mintToRoot, reuse, seedI, childI, childSt, returned,
                   localSeq, pending, ledgerVars>>

(* join_all has every submit_check_and_retry of the batch back.            *)
BatchFinished(s) ==
    pending[s] # {} /\ \A t \in pending[s] : ex[t].st \in {"ok", "err"}

(* collect::<Result<Vec<()>>>: Ok only if every transaction is.            *)
BatchOk(s) == \A t \in pending[s] : ex[t].st = "ok"

(* The futures of the batch are dropped.                                   *)
EndBatch(s) ==
    /\ ex' = [t \in DOMAIN ex \ pending[s] |-> ex[t]]
    /\ pending' = [pending EXCEPT ![s] = {}]

(* A batch size that does not stop at the loop's end.                      *)
BatchSizeNoMin(n, i) == MaxSubmitBatch

(* The size of the next batch: min(max_submit_batch_size, n - i).          *)
BatchSize(n, i) == MinOf(MaxSubmitBatch, n - i)

------------------------------------------------------------------------------
(* create_accounts                                                         *)

(* mint_to_root: a single aptos_coin_mint from the root account.           *)
MintToRoot ==
    /\ mstep = "fund" /\ mintToRoot
    /\ SignBatch(Source, <<Source>>)
    /\ mstep' = "minting"
    /\ UNCHANGED <<mintToRoot, reuse, seedI, childI, childSt, returned, ledgerVars>>

MintDone ==
    /\ mstep = "minting" /\ BatchFinished(Source)
    /\ mstep' = IF BatchOk(Source) THEN "seeds" ELSE "err"
    /\ EndBatch(Source)
    /\ UNCHANGED <<mintToRoot, reuse, seedI, childI, childSt, returned, localSeq,
                   ledgerVars>>

(* Without mint_to_root: get_account_balance and the balance check; either *)
(* may end create_accounts with an error.                                  *)
CheckBalance ==
    /\ mstep = "fund" /\ ~mintToRoot
    /\ \E ok \in BOOLEAN : mstep' = IF ok THEN "seeds" ELSE "err"
    /\ UNCHANGED <<mintToRoot, reuse, seedI, childI, childSt, returned, localSeq,
                   pending, ex, ledgerVars>>

(* An iteration of create_and_fund_seed_accounts: fresh seed accounts,     *)
(* funded from the root account.                                           *)
SeedBatch ==
    /\ mstep = "seeds" /\ pending[Source] = {} /\ seedI < NumSeeds
    /\ SignBatch(Source, [k \in 1..BatchSize(NumSeeds, seedI) |-> Seed(seedI + k)])
    /\ UNCHANGED <<mstep, mintToRoot, reuse, seedI, childI, childSt, returned,
                   ledgerVars>>

(* The seed batch is back: i += batch_size, or the error returns; once     *)
(* every seed is funded the seeds' futures start.                          *)
SeedBatchDone ==
    /\ mstep = "seeds" /\ BatchFinished(Source)
    /\ IF BatchOk(Source)
         THEN /\ seedI' = seedI + Cardinality(pending[Source])
              /\ mstep' = IF seedI' >= NumSeeds THEN "children" ELSE "seeds"
         ELSE /\ mstep' = "err"
              /\ UNCHANGED seedI
    /\ EndBatch(Source)
    /\ UNCHANGED <<mintToRoot, reuse, childI, childSt, returned, localSeq, ledgerVars>>

ChildrenOf(s, n) == [k \in 1..n |-> Child(s, childI[s] + k)]

(* An iteration of create_and_fund_new_accounts without reuse: new         *)
(* accounts created and funded by the seed.                                *)
ChildBatch(s) ==
    /\ mstep = "children" /\ ~reuse
    /\ childSt[s] = "run" /\ pending[s] = {} /\ childI[s] < NumChildren
    /\ SignBatch(s, ChildrenOf(s, BatchSize(NumChildren, childI[s])))
    /\ UNCHANGED <<mstep, mintToRoot, reuse, seedI, childI, childSt, returned,
                   ledgerVars>>

ChildBatchDone(s) ==
    /\ mstep = "children" /\ BatchFinished(s)
    /\ IF BatchOk(s)
         THEN LET n == Cardinality(pending[s])
              IN  /\ returned' = returned \cup {Child(s, childI[s] + k) : k \in 1..n}
                  /\ childI' = [childI EXCEPT ![s] = @ + n]
                  /\ childSt' = [childSt EXCEPT ![s] =
                                   IF childI'[s] >= NumChildren THEN "ok" ELSE "run"]
         ELSE /\ childSt' = [childSt EXCEPT ![s] = "err"]
              /\ UNCHANGED <<returned, childI>>
    /\ EndBatch(s)
    /\ UNCHANGED <<mstep, mintToRoot, reuse, seedI, localSeq, ledgerVars>>

(* With reuse: gen_reusable_accounts queries each account's sequence       *)
(* number (RETRY_POLICY); an account that does not exist, or a query that  *)
(* keeps failing, ends the seed's future with an error.                    *)
ReuseBatch(s) ==
    /\ mstep = "children" /\ reuse
    /\ childSt[s] = "run" /\ childI[s] < NumChildren
    /\ LET batch == ChildrenOf(s, BatchSize(NumChildren, childI[s]))
           accts == {batch[k] : k \in DOMAIN batch}
       IN  \E ok \in BOOLEAN :
             IF ok /\ accts \subseteq onChain
               THEN /\ localSeq' = [a \in Accounts |->
                                      IF a \in accts THEN acctSeq[a] ELSE localSeq[a]]
                    /\ returned' = returned \cup accts
                    /\ childI' = [childI EXCEPT ![s] = @ + Len(batch)]
                    /\ childSt' = [childSt EXCEPT ![s] =
                                     IF childI'[s] >= NumChildren THEN "ok" ELSE "run"]
               ELSE /\ childSt' = [childSt EXCEPT ![s] = "err"]
                    /\ UNCHANGED <<localSeq, returned, childI>>
    /\ UNCHANGED <<mstep, mintToRoot, reuse, seedI, pending, ex, ledgerVars>>

(* The stream of seed futures is collected once all are back; any error    *)
(* fails create_accounts, otherwise the accounts are returned.             *)
CreateAccountsReturn ==
    /\ mstep = "children"
    /\ \A s \in Seeds : childSt[s] # "run"
    /\ mstep' = IF \E s \in Seeds : childSt[s] = "err" THEN "err" ELSE "ok"
    /\ UNCHANGED <<mintToRoot, reuse, seedI, childI, childSt, returned, localSeq,
                   pending, ex, ledgerVars>>

------------------------------------------------------------------------------
(* The chain                                                               *)

(* A mempool transaction commits when it is its sender's next one.         *)
Commit(t) ==
    /\ t \in mempool
    /\ t.sender \in onChain /\ t.seq = acctSeq[t.sender]
    /\ acctSeq' = [acctSeq EXCEPT ![t.sender] = @ + 1]
    /\ onChain' = onChain \cup {t.to}
    /\ mempool' = mempool \ {t}
    /\ included' = included \cup {t}
    /\ UNCHANGED <<minterVars, expired>>

(* The ledger time passes a signed, uncommitted transaction's expiration.  *)
Expire(t) ==
    /\ t \in DOMAIN ex \cup mempool
    /\ t \notin included \cup expired
    /\ expired' = expired \cup {t}
    /\ mempool' = mempool \ {t}
    /\ UNCHANGED <<minterVars, acctSeq, onChain, included>>

MinterStep ==
    \/ MintToRoot \/ MintDone \/ CheckBalance \/ SeedBatch \/ SeedBatchDone
    \/ \E s \in Seeds : ChildBatch(s) \/ ChildBatchDone(s) \/ ReuseBatch(s)
    \/ CreateAccountsReturn

ExecutorStep(t) ==
    SubmitBcs(t) \/ WaitForTransactionByHash(t) \/ WaitForSignedTransaction(t)

MNext ==
    \/ MinterStep
    \/ \E t \in DOMAIN ex : ExecutorStep(t)
    \/ \E t \in Txns : Commit(t) \/ Expire(t)

(* Every task of the emitter is polled until it returns; ledger time       *)
(* passes.  The chain need not commit anything.                            *)
MFairness ==
    /\ WF_mvars(MinterStep)
    /\ \A t \in Txns : WF_mvars(t \in DOMAIN ex /\ ExecutorStep(t))
    /\ \A t \in Txns : WF_mvars(Expire(t))

MSpec == Init /\ [][MNext]_mvars /\ MFairness

------------------------------------------------------------------------------
(* When create_accounts returns Ok, the root account, every seed account   *)
(* and every account handed to the workers exists on chain with the local  *)
(* sequence number equal to the chain's: every transaction the executor    *)
(* reported done was committed, whatever was lost, timed out or retried.   *)
MintedInSync ==
    mstep = "ok" =>
        /\ Cardinality(returned) >= NumAccounts
        /\ \A a \in {Source} \cup Seeds \cup returned :
              a \in onChain /\ localSeq[a] = acctSeq[a]

(* create_accounts returns, Ok or error, even when nothing is ever         *)
(* committed: every retry loop ends at the transactions' expiration.       *)
MintReturns == <>(mstep \in {"ok", "err"})

=============================================================================
