---------------------------- MODULE ProofManager ----------------------------
(***************************************************************************)
(* The ProofManager actor (consensus/src/quorum_store/proof_manager.rs).  *)
(*                                                                         *)
(* One task owns a ProofQueue and serves two channels with tokio::select!: *)
(*   proof_rx    : LocalProof, RemoteProof, CommitNotification, Shutdown   *)
(*   proposal_rx : GetBlockRequest from the consensus proposer             *)
(* Its environment sends on those channels: the ProofCoordinator (local    *)
(* proofs), the network (remote proofs), the commit path of consensus      *)
(* (commit notifications, rounds never decreasing: the handler asserts     *)
(* it) and the proposer (requests for increasing rounds).                  *)
(***************************************************************************)
EXTENDS ProofQueue

CONSTANTS
    LocalDigests,             \* digests of batches this validator authored
    BackPressureLimit,        \* back_pressure_local_batch_limit
    PullTxnLimits,            \* the max_txns a GetBlockRequest may carry
    PullByteLimits,           \* the max_bytes a GetBlockRequest may carry
    MaxProofMsgs,             \* bound: proof messages the network delivers
    MaxCommits,               \* bound: commit notifications
    MaxProposals,             \* bound: proposal requests
    ExcludedSets,             \* the exclusion filters a request may carry
    CommitSets                \* the digest sets a committed block may carry

ASSUME LocalDigests \subseteq Digests
ASSUME ExcludedSets \subseteq SUBSET Digests /\ CommitSets \subseteq SUBSET Digests
ASSUME BackPressureLimit \in Nat
ASSUME MaxProofMsgs \in Nat /\ MaxCommits \in Nat /\ MaxProposals \in Nat

RemoteDigests == Digests \ LocalDigests

VARIABLES
    proposal_rx,               \* the BlockProposalCommand channel
    latest_logical_time,       \* round of the last commit notification
    remaining_local_proof_num, \* last result of clean_local_proofs
    back_pressure,             \* the loop's last published back pressure
    running,                   \* FALSE once Shutdown was handled
    sent,                      \* environment: messages sent per kind
    localProofSent,            \* environment: local batches whose proof was returned
    lastCommitRound,           \* environment: last commit round sent
    lastProposalRound,         \* environment: last proposal round sent
    pushedExp,                 \* history: latest expiration pushed per digest
    everCommitted,             \* history: digests whose commit was handled
    pullTime                   \* history: latest round pull_proofs was called at

envVars == <<sent, localProofSent, lastCommitRound, lastProposalRound>>
histVars == <<pushedExp, everCommitted, pullTime>>
vars == <<pqVars, proposal_rx, latest_logical_time,
          remaining_local_proof_num, back_pressure, running,
          envVars, histVars>>

Request ==
    [round : Rounds, max_txns : PullTxnLimits, max_bytes : PullByteLimits,
     excluded : ExcludedSets]

TypeOK ==
    /\ PQTypeOK
    /\ proposal_rx \in Seq(Request)
    /\ latest_logical_time \in Rounds
    /\ remaining_local_proof_num \in 0..Cardinality(LocalDigests)
    /\ back_pressure \in BOOLEAN
    /\ running \in BOOLEAN
    /\ sent \in [{"proof", "commit", "proposal", "shutdown"} -> Nat]
    /\ localProofSent \subseteq LocalDigests
    /\ pushedExp \in [Digests -> Rounds \cup {-1}]
    /\ everCommitted \subseteq Digests
    /\ pullTime \in Rounds

(* ProofManager::new(epoch, limit): time (epoch, 0), nothing remaining.    *)
Init ==
    /\ PQInit
    /\ proposal_rx = <<>>
    /\ latest_logical_time = 0
    /\ remaining_local_proof_num = 0
    /\ back_pressure = FALSE
    /\ running = TRUE
    /\ sent = [k \in {"proof", "commit", "proposal", "shutdown"} |-> 0]
    /\ localProofSent = {}
    /\ lastCommitRound = 0
    /\ lastProposalRound = 0
    /\ pushedExp = [d \in Digests |-> -1]
    /\ everCommitted = {}
    /\ pullTime = 0

-----------------------------------------------------------------------------
(***************************************************************************)
(* proof_rx has a single consumer and never fills within the model's      *)
(* bounds, so a command sent on it is modelled as handled in the step that *)
(* delivers it: the handlers below take their inputs from the sender's     *)
(* constraints.  proposal_rx stays a queue, so that select! may serve      *)
(* commands of proof_rx ahead of requests sent before them.               *)
(***************************************************************************)

Count(kind) == sent' = [sent EXCEPT ![kind] = @ + 1]

(* The senders stop once the coordinator has sent Shutdown.                *)
Open == sent["shutdown"] = 0

RecordPush(d, exp) ==
    pushedExp' = [pushedExp EXCEPT ![d] = IF exp > @ THEN exp ELSE @]

(* LocalProof: the ProofCoordinator returns the proof of a local batch,    *)
(* once per batch; handle_local_proof pushes it as local and broadcasts it *)
(* to the peers (the broadcast leaves this actor's state alone).           *)
HandleLocalProof(d, exp) ==
    /\ running /\ Open /\ sent["proof"] < MaxProofMsgs
    /\ d \in LocalDigests \ localProofSent
    /\ Push(d, exp, TRUE)
    /\ RecordPush(d, exp)
    /\ localProofSent' = localProofSent \cup {d}
    /\ Count("proof")
    /\ UNCHANGED <<proposal_rx, latest_logical_time, remaining_local_proof_num,
                   back_pressure, running, lastCommitRound, lastProposalRound,
                   everCommitted, pullTime>>

(* RemoteProof: a peer's proof; handle_remote_proof pushes it as remote.   *)
(* A digest may come again with a later expiration when its author         *)
(* re-creates the same batch.                                              *)
HandleRemoteProof(d, exp) ==
    /\ running /\ Open /\ sent["proof"] < MaxProofMsgs
    /\ d \in RemoteDigests
    /\ Push(d, exp, FALSE)
    /\ RecordPush(d, exp)
    /\ Count("proof")
    /\ UNCHANGED <<proposal_rx, latest_logical_time, remaining_local_proof_num,
                   back_pressure, running, localProofSent, lastCommitRound,
                   lastProposalRound, everCommitted, pullTime>>

(* qs_back_pressure: too many local batches are still outstanding.       *)
QsBackPressure(n) == n > BackPressureLimit

(***************************************************************************)
(* After a commit notification the loop recounts the local proofs with     *)
(* clean_local_proofs(t), reading the map `proofs` the commit left, and    *)
(* publishes the back pressure on back_pressure_tx when it changed.        *)
(***************************************************************************)
UpdateBackPressure(t, proofs) ==
    /\ local_digest_queue' = CleanedLocalQueue(t)
    /\ remaining_local_proof_num' = RemainingLocalProofNum(t, proofs)
    /\ back_pressure' = QsBackPressure(RemainingLocalProofNum(t, proofs))

(***************************************************************************)
(* CommitNotification(t, digests) for a block of an already proposed       *)
(* round: handle_commit_notification (its asserts hold, the commit path    *)
(* sends one epoch and non-decreasing rounds) sets the time and marks the  *)
(* digests committed, then the back pressure is updated.                   *)
(***************************************************************************)
HandleCommitNotification(t, ds) ==
    /\ running /\ Open /\ sent["commit"] < MaxCommits
    /\ lastCommitRound <= t /\ t <= lastProposalRound
    /\ latest_logical_time' = t
    /\ digest_proof' = MarkedCommitted(ds)
    /\ UpdateBackPressure(t, MarkedCommitted(ds))
    /\ lastCommitRound' = t
    /\ everCommitted' = everCommitted \cup ds
    /\ Count("commit")
    /\ UNCHANGED <<digest_queue, proposal_rx, running, localProofSent,
                   lastProposalRound, pushedExp, pullTime>>

(* Shutdown from the QuorumStoreCoordinator: acknowledge, leave the loop.  *)
HandleShutdown ==
    /\ running /\ Open
    /\ running' = FALSE
    /\ Count("shutdown")
    /\ UNCHANGED <<pqVars, proposal_rx, latest_logical_time, remaining_local_proof_num,
                   back_pressure, localProofSent, lastCommitRound, lastProposalRound,
                   histVars>>

(* The proposer sends a GetBlockRequest for a round no lower than before.  *)
SendProposal(req) ==
    /\ Open /\ sent["proposal"] < MaxProposals
    /\ lastProposalRound <= req.round
    /\ proposal_rx' = Append(proposal_rx, req)
    /\ lastProposalRound' = req.round
    /\ Count("proposal")
    /\ UNCHANGED <<pqVars, latest_logical_time, remaining_local_proof_num,
                   back_pressure, running, localProofSent, lastCommitRound, histVars>>

(***************************************************************************)
(* GetBlockRequest(round, max_txns, max_bytes, filter): pull_proofs at     *)
(* (epoch, round) with the filter's digests excluded; the pulled proofs    *)
(* (an empty payload when there are none) are sent on the request's        *)
(* callback: Response is what it sends.                                    *)
(***************************************************************************)
Response(req) == PulledProofs(req.excluded, req.round, req.max_txns, req.max_bytes)

HandleProposalRequest ==
    /\ running /\ proposal_rx # <<>>
    /\ PullProofs(Head(proposal_rx).round)
    /\ pullTime' = IF Head(proposal_rx).round > pullTime THEN Head(proposal_rx).round
                                                        ELSE pullTime
    /\ proposal_rx' = Tail(proposal_rx)
    /\ UNCHANGED <<latest_logical_time, remaining_local_proof_num,
                   back_pressure, running, envVars, pushedExp, everCommitted>>

Next ==
    \/ \E d \in Digests, e \in Rounds : HandleLocalProof(d, e) \/ HandleRemoteProof(d, e)
    \/ \E t \in Rounds, ds \in CommitSets : HandleCommitNotification(t, ds)
    \/ HandleShutdown
    \/ \E r \in Rounds, mt \in PullTxnLimits, mb \in PullByteLimits, ex \in ExcludedSets :
          SendProposal([round |-> r, max_txns |-> mt, max_bytes |-> mb, excluded |-> ex])
    \/ HandleProposalRequest

Spec == Init /\ [][Next]_vars

-----------------------------------------------------------------------------
(* Properties.                                                             *)

QueuedDigests == {digest_queue[i].digest : i \in 1..Len(digest_queue)}

(***************************************************************************)
(* The two expect()s of pull_proofs never panic: every digest in           *)
(* digest_queue has an entry in digest_proof, and no digest is queued      *)
(* twice (a second slot would find the entry already removed when the      *)
(* first slot is drained).  Push, pull and mark_committed all keep it.     *)
(***************************************************************************)
QueueConsistent ==
    /\ \A i \in 1..Len(digest_queue) : digest_proof[digest_queue[i].digest] # Absent
    /\ \A i, j \in 1..Len(digest_queue) :
          i # j => digest_queue[i].digest # digest_queue[j].digest

(***************************************************************************)
(* A GetBlockResponse only carries proofs that are not in the request's    *)
(* exclusion filter, that have not expired at the request's round, and     *)
(* whose transactions and bytes fit the request's max_txns and max_bytes   *)
(* (spec section 8, property 3).  Remote proofs arrive with any            *)
(* expiration, so digest_queue is not sorted and the drain of pull_proofs  *)
(* alone does not remove every expired proof.                              *)
(***************************************************************************)
SumOver(ps, f) == FoldSeq(LAMBDA p, acc : acc + f[p.digest], 0, ps)

ProposalValid ==
    [][HandleProposalRequest =>
         LET req == Head(proposal_rx)
             ps == Response(req)
         IN  /\ \A i \in 1..Len(ps) :
                   /\ ps[i].digest \notin req.excluded
                   /\ ps[i].exp >= req.round
             /\ SumOver(ps, TxnsOf) <= req.max_txns
             /\ SumOver(ps, BytesOf) <= req.max_bytes]_vars

(***************************************************************************)
(* After a commit notification at round t, remaining_local_proof_num is    *)
(* the number of local batches whose proof is still kept uncommitted and   *)
(* has not expired at t, so the back pressure published to the proposer   *)
(* is on exactly when more than back_pressure_local_batch_limit local      *)
(* batches are outstanding.  local_digest_queue and digest_proof are       *)
(* cleaned at different times (commit rounds, proposal rounds).            *)
(***************************************************************************)
OutstandingLocal(t, proofs) ==
    {d \in localProofSent : IsSome(proofs[d]) /\ pushedExp[d] >= t}

BackPressureAccurate ==
    [][sent'["commit"] > sent["commit"] =>
         /\ remaining_local_proof_num' =
               Cardinality(OutstandingLocal(latest_logical_time', digest_proof'))
         /\ back_pressure' =
               (Cardinality(OutstandingLocal(latest_logical_time', digest_proof'))
                  > BackPressureLimit)]_vars

(***************************************************************************)
(* Proof uniqueness (spec section 3): when the same digest arrives again    *)
(* with a later expiration, the later proof wins, so a digest that is not  *)
(* committed keeps a proof until the latest expiration it was pushed with  *)
(* has passed.                                                             *)
(***************************************************************************)
ProofKeptUntilExpiry ==
    \A d \in Digests \ everCommitted :
        pushedExp[d] >= pullTime => IsSome(digest_proof[d])

(***************************************************************************)
(* A commit notification for a digest the queue does not know is a no-op    *)
(* (spec section 8): every entry of digest_proof belongs to a queued proof *)
(* and is removed when that proof expires.                                 *)
(***************************************************************************)
ProofEntriesQueued ==
    \A d \in Digests : digest_proof[d] # Absent => d \in QueuedDigests

=============================================================================
