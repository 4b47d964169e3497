----------------------------- MODULE ProofQueue -----------------------------
(***************************************************************************)
(* The proof-of-store queue of the quorum store's ProofManager             *)
(* (consensus/src/quorum_store/utils.rs, struct ProofQueue).               *)
(*                                                                         *)
(* A proof of store is abstracted to its digest and its expiration round:  *)
(* the aggregate signature is checked before a proof reaches this queue,   *)
(* and num_txns / num_bytes are fixed per digest (TxnsOf, BytesOf).        *)
(* All times lie in one epoch, so a LogicalTime is its round.              *)
(***************************************************************************)
EXTENDS Integers, Sequences, SequencesExt, FiniteSets

CONSTANTS
    Digests,    \* batch digests (model values)
    Rounds,     \* the logical rounds of the epoch, a finite set of Nat
    TxnsOf,     \* [Digests -> Nat]: num_txns of the batch behind a proof
    BytesOf,    \* [Digests -> Nat]: num_bytes of the batch behind a proof
    Absent,     \* digest_proof has no entry for the digest
    Committed   \* digest_proof maps the digest to None ("committed")

ASSUME Rounds \subseteq Nat /\ Rounds # {}
ASSUME TxnsOf \in [Digests -> Nat] /\ BytesOf \in [Digests -> Nat]
ASSUME {Absent, Committed} \cap Rounds = {}

VARIABLES
    digest_queue,        \* queue of all proofs: <<[digest, exp]>>
    local_digest_queue,  \* queue of local proofs, for back pressure
    digest_proof         \* digest -> expiration of the kept proof | Committed | Absent

pqVars == <<digest_queue, local_digest_queue, digest_proof>>

Entry == [digest : Digests, exp : Rounds]

PQTypeOK ==
    /\ digest_queue \in Seq(Entry)
    /\ local_digest_queue \in Seq(Entry)
    /\ digest_proof \in [Digests -> Rounds \cup {Absent, Committed}]

PQInit ==
    /\ digest_queue = <<>>
    /\ local_digest_queue = <<>>
    /\ digest_proof = [d \in Digests |-> Absent]

IsSome(v) == v \in Rounds

(* A push that records every proof in local_digest_queue.                 *)
PushIntoLocalQueue(d, exp, local) ==
    /\ IF digest_proof[d] = Absent
         THEN /\ digest_queue' = Append(digest_queue, [digest |-> d, exp |-> exp])
              /\ digest_proof' = [digest_proof EXCEPT ![d] = exp]
         ELSE /\ digest_queue' = digest_queue
              /\ digest_proof' =
                    IF IsSome(digest_proof[d]) /\ digest_proof[d] < exp
                      THEN [digest_proof EXCEPT ![d] = exp]
                      ELSE digest_proof
    /\ local_digest_queue' = Append(local_digest_queue, [digest |-> d, exp |-> exp])

(* A push that also re-enqueues a digest whose proof it replaces.          *)
PushRequeue(d, exp, local) ==
    /\ IF digest_proof[d] = Absent \/ (IsSome(digest_proof[d]) /\ digest_proof[d] < exp)
         THEN /\ digest_queue' = Append(digest_queue, [digest |-> d, exp |-> exp])
              /\ digest_proof' = [digest_proof EXCEPT ![d] = exp]
         ELSE UNCHANGED <<digest_queue, digest_proof>>
    /\ local_digest_queue' =
          IF local THEN Append(local_digest_queue, [digest |-> d, exp |-> exp])
                   ELSE local_digest_queue

(***************************************************************************)
(* push: a new digest is enqueued; a known, uncommitted digest keeps its   *)
(* queue slot and only has its proof replaced by one expiring later; a     *)
(* committed digest is left alone.  A local proof is always appended to    *)
(* local_digest_queue.                                                     *)
(***************************************************************************)
Push(d, exp, local) ==
    /\ IF digest_proof[d] = Absent
         THEN /\ digest_queue' = Append(digest_queue, [digest |-> d, exp |-> exp])
              /\ digest_proof' = [digest_proof EXCEPT ![d] = exp]
         ELSE /\ digest_queue' = digest_queue
              /\ digest_proof' =
                    IF IsSome(digest_proof[d]) /\ digest_proof[d] < exp
                      THEN [digest_proof EXCEPT ![d] = exp]
                      ELSE digest_proof
    /\ local_digest_queue' =
          IF local THEN Append(local_digest_queue, [digest |-> d, exp |-> exp])
                   ELSE local_digest_queue

(* Number of leading entries of q whose expiration is before t            *)
(* (the take_while(...).count() of pull_proofs and clean_local_proofs).   *)
NumExpired(q, t) ==
    LET firstLive == SelectInSeq(q, LAMBDA e : e.exp >= t)
    IN  IF firstLive = 0 THEN Len(q) ELSE firstLive - 1

(***************************************************************************)
(* The selection loop of pull_proofs over the drained queue q: entries     *)
(* that are unexpired, not excluded and not committed are taken in queue   *)
(* order until the next one would exceed max_txns or max_bytes (break).    *)
(* The proof returned is the one kept in the map, with its expiration.     *)
(***************************************************************************)
(* A selection loop that trusts the drain to have removed every expired   *)
(* proof and so does not test the expiration itself.                      *)
RECURSIVE CollectNoExpiryCheck(_, _, _, _, _, _, _, _, _)
CollectNoExpiryCheck(q, proofs, excluded, t, maxTxns, maxBytes, curTxns, curBytes, acc) ==
    IF q = <<>> THEN acc
    ELSE LET e == Head(q)
             taken == e.digest \notin excluded /\ IsSome(proofs[e.digest])
             txns == curTxns + TxnsOf[e.digest]
             bytes == curBytes + BytesOf[e.digest]
         IN  IF taken /\ (bytes > maxBytes \/ txns > maxTxns) THEN acc
             ELSE CollectNoExpiryCheck(Tail(q), proofs, excluded, t, maxTxns, maxBytes,
                      IF taken THEN txns ELSE curTxns, IF taken THEN bytes ELSE curBytes,
                      IF taken THEN Append(acc, [digest |-> e.digest, exp |-> proofs[e.digest]])
                               ELSE acc)

RECURSIVE Collect(_, _, _, _, _, _, _, _, _)
Collect(q, proofs, excluded, t, maxTxns, maxBytes, curTxns, curBytes, acc) ==
    IF q = <<>> THEN acc
    ELSE LET e == Head(q)
             taken == e.exp >= t /\ e.digest \notin excluded
                         /\ IsSome(proofs[e.digest])
             txns == curTxns + TxnsOf[e.digest]
             bytes == curBytes + BytesOf[e.digest]
         IN  IF taken /\ (bytes > maxBytes \/ txns > maxTxns) THEN acc
             ELSE IF taken
               THEN Collect(Tail(q), proofs, excluded, t, maxTxns, maxBytes, txns, bytes,
                            Append(acc, [digest |-> e.digest, exp |-> proofs[e.digest]]))
               ELSE Collect(Tail(q), proofs, excluded, t, maxTxns, maxBytes,
                            curTxns, curBytes, acc)

(* The queue and map after pull_proofs drained the expired prefix.         *)
DrainedQueue(t) == SubSeq(digest_queue, NumExpired(digest_queue, t) + 1, Len(digest_queue))

DrainedDigests(t) ==
    {digest_queue[i].digest : i \in 1..NumExpired(digest_queue, t)}

DrainedProofs(t) ==
    [d \in Digests |-> IF d \in DrainedDigests(t) THEN Absent ELSE digest_proof[d]]

(***************************************************************************)
(* pull_proofs(excluded, t, max_txns, max_bytes): its effect on the queue  *)
(* (PullProofs) and the proofs it returns (PulledProofs).                  *)
(***************************************************************************)
PulledProofs(excluded, t, maxTxns, maxBytes) ==
    Collect(DrainedQueue(t), DrainedProofs(t), excluded, t, maxTxns, maxBytes, 0, 0, <<>>)

PullProofs(t) ==
    /\ digest_queue' = DrainedQueue(t)
    /\ digest_proof' = DrainedProofs(t)
    /\ UNCHANGED local_digest_queue

(***************************************************************************)
(* clean_local_proofs(t): drops the expired prefix of local_digest_queue   *)
(* and counts the remaining unexpired entries whose proof is still kept    *)
(* and not committed in the map `proofs` it reads.                         *)
(***************************************************************************)
CleanedLocalQueue(t) ==
    SubSeq(local_digest_queue, NumExpired(local_digest_queue, t) + 1, Len(local_digest_queue))

(* A count that takes committed (None) entries for outstanding ones.      *)
RemainingLocalProofNumAny(t, proofs) ==
    LET q == CleanedLocalQueue(t)
    IN  Cardinality({i \in 1..Len(q) : q[i].exp >= t /\ proofs[q[i].digest] # Absent})

RemainingLocalProofNum(t, proofs) ==
    LET q == CleanedLocalQueue(t)
    IN  Cardinality({i \in 1..Len(q) : q[i].exp >= t /\ IsSome(proofs[q[i].digest])})

(* mark_committed(digests): every digest, known or not, maps to None.      *)
MarkedCommitted(ds) ==
    [d \in Digests |-> IF d \in ds THEN Committed ELSE digest_proof[d]]

=============================================================================
