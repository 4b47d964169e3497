--------------------------- MODULE EmitModeParams ---------------------------
(***************************************************************************)
(* How a request picks its load (emitter/mod.rs): EmitJobMode::create      *)
(* turns the command line's mempool_backlog / target_tps into a mode, and  *)
(* EmitJobRequest::calculate_mode_params turns the mode, the number of     *)
(* REST clients, max_transactions_per_account and the expiration into the  *)
(* workers per endpoint, the transactions per account and the wait between *)
(* rounds.  Pure arithmetic on usize; an assert!, an expect or a division  *)
(* by zero is the outcome "panic".  Latency sampling, jitter and offsets   *)
(* only shape logging and start times and are left out.                    *)
(***************************************************************************)
EXTENDS Integers, Sequences
LOCAL INSTANCE SequencesExt

None == -1   \* Option<usize>::None, kept apart from every usize
Panic == [kind |-> "panic"]

MaxOf(a, b) == IF a >= b THEN a ELSE b
MinOf(a, b) == IF a <= b THEN a ELSE b

(* EmitJobMode::create: exactly one of the two options must be set.        *)
Create(backlog, tps) ==
    CASE backlog # None /\ tps = None -> [kind |-> "MaxLoad", backlog |-> backlog]
      [] backlog = None /\ tps # None -> [kind |-> "ConstTps", tps |-> tps]
      [] OTHER                        -> Panic

(* The MaxLoad branch: enough workers per endpoint for the backlog, at     *)
(* least one; transactions per account clamped by the worker count.       *)
MaxLoadWorkersOffByOne(backlog, clients, tpa) == backlog \div (clients * tpa) + 1
MaxLoadWorkers(backlog, clients, tpa) == MaxOf(backlog \div (clients * tpa), 1)

MaxLoadParams(backlog, clients, maxTpa) ==
    IF clients * maxTpa = 0 THEN Panic
    ELSE LET w == MaxLoadWorkers(backlog, clients, maxTpa)
         IN [kind |-> "MaxLoad", workers |-> w, waitSecs |-> 0,
             tpa |-> MinOf(maxTpa, w * clients)]

(* The ConstTps branch: one round per expiration + 180 s, and the workers  *)
(* per endpoint that reach tps over that wait.                              *)
ConstTpsParams(tps, clients, maxTpa, expSecs) ==
    LET waitSecs == expSecs + 180
        tpa == MinOf(maxTpa, tps)
    IN IF tpa = 0 \/ clients = 0 THEN Panic
       ELSE LET w == ((tps * waitSecs) \div clients) \div tpa
            IN IF w = 0 THEN Panic
               ELSE [kind |-> "ConstTps", workers |-> w, waitSecs |-> waitSecs,
                     tpa |-> tpa]

CalculateModeParams(mode, clients, maxTpa, expSecs) ==
    IF mode.kind = "MaxLoad" THEN MaxLoadParams(mode.backlog, clients, maxTpa)
    ELSE ConstTpsParams(mode.tps, clients, maxTpa, expSecs)

(* Transactions the job keeps in flight per round.                          *)
InFlight(p, clients) == clients * p.workers * p.tpa

(***************************************************************************)
(* emit_transactions_with_cluster (wrappers.rs) groups the transaction     *)
(* types of the command line into transaction_mix_per_phase by their       *)
(* phases: type i is pushed onto the vector of its phase, a phase equal to *)
(* the number of vectors opens a new one, and a larger one fails the       *)
(* assert! "cannot skip phases".  Types are their positions 1..n; weights  *)
(* travel with them and are left out.  No phases means phase 0 for all.    *)
(***************************************************************************)
NoMix == [ok |-> FALSE, mix |-> <<>>]

PhaseAcceptedStrict(mix, p) == p < Len(mix)
PhaseAccepted(mix, p) == p <= Len(mix)

PushType(acc, i, p) ==
    IF ~acc.ok \/ ~PhaseAccepted(acc.mix, p) THEN NoMix
    ELSE LET opened == IF p = Len(acc.mix) THEN Append(acc.mix, <<>>) ELSE acc.mix
         IN [ok |-> TRUE,
             mix |-> [opened EXCEPT ![p + 1] = Append(@, i)]]

MixPerPhase(numTypes, phases) ==
    LET given == IF phases = <<>> THEN [i \in 1..numTypes |-> 0] ELSE phases
    IN IF Len(given) # numTypes THEN NoMix
       ELSE FoldLeftDomain(LAMBDA acc, i : PushType(acc, i, given[i]),
                           [ok |-> TRUE, mix |-> <<>>], given)

=============================================================================
