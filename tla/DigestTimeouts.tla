--------------------------- MODULE DigestTimeouts ---------------------------
(***************************************************************************)
(* DigestTimeouts (consensus/src/quorum_store/utils.rs): the wall-clock    *)
(* deadlines after which a pending proof is given up.  add_digest stamps   *)
(* a digest with now + timeout and appends it; expire returns the leading  *)
(* entries whose deadline has passed.  The clock is chrono::Utc::now(),    *)
(* read in milliseconds; it advances, and may be stepped back by at most   *)
(* MaxStepBack (a wall clock is not monotonic).                            *)
(***************************************************************************)
EXTENDS Integers, Sequences, SequencesExt

CONSTANTS
    Digests,      \* digests of batches waiting for their proof (model values)
    Timeout,      \* the timeout passed to add_digest, in clock ticks
    MaxClock,     \* bound on the clock
    MaxStepBack,  \* the largest step back of the wall clock (0: monotonic)
    MaxBackSteps  \* bound on the number of steps back

ASSUME Timeout \in Nat /\ MaxClock \in Nat /\ MaxStepBack \in Nat /\ MaxBackSteps \in Nat

VARIABLES
    timeouts,   \* VecDeque<(i64, HashValue)>: <<[expiry, digest]>>
    now,        \* Utc::now().timestamp_millis()
    backSteps,  \* steps back taken by the clock so far
    added,      \* digests given to add_digest
    expired     \* digests returned by expire

vars == <<timeouts, now, backSteps, added, expired>>

TypeOK ==
    /\ timeouts \in Seq([expiry : Nat, digest : added \ expired])
    /\ now \in 0..MaxClock
    /\ backSteps \in 0..MaxBackSteps
    /\ added \subseteq Digests
    /\ expired \subseteq added

(* DigestTimeouts::new()                                                    *)
Init ==
    /\ timeouts = <<>>
    /\ now \in 0..MaxClock
    /\ backSteps = 0
    /\ added = {}
    /\ expired = {}

(* add_digest(digest, timeout): each pending digest is added once, early   *)
(* enough that its deadline falls within the clock's bound.                *)
AddDigest(d) ==
    /\ d \notin added
    /\ now + Timeout <= MaxClock
    /\ timeouts' = Append(timeouts, [expiry |-> now + Timeout, digest |-> d])
    /\ added' = added \cup {d}
    /\ UNCHANGED <<now, backSteps, expired>>

(* A take_while that stops at the first entry not strictly overdue.        *)
NumDueStrict(q, cur) ==
    LET firstPending == SelectInSeq(q, LAMBDA e : cur <= e.expiry)
    IN  IF firstPending = 0 THEN Len(q) ELSE firstPending - 1

(* take_while(cur_time >= expiration_time).count()                         *)
NumDue(q, cur) ==
    LET firstPending == SelectInSeq(q, LAMBDA e : cur < e.expiry)
    IN  IF firstPending = 0 THEN Len(q) ELSE firstPending - 1

(* An expire() that returns the overdue entries without draining them.     *)
ExpireNoDrain ==
    LET n == NumDue(timeouts, now)
    IN  /\ expired' = expired \cup {timeouts[i].digest : i \in 1..n}
        /\ UNCHANGED <<timeouts, now, backSteps, added>>

(* expire(): drain and return the leading overdue entries.                  *)
Expire ==
    LET n == NumDue(timeouts, now)
    IN  /\ timeouts' = SubSeq(timeouts, n + 1, Len(timeouts))
        /\ expired' = expired \cup {timeouts[i].digest : i \in 1..n}
        /\ UNCHANGED <<now, backSteps, added>>

ClockAdvance ==
    /\ now < MaxClock
    /\ now' = now + 1
    /\ UNCHANGED <<timeouts, backSteps, added, expired>>

ClockStepBack ==
    /\ backSteps < MaxBackSteps
    /\ \E s \in 1..MaxStepBack :
          /\ s <= now
          /\ now' = now - s
    /\ backSteps' = backSteps + 1
    /\ UNCHANGED <<timeouts, added, expired>>

Next ==
    \/ \E d \in Digests : AddDigest(d)
    \/ Expire
    \/ ClockAdvance
    \/ ClockStepBack

Spec == Init /\ [][Next]_vars

(***************************************************************************)
(* A call to expire() returns every digest whose deadline has passed: no   *)
(* entry it leaves behind is already overdue.  The drain looks only at the *)
(* front of the deque, so this needs the deque to stay ordered by deadline *)
(* over many add_digest calls made at different times.                    *)
(***************************************************************************)
ExpireComplete ==
    [][Expire => \A i \in 1..Len(timeouts') : timeouts'[i].expiry > now]_vars

(***************************************************************************)
(* While the wall clock has only moved forward, a call to expire() leaves  *)
(* no overdue entry behind: deadlines stamped at non-decreasing times keep *)
(* the deque ordered, and draining its overdue prefix drains every overdue *)
(* entry.  (ExpireComplete drops the condition on the clock.)              *)
(***************************************************************************)
ExpireCompleteWhileMonotone ==
    [][Expire /\ backSteps = 0 =>
         \A i \in 1..Len(timeouts') : timeouts'[i].expiry > now]_vars


=============================================================================
