---------------------------- MODULE OutboxWorker ----------------------------
(***************************************************************************)
(* The transactional outbox: the table auth_outbox_messages and the        *)
(* workers that publish its rows to Kafka.  cmd/auth and cmd/outbox each   *)
(* run one worker on the same table, so there are at least two.            *)
(*                                                                         *)
(* A row is claimed in one database transaction (PickPending with FOR      *)
(* UPDATE SKIP LOCKED, then MarkProcessing), published outside of any      *)
(* transaction, and marked sent or failed in a transaction of its own.     *)
(* The status "processing" is a lease: a row that has been processing for  *)
(* StaleAfter seconds may be claimed again.                                *)
(*                                                                         *)
(* Time.  A timestamp is kept as its distance from the present, in         *)
(* seconds: an age grows, and stops to grow when it reaches StaleAfter; a  *)
(* wait shrinks to 0.  No comparison in the code can tell the difference,  *)
(* except the order of two rows that are both due (see Precedes).          *)
(***************************************************************************)
EXTENDS Integers, FiniteSets

CONSTANTS
    Msg,         \* the outbox rows, one per created account
    Worker,      \* the processes that run Worker.Run
    NoMsg,       \* "the loop of RunOnce is between two messages"
    Poison,      \* the rows whose Publish always fails
    BatchSize,   \* the LIMIT of PickPending (50 in NewWorker)
    StaleAfter,  \* seconds until a processing row is stale (300)
    AttemptCap,  \* attempt_count is counted up to this value
    TimeSteps    \* the numbers of seconds the clock may advance by

ASSUME NoMsgAssumption == NoMsg \notin Msg
ASSUME PoisonAssumption == Poison \subseteq Msg
ASSUME BatchSizeAssumption == BatchSize \in Nat \ {0}
ASSUME StaleAfterAssumption == StaleAfter \in Nat \ {0}
\* retryBackoff does not tell apart attempts after the fifth: a counter that
\* stops at 5 or later computes every delay of the code, one that stops
\* earlier leaves the longer delays out.
ASSUME AttemptCapAssumption == AttemptCap \in Nat \ {0}
ASSUME TimeStepsAssumption == TimeSteps \subseteq Nat \ {0}

VARIABLES
    \* the table
    status,      \* Msg -> status column, "absent" before the INSERT
    attempts,    \* Msg -> attempt_count
    updatedAge,  \* Msg -> seconds since updated_at
    nextWait,    \* Msg -> seconds until next_attempt_at, or NoTime for NULL
    publishedAt, \* the rows whose published_at is not NULL
    older,       \* <<a, b>>: row a has the smaller created_at
    \* the workers
    pc,          \* where in RunOnce a worker is
    batch,       \* Worker -> the rows of `messages` it still has to handle
    snapshot,    \* Worker -> AttemptCount of those rows as PickPending read it
    current,     \* Worker -> the row whose Publish has returned
    leaseAge,    \* Worker -> seconds since its MarkProcessing statements
    retryIn,     \* Worker -> seconds until the nextAttemptAt it computed
    \* the Kafka topic
    delivered,   \* Msg -> copies in the topic, counted up to 2
    \* history, for the properties only
    overrun,     \* rows some worker has held for StaleAfter seconds or more
    disturbed,   \* rows delivered by a Publish whose outcome was then lost
    late         \* <<a, b>>: row a was committed when the younger b was claimed already

table   == <<status, attempts, updatedAge, nextWait, publishedAt, older>>
workers == <<pc, batch, snapshot, current, leaseAge, retryIn>>
history == <<overrun, disturbed, late>>
vars    == <<table, workers, delivered, history>>

NoTime == -1
Status == {"absent", "pending", "processing", "sent", "failed"}
\* idle: RunOnce is not running; claiming: the claim transaction is open;
\* publishing: at the head of the loop over `messages`; marking: Publish
\* succeeded, MarkSent is next; failing: Publish failed, MarkFailed is next.
PC == {"idle", "claiming", "publishing", "marking", "failing"}

CapAt(n, cap) == IF n > cap THEN cap ELSE n
Monus(n, d) == IF n > d THEN n - d ELSE 0

-----------------------------------------------------------------------------
(* Operators of the worker and of the repository.                          *)

\* Mutant: a linear delay with the wrong origin.
retryBackoff_Linear(attempt) == 15 * (attempt - 2)

retryBackoff(attempt) ==
    CASE attempt <= 1 -> 5
      [] attempt = 2 -> 15
      [] attempt = 3 -> 30
      [] attempt \in {4, 5} -> 60
      [] OTHER -> 300

\* The rows a worker has selected in its open claim transaction.
LockedBy(w) == IF pc[w] = "claiming" THEN batch[w] ELSE {}

\* An UPDATE of a row waits for the claim transaction that locked it.
Unlocked(w, m) == \A v \in Worker \ {w} : m \notin LockedBy(v)

\* Mutant: a processing row is due at once.
Due_NoLease(m) ==
    \/ status[m] \in {"pending", "processing"}
    \/ status[m] = "failed" /\ nextWait[m] \in {NoTime, 0}

\* Mutant: nobody takes over a stale processing row.
Due_NoTakeover(m) ==
    \/ status[m] = "pending"
    \/ status[m] = "failed" /\ nextWait[m] \in {NoTime, 0}

\* The WHERE clause of PickPending.
Due(m) ==
    \/ status[m] = "pending"
    \/ status[m] = "failed" /\ nextWait[m] \in {NoTime, 0}
    \/ status[m] = "processing" /\ updatedAge[m] >= StaleAfter

\* Mutant: SELECT without FOR UPDATE SKIP LOCKED.
Pickable_NoLock == {m \in Msg : Due(m)}

\* What SKIP LOCKED leaves of it.
Pickable == {m \in Msg : Due(m) /\ \A v \in Worker : m \notin LockedBy(v)}

\* Mutant: the youngest row first.
Precedes_Descending(a, b) ==
    \/ nextWait[a] # NoTime /\ nextWait[b] = NoTime
    \/ nextWait[a] = NoTime /\ nextWait[b] = NoTime /\ <<b, a>> \in older

\* ORDER BY next_attempt_at, created_at, where PostgreSQL sorts NULL last.
\* Two rows that are both due for a retry have a wait of 0, and are left
\* unordered: the model allows either order.
Precedes(a, b) ==
    \/ nextWait[a] # NoTime /\ nextWait[b] = NoTime
    \/ nextWait[a] = NoTime /\ nextWait[b] = NoTime /\ <<a, b>> \in older

\* The sets of rows the query may return.
Picks ==
    {S \in SUBSET Pickable :
        /\ Cardinality(S) = CapAt(Cardinality(Pickable), BatchSize)
        /\ \A a \in S, b \in Pickable \ S : ~Precedes(b, a)}

Holds(w, m) == m \in batch[w]

-----------------------------------------------------------------------------
Init ==
    /\ status = [m \in Msg |-> "absent"]
    /\ attempts = [m \in Msg |-> 0]
    /\ updatedAge = [m \in Msg |-> 0]
    /\ nextWait = [m \in Msg |-> NoTime]
    /\ publishedAt = {}
    /\ older = {}
    /\ pc = [w \in Worker |-> "idle"]
    /\ batch = [w \in Worker |-> {}]
    /\ snapshot = [w \in Worker |-> [m \in Msg |-> 0]]
    /\ current = [w \in Worker |-> NoMsg]
    /\ leaseAge = [w \in Worker |-> 0]
    /\ retryIn = [w \in Worker |-> 0]
    /\ delivered = [m \in Msg |-> 0]
    /\ overrun = {}
    /\ disturbed = {}
    /\ late = {}

Rows == {m \in Msg : status[m] # "absent"}
Claimed(m) == status[m] # "pending" \/ \E w \in Worker : m \in LockedBy(w)

\* The rows that may have a smaller created_at than a row that commits now: the
\* timestamp was taken before the INSERTs of its transaction, others' before
\* or after it, so it may come anywhere among the rows that are visible.
Elders == {S \in SUBSET Rows : \A a \in S, b \in Rows \ S : <<b, a>> \notin older}

\* The INSERT of a transaction that creates an account commits.
Enqueue(m) ==
    /\ status[m] = "absent"
    /\ status' = [status EXCEPT ![m] = "pending"]
    /\ updatedAge' = [updatedAge EXCEPT ![m] = 0]
    /\ \E S \in Elders :
        /\ older' = older \cup (S \X {m}) \cup ({m} \X (Rows \ S))
        /\ late' = late \cup ({m} \X {b \in Rows \ S : Claimed(b)})
    /\ UNCHANGED <<attempts, nextWait, publishedAt, workers, delivered, overrun, disturbed>>

\* The worker leaves RunOnce, by whatever path; what it had read is gone.
LeaveRunOnce(w) ==
    /\ pc' = [pc EXCEPT ![w] = "idle"]
    /\ batch' = [batch EXCEPT ![w] = {}]
    /\ snapshot' = [snapshot EXCEPT ![w] = [m \in Msg |-> 0]]
    /\ current' = [current EXCEPT ![w] = NoMsg]
    /\ leaseAge' = [leaseAge EXCEPT ![w] = 0]
    /\ retryIn' = [retryIn EXCEPT ![w] = 0]

\* The claim transaction selects and locks a batch, and writes the
\* MarkProcessing rows, which nobody sees before the commit.  An iteration
\* that finds no row changes nothing and is left out.
PickPending(w) ==
    /\ pc[w] = "idle"
    /\ Pickable # {}
    /\ \E S \in Picks :
        /\ batch' = [batch EXCEPT ![w] = S]
        /\ snapshot' = [snapshot EXCEPT ![w] =
                            [m \in Msg |-> IF m \in S THEN attempts[m] ELSE 0]]
    /\ pc' = [pc EXCEPT ![w] = "claiming"]
    /\ leaseAge' = [leaseAge EXCEPT ![w] = 0]
    /\ UNCHANGED <<current, retryIn, table, delivered, history>>

\* Mutant: the claim already counts as an attempt.
MarkProcessing_Counts(w) ==
    /\ status' = [m \in Msg |-> IF m \in batch[w] THEN "processing" ELSE status[m]]
    /\ updatedAge' = [m \in Msg |-> IF m \in batch[w] THEN leaseAge[w] ELSE updatedAge[m]]
    /\ nextWait' = [m \in Msg |-> IF m \in batch[w] THEN NoTime ELSE nextWait[m]]
    /\ attempts' = [m \in Msg |->
                       IF m \in batch[w] THEN CapAt(attempts[m] + 1, AttemptCap) ELSE attempts[m]]
    /\ UNCHANGED <<publishedAt, older>>

\* What the commit of the claim transaction makes visible.
MarkProcessing(w) ==
    /\ status' = [m \in Msg |-> IF m \in batch[w] THEN "processing" ELSE status[m]]
    /\ updatedAge' = [m \in Msg |-> IF m \in batch[w] THEN leaseAge[w] ELSE updatedAge[m]]
    /\ nextWait' = [m \in Msg |-> IF m \in batch[w] THEN NoTime ELSE nextWait[m]]
    /\ UNCHANGED <<attempts, publishedAt, older>>

ClaimCommit(w) ==
    /\ pc[w] = "claiming"
    /\ MarkProcessing(w)
    /\ pc' = [pc EXCEPT ![w] = "publishing"]
    /\ UNCHANGED <<batch, snapshot, current, leaseAge, retryIn, delivered, history>>

\* Do returns an error although the server committed: RunOnce returns, and
\* the rows stay in processing with nobody working on them.
ClaimCommitLost(w) ==
    /\ pc[w] = "claiming"
    /\ MarkProcessing(w)
    /\ LeaveRunOnce(w)
    /\ UNCHANGED <<delivered, history>>

\* PickPending, one of the MarkProcessing or the commit fails: rollback.
ClaimRollback(w) ==
    /\ pc[w] = "claiming"
    /\ LeaveRunOnce(w)
    /\ UNCHANGED <<table, delivered, history>>

Deliver(m) == delivered' = [delivered EXCEPT ![m] = CapAt(@ + 1, 2)]

PublishOk(w, m) ==
    /\ pc[w] = "publishing"
    /\ m \in batch[w] \ Poison
    /\ Deliver(m)
    /\ current' = [current EXCEPT ![w] = m]
    /\ pc' = [pc EXCEPT ![w] = "marking"]
    /\ UNCHANGED <<batch, snapshot, leaseAge, retryIn, table, history>>

\* Mutant: the error of Publish is dropped and the row goes on to MarkSent.
PublishFails_Swallowed(w, m) ==
    /\ pc[w] = "publishing"
    /\ m \in batch[w]
    /\ current' = [current EXCEPT ![w] = m]
    /\ pc' = [pc EXCEPT ![w] = "marking"]
    /\ UNCHANGED <<batch, snapshot, leaseAge, retryIn, table, delivered, history>>

\* Publish returns an error: the message was not delivered, or it was and
\* the acknowledgement was lost.  nextAttemptAt is computed here, from the
\* attempt count the worker has in memory.
PublishFails(w, m) ==
    /\ pc[w] = "publishing"
    /\ m \in batch[w]
    /\ \/ UNCHANGED <<delivered, disturbed>>
       \/ /\ m \notin Poison
          /\ Deliver(m)
          /\ disturbed' = disturbed \cup {m}
    /\ current' = [current EXCEPT ![w] = m]
    /\ retryIn' = [retryIn EXCEPT ![w] = retryBackoff(snapshot[w][m] + 1)]
    /\ pc' = [pc EXCEPT ![w] = "failing"]
    /\ UNCHANGED <<batch, snapshot, leaseAge, table, overrun, late>>

\* The loop of RunOnce goes to its next message, or ends.
NextMessage(w) ==
    LET rest == batch[w] \ {current[w]} IN
    IF rest = {}
    THEN LeaveRunOnce(w)
    ELSE /\ batch' = [batch EXCEPT ![w] = rest]
         /\ pc' = [pc EXCEPT ![w] = "publishing"]
         /\ snapshot' = [snapshot EXCEPT ![w] =
                              [m \in Msg |-> IF m \in rest THEN snapshot[w][m] ELSE 0]]
         /\ current' = [current EXCEPT ![w] = NoMsg]
         /\ retryIn' = [retryIn EXCEPT ![w] = 0]
         /\ UNCHANGED leaseAge

\* The UPDATE of MarkSent.  It names the row by its key alone: the row may
\* have been claimed by another worker in the meantime.
SetSent(m) ==
    /\ status' = [status EXCEPT ![m] = "sent"]
    /\ publishedAt' = publishedAt \cup {m}
    /\ updatedAge' = [updatedAge EXCEPT ![m] = 0]
    /\ nextWait' = [nextWait EXCEPT ![m] = NoTime]
    /\ UNCHANGED <<attempts, older>>

MarkSent(w, m) ==
    /\ pc[w] = "marking"
    /\ m = current[w]
    /\ Unlocked(w, m)
    /\ SetSent(m)
    /\ NextMessage(w)
    /\ UNCHANGED <<delivered, history>>

\* The transaction of MarkSent reports an error, applied or not: RunOnce
\* returns and drops the rest of the batch, which stays in processing.
MarkSentError(w) ==
    /\ pc[w] = "marking"
    /\ \/ /\ UNCHANGED table
          /\ disturbed' = disturbed \cup {current[w]}
       \/ /\ Unlocked(w, current[w])
          /\ SetSent(current[w])
          /\ UNCHANGED disturbed
    /\ LeaveRunOnce(w)
    /\ UNCHANGED <<delivered, overrun, late>>

\* Mutant: MarkFailed writes published_at, as MarkSent does.
SetFailed_Published(m, wait) ==
    /\ status' = [status EXCEPT ![m] = "failed"]
    /\ attempts' = [attempts EXCEPT ![m] = CapAt(@ + 1, AttemptCap)]
    /\ updatedAge' = [updatedAge EXCEPT ![m] = 0]
    /\ nextWait' = [nextWait EXCEPT ![m] = wait]
    /\ publishedAt' = publishedAt \cup {m}
    /\ UNCHANGED older

\* The UPDATE of MarkFailed; published_at keeps its value.
SetFailed(m, wait) ==
    /\ status' = [status EXCEPT ![m] = "failed"]
    /\ attempts' = [attempts EXCEPT ![m] = CapAt(@ + 1, AttemptCap)]
    /\ updatedAge' = [updatedAge EXCEPT ![m] = 0]
    /\ nextWait' = [nextWait EXCEPT ![m] = wait]
    /\ UNCHANGED <<publishedAt, older>>

MarkFailed(w) ==
    /\ pc[w] = "failing"
    /\ Unlocked(w, current[w])
    /\ SetFailed(current[w], retryIn[w])
    /\ NextMessage(w)
    /\ UNCHANGED <<delivered, history>>

\* The error of the MarkFailed transaction is dropped: the row stays in
\* processing until it is stale.
MarkFailedIgnored(w) ==
    /\ pc[w] = "failing"
    /\ NextMessage(w)
    /\ UNCHANGED <<table, delivered, history>>

\* The process ends in the middle of RunOnce (Close does not wait for the
\* worker) or dies; an open transaction is rolled back.  It starts again
\* with a fresh worker.
Crash(w) ==
    /\ pc[w] # "idle"
    /\ LeaveRunOnce(w)
    /\ disturbed' = IF pc[w] = "marking" THEN disturbed \cup {current[w]} ELSE disturbed
    /\ UNCHANGED <<table, delivered, overrun, late>>

Tick(d) ==
    /\ updatedAge' = [m \in Msg |-> CapAt(updatedAge[m] + d, StaleAfter)]
    /\ nextWait' = [m \in Msg |->
                       IF nextWait[m] = NoTime THEN NoTime ELSE Monus(nextWait[m], d)]
    /\ leaseAge' = [w \in Worker |->
                       IF pc[w] = "idle" THEN 0 ELSE CapAt(leaseAge[w] + d, StaleAfter)]
    /\ retryIn' = [w \in Worker |-> Monus(retryIn[w], d)]
    /\ overrun' = overrun \cup
                  {m \in Msg : \E w \in Worker :
                                  Holds(w, m) /\ leaseAge[w] + d >= StaleAfter}
    /\ UNCHANGED <<status, attempts, publishedAt, older,
                   pc, batch, snapshot, current, delivered, disturbed, late>>

WorkerStep(w) ==
    \/ PickPending(w)
    \/ ClaimCommit(w)
    \/ ClaimCommitLost(w)
    \/ ClaimRollback(w)
    \/ \E m \in Msg : PublishOk(w, m) \/ PublishFails(w, m) \/ MarkSent(w, m)
    \/ MarkSentError(w)
    \/ MarkFailed(w)
    \/ MarkFailedIgnored(w)
    \/ Crash(w)

Next ==
    \/ \E m \in Msg : Enqueue(m)
    \/ \E w \in Worker : WorkerStep(w)
    \/ \E d \in TimeSteps : Tick(d)

Spec == Init /\ [][Next]_vars

\* Time passes and every worker's ticker fires.  The database and the broker
\* may fail any number of times, but not each time: every step ends, and a
\* claim, a publication or a MarkSent of a row that is tried again and again
\* succeeds in the end (a MarkSent also when it first has to wait for the lock
\* of a claim).
RunFairness(w) ==
    /\ WF_vars(ClaimCommit(w) \/ ClaimCommitLost(w) \/ ClaimRollback(w))
    /\ WF_vars(\E m \in Msg : PublishOk(w, m) \/ PublishFails(w, m))
    /\ WF_vars(MarkFailed(w) \/ MarkFailedIgnored(w))
    /\ \A m \in Msg \ Poison :
        /\ SF_vars(m \in batch[w] /\ ClaimCommit(w))
        /\ SF_vars(PublishOk(w, m))
        /\ []<>(pc[w] = "marking" /\ current[w] = m) => []<><<MarkSent(w, m)>>_vars

Fairness ==
    /\ WF_vars(\E d \in TimeSteps : Tick(d))
    /\ \A w \in Worker : WF_vars(PickPending(w)) /\ RunFairness(w)

FairSpec == Spec /\ Fairness

-----------------------------------------------------------------------------
(* Properties.                                                             *)

\* Every variable stays in its type: the columns of the table and the local
\* variables of RunOnce.
TypeOK ==
    /\ status \in [Msg -> Status]
    /\ attempts \in [Msg -> 0..AttemptCap]
    /\ updatedAge \in [Msg -> 0..StaleAfter]
    /\ nextWait \in [Msg -> {NoTime} \cup Nat]
    /\ publishedAt \in SUBSET Msg
    /\ older \in SUBSET (Msg \X Msg)
    /\ pc \in [Worker -> PC]
    /\ batch \in [Worker -> SUBSET Msg]
    /\ snapshot \in [Worker -> [Msg -> 0..AttemptCap]]
    /\ current \in [Worker -> Msg \cup {NoMsg}]
    /\ \A w \in Worker : pc[w] \in {"marking", "failing"} => current[w] \in Msg
    /\ leaseAge \in [Worker -> 0..StaleAfter]
    /\ retryIn \in [Worker -> Nat]
    /\ delivered \in [Msg -> 0..2]
    /\ overrun \in SUBSET Msg
    /\ disturbed \in SUBSET Msg
    /\ late \in SUBSET (Msg \X Msg)

\* The lease works: as long as no worker has held a row for StaleAfter
\* seconds, at most one worker has it in its batch, whatever claims, lost
\* commits, failures and crashes came before (PickPending's WHERE clause and
\* its SKIP LOCKED against the unconditional MarkSent and MarkFailed).
LeaseExclusive ==
    \A m \in Msg \ overrun : \A v, w \in Worker :
        Holds(v, m) /\ Holds(w, m) => v = w

\* RunOnce computes nextAttemptAt from the AttemptCount it read when it
\* claimed the row, MarkFailed increments the column: until the lease
\* overruns the two agree, so the delay written is the one of the attempt.
SnapshotIsCurrent ==
    \A m \in Msg \ overrun : \A w \in Worker :
        Holds(w, m) => snapshot[w][m] = attempts[m]

\* Duplicates have a cause: a row whose lease never overran, and for which
\* no acknowledgement, no MarkSent and no process was lost after a delivery,
\* is published at most once, however many workers poll the table and
\* however often Publish failed before.
OnceUnlessDisturbed ==
    \A m \in Msg \ (overrun \cup disturbed) : delivered[m] <= 1

\* A row that says sent was really delivered, and says when: no path marks a
\* row as sent that Kafka never acknowledged.
SentWasDelivered ==
    \A m \in Msg : status[m] = "sent" => delivered[m] > 0 /\ m \in publishedAt

\* sent is final: a row goes back to processing or failed only if a worker
\* held it beyond its lease (MarkFailed has no condition on the status).
SentIsFinal ==
    [][\A m \in Msg \ overrun : status[m] = "sent" => status'[m] = "sent"]_vars

\* A single worker takes rows in the order of created_at as far as it can see it:
\* no row is delivered while an older one still waits for its first claim,
\* although LIMIT cuts the result of PickPending and failed rows sort before new
\* ones.  The one exception is an older row that came too late: created_at is
\* taken before the transaction commits, and the younger row was claimed before
\* that.  (With two workers a claim that is rolled back puts its rows behind the
\* ones the other worker took meanwhile.)
NoOvertaking ==
    \A a, b \in Msg :
        <<a, b>> \in older \ late /\ delivered[b] > 0 => status[a] # "pending"

\* No row is stranded: whatever a worker left behind in pending, failed or
\* processing, a row that can be published is marked sent in the end, even
\* when other rows in the table fail for ever.
EveryRowIsSent ==
    \A m \in Msg \ Poison : status[m] # "absent" ~> status[m] = "sent"

\* The inductive strengthening behind LeaseExclusive, SnapshotIsCurrent and
\* SentIsFinal: the holder of a row whose lease never overran is alone, its
\* claim is younger than StaleAfter, and once the claim is committed the
\* row says processing and is exactly as old as the claim, so that Due is
\* false for it.
LeaseInv ==
    \A m \in Msg \ overrun : \A w \in Worker :
        Holds(w, m) =>
            /\ \A v \in Worker : Holds(v, m) => v = w
            /\ leaseAge[w] < StaleAfter
            /\ snapshot[w][m] = attempts[m]
            /\ status[m] \notin {"absent", "sent"}
            /\ pc[w] # "claiming" => status[m] = "processing" /\ updatedAge[m] = leaseAge[w]

\* An idle worker has no batch; the row whose Publish returned is in it.
BatchInv ==
    \A w \in Worker :
        /\ pc[w] = "idle" => batch[w] = {}
        /\ pc[w] \in {"marking", "failing"} => current[w] \in batch[w]

\* The strengthening behind SentWasDelivered and the refinement.
SentInv ==
    /\ \A m \in Msg :
        /\ status[m] = "sent" => m \in publishedAt
        /\ m \in publishedAt => delivered[m] > 0
        /\ delivered[m] > 0 => status[m] # "absent"
    /\ \A w \in Worker :
        /\ \A m \in batch[w] : status[m] # "absent"
        /\ pc[w] = "marking" => delivered[current[w]] > 0

\* The strengthening behind OnceUnlessDisturbed: of an undisturbed row, the
\* one copy in the topic is accounted for by the status sent or by the one
\* worker that is about to write it.
OnceInv ==
    \A m \in Msg \ (overrun \cup disturbed) :
        /\ delivered[m] <= 1
        /\ delivered[m] = 1 =>
              \/ status[m] = "sent"
              \/ \E w \in Worker : pc[w] = "marking" /\ current[w] = m

\* The strengthening behind NoOvertaking: behind a row that waits for its first
\* claim all younger rows wait too, unless it came too late for them, and a claim
\* that is open for one of them is open for the older row as well.
OrderInv ==
    /\ \A m \in Msg : status[m] \in {"absent", "pending"} => nextWait[m] = NoTime /\ delivered[m] = 0
    /\ \A w \in Worker : pc[w] # "claiming" => \A m \in batch[w] : status[m] # "pending"
    /\ \A a, b \in Msg :
        <<a, b>> \in older \ late =>
            /\ status[a] # "absent" /\ status[b] # "absent"
            /\ status[a] = "pending" =>
                 /\ status[b] = "pending"
                 /\ \A w \in Worker :
                      Holds(w, b) => pc[w] = "claiming" /\ Holds(w, a)

\* The outbox implements at-least-once delivery: accepted is "the row
\* exists", arrived "the topic has a copy", confirmed "published_at is set".
Delivery == INSTANCE OutboxDelivery WITH
    Deliverable <- Msg \ Poison,
    accepted <- {m \in Msg : status[m] # "absent"},
    arrived <- {m \in Msg : delivered[m] > 0},
    confirmed <- publishedAt

\* The safety part of the refinement: each step of the table, the workers
\* and Kafka is a step of OutboxDelivery or leaves it alone.
ImplementsDelivery == Delivery!ASafeSpec

\* Its liveness: every accepted event is confirmed.
ImplementsConfirmation == Delivery!AllConfirmed
=============================================================================
