---------------------------- MODULE DlqConsumer -----------------------------
(***************************************************************************)
(* The Kafka consumer with a dead letter queue (pkg/adapters/kafka/        *)
(* consumer/dql): the loop of ConsumerDQL.Run, and in each session one     *)
(* partition's ConsumeClaim with its claim mode, processBatch and the      *)
(* writes to the dead letter queue.  Partitions share nothing but counters *)
(* for the logs, so one of them is enough.                                 *)
(*                                                                         *)
(* A message is its offset.  A session starts at the committed offset, or, *)
(* as long as the group has committed nothing, where offset_initial says;  *)
(* it marks offsets as it goes, and sarama commits the highest mark from   *)
(* time to time and when the session ends.  A crash loses what was marked  *)
(* and not committed.                                                      *)
(***************************************************************************)
EXTENDS Integers, FiniteSets

CONSTANTS
    LogSize,     \* the messages of the partition: offsets 0..LogSize-1
    Undecodable, \* the offsets whose Unmarshal fails
    BatchSize,   \* messages per batch; 1 is the single mode
    DlqSave,     \* save_to_dlq
    BatchSaver,  \* a SaveBatchFunction is configured
    DlqRetries,  \* attempts of one save, at least 1
    MaxRestarts  \* bound on rebalances and crashes

ASSUME LogSizeAssumption == LogSize \in Nat
ASSUME UndecodableAssumption == Undecodable \subseteq 0..(LogSize - 1)
ASSUME BatchSizeAssumption == BatchSize \in Nat \ {0}
ASSUME FlagsAssumption == DlqSave \in BOOLEAN /\ BatchSaver \in BOOLEAN
ASSUME DlqRetriesAssumption == DlqRetries \in Nat \ {0}
ASSUME MaxRestartsAssumption == MaxRestarts \in Nat

VARIABLES
    initial,    \* Consumer.Offsets.Initial of the group: "new" or "old"
    \* the broker
    end,        \* offsets below it have been produced
    committed,  \* the group's committed offset, None before the first commit
    \* the session
    pc,         \* where the consumer is
    marked,     \* the session's highest mark, None if there is none yet
    fetched,    \* the next offset claim.Messages() will deliver
    first,      \* the oldest offset in the batch, fetched if it is empty
    results,    \* offset -> status, for the processed messages of the batch
    saved,      \* the failed messages of the batch that persistFailedBatch is done with
    attempt,    \* the attempt of the current save
    blocked,    \* blockedPartitions contains the partition
    reason,     \* why the batch was flushed
    cancelled,  \* session.Context() is done
    shutdown,   \* the context given to Run is done
    restarts,   \* rebalances and crashes so far
    \* the outside
    executed,   \* offsets the domain function has accepted
    dlq,        \* offset -> rows in the dead letter queue, counted up to 2
    \* history
    skipped,    \* offsets whose commit was skipped
    repeated,   \* offsets given back to the broker, or saved by a save that failed
    missed      \* offsets a session without a committed offset started behind

broker  == <<initial, end, committed>>
batch   == <<fetched, first, results, saved, attempt, blocked, reason>>
session == <<pc, marked, batch, cancelled>>
outside == <<executed, dlq>>
history == <<skipped, repeated, missed>>
vars    == <<broker, session, shutdown, restarts, outside, history>>

None == -1
Offset == 0..(LogSize - 1)
PC == {"joining", "polling", "processing", "saving", "finalizing", "returned", "stopped"}
Failure == {"decode_failed", "processing_failed"}

Batch == first..(fetched - 1)
Failed == {o \in Batch : results[o] \in Failure}
NoResults == [o \in Offset |-> "none"]

-----------------------------------------------------------------------------
Init ==
    /\ initial \in {"new", "old"}
    /\ end = 0
    /\ committed = None
    /\ pc = "joining"
    /\ marked = None
    /\ fetched = 0
    /\ first = 0
    /\ results = NoResults
    /\ saved = {}
    /\ attempt = 1
    /\ blocked = FALSE
    /\ reason = "none"
    /\ cancelled = FALSE
    /\ shutdown = FALSE
    /\ restarts = 0
    /\ executed = {}
    /\ dlq = [o \in Offset |-> 0]
    /\ skipped = {}
    /\ repeated = {}
    /\ missed = {}

Produce ==
    /\ end < LogSize
    /\ end' = end + 1
    /\ UNCHANGED <<initial, committed, session, shutdown, restarts, outside, history>>

\* Mutant: m.messages[:1] for m.messages[:0].
EmptyBatchAt_KeepsOne(o) ==
    /\ fetched' = o
    /\ first' = IF o > 0 THEN o - 1 ELSE 0
    /\ results' = NoResults
    /\ saved' = {}
    /\ attempt' = 1
    /\ blocked' = FALSE
    /\ reason' = "none"

EmptyBatchAt(o) ==
    /\ fetched' = o
    /\ first' = o
    /\ results' = NoResults
    /\ saved' = {}
    /\ attempt' = 1
    /\ blocked' = FALSE
    /\ reason' = "none"

\* Where a session starts that finds the committed offset c: an unknown
\* offset_initial means the newest.
StartOffset(c) == IF c # None THEN c ELSE IF initial = "old" THEN 0 ELSE end

\* Consume joins the group and starts a session; Setup only logs and counts.
StartSession ==
    /\ pc = "joining"
    /\ ~shutdown
    /\ pc' = "polling"
    /\ marked' = committed
    /\ cancelled' = FALSE
    /\ EmptyBatchAt(StartOffset(committed))
    /\ missed' = IF committed = None THEN missed \cup 0..(StartOffset(None) - 1) ELSE missed
    /\ UNCHANGED <<broker, shutdown, restarts, outside, skipped, repeated>>

\* A rebalance, or the end of the context given to Run, cancels the session.
Rebalance ==
    /\ pc \notin {"joining", "stopped"}
    /\ ~cancelled
    /\ restarts < MaxRestarts
    /\ cancelled' = TRUE
    /\ restarts' = restarts + 1
    /\ UNCHANGED <<broker, pc, marked, batch, shutdown, outside, history>>

Shutdown ==
    /\ ~shutdown
    /\ shutdown' = TRUE
    /\ cancelled' = TRUE
    /\ UNCHANGED <<broker, pc, marked, batch, restarts, outside, history>>

\* HandleFlush: an empty batch is left alone.
Flush(why) ==
    /\ reason' = why
    /\ pc' = "processing"
    /\ UNCHANGED <<marked, first, results, saved, attempt, blocked, cancelled>>

HandleMessage ==
    /\ pc = "polling"
    /\ fetched < end
    /\ fetched' = fetched + 1
    /\ IF fetched + 1 - first >= BatchSize
       THEN Flush("batch_size")
       ELSE UNCHANGED <<pc, marked, first, results, saved, attempt, blocked, reason, cancelled>>
    /\ UNCHANGED <<broker, shutdown, restarts, outside, history>>

\* Mutant: the timer is only started by the message that fills the batch.
BatchTimeout_Full ==
    /\ pc = "polling"
    /\ fetched - first >= BatchSize
    /\ Flush("batch_timeout")
    /\ UNCHANGED <<broker, fetched, shutdown, restarts, outside, history>>

\* The timer runs from the first message of a batch (batch_timeout > 0).
BatchTimeout ==
    /\ pc = "polling"
    /\ first < fetched
    /\ Flush("batch_timeout")
    /\ UNCHANGED <<broker, fetched, shutdown, restarts, outside, history>>

\* The claim's channel is closed, or the session's context is done: the rest
\* of the batch is flushed before ConsumeClaim returns.  stopOnContextDone
\* commits what is marked, which may fail.
LastFlush(why) ==
    /\ pc = "polling"
    /\ cancelled
    /\ IF first < fetched
       THEN Flush(why) /\ UNCHANGED <<fetched, committed>>
       ELSE /\ pc' = "returned"
            /\ committed' \in IF why = "context_done" THEN {committed, marked} ELSE {committed}
            /\ UNCHANGED <<marked, batch, cancelled>>
    /\ UNCHANGED <<initial, end, shutdown, restarts, outside, history>>

ClaimClosed == LastFlush("claim_closed")
ContextDone == LastFlush("context_done")

\* processMessage of the next message of the batch.
ProcessMessage ==
    /\ pc = "processing"
    /\ \E o \in Batch :
        /\ results[o] = "none"
        /\ \A p \in Batch : p < o => results[p] # "none"
        /\ \E status \in IF o \in Undecodable THEN {"decode_failed"}
                         ELSE {"success", "processing_failed"} :
            /\ results' = [results EXCEPT ![o] = status]
            /\ executed' = IF status = "success" THEN executed \cup {o} ELSE executed
    /\ UNCHANGED <<broker, pc, marked, fetched, first, saved, attempt, blocked, reason,
                   cancelled, shutdown, restarts, dlq, history>>

\* The batch is processed; persistFailedBatch has something to do or not.
BatchProcessed ==
    /\ pc = "processing"
    /\ \A o \in Batch : results[o] # "none"
    /\ pc' = IF DlqSave /\ Failed # {} THEN "saving" ELSE "finalizing"
    /\ UNCHANGED <<broker, marked, batch, cancelled, shutdown, restarts, outside, history>>

\* What the next call of the save function is given: all failed messages, or
\* the first that is not saved yet.
Unsaved == Failed \ saved
SaveUnit ==
    IF BatchSaver THEN Unsaved
    ELSE {o \in Unsaved : \A p \in Unsaved : o <= p}

WriteToDLQ == dlq' = [o \in Offset |->
                        IF o \in SaveUnit /\ dlq[o] < 2 THEN dlq[o] + 1 ELSE dlq[o]]

SaveSucceeds ==
    /\ pc = "saving"
    /\ WriteToDLQ
    /\ saved' = saved \cup SaveUnit
    /\ attempt' = 1
    /\ pc' = IF Unsaved = SaveUnit THEN "finalizing" ELSE "saving"
    /\ UNCHANGED <<broker, marked, fetched, first, results, blocked, reason, cancelled,
                   shutdown, restarts, executed, history>>

\* Mutant: the last attempt's error is dropped.
SaveFails_Ignored ==
    /\ pc = "saving"
    /\ IF attempt < DlqRetries
       THEN attempt' = attempt + 1 /\ UNCHANGED pc
       ELSE pc' = "finalizing" /\ UNCHANGED attempt
    /\ UNCHANGED <<broker, marked, fetched, first, results, saved, blocked, reason,
                   cancelled, shutdown, restarts, outside, history>>

\* Mutant: one attempt too many.
SaveFails_OneMore ==
    /\ pc = "saving"
    /\ IF attempt <= DlqRetries
       THEN attempt' = attempt + 1 /\ UNCHANGED pc
       ELSE pc' = "returned" /\ UNCHANGED attempt
    /\ UNCHANGED <<broker, marked, fetched, first, results, saved, blocked, reason,
                   cancelled, shutdown, restarts, outside, history>>

\* A save fails, with or without effect.  It is tried again unless the
\* attempts are used up or the context is done; then ConsumeClaim returns
\* the error, and nothing of the batch is marked.
SaveFails ==
    /\ pc = "saving"
    /\ \/ UNCHANGED <<dlq, repeated>>
       \/ WriteToDLQ /\ repeated' = repeated \cup SaveUnit
    /\ IF attempt < DlqRetries /\ ~cancelled
       THEN attempt' = attempt + 1 /\ UNCHANGED pc
       ELSE pc' = "returned" /\ UNCHANGED attempt
    /\ UNCHANGED <<broker, marked, fetched, first, results, saved, blocked, reason,
                   cancelled, shutdown, restarts, executed, skipped, missed>>

\* finalizeMessage marks a message unless an earlier one of this batch was
\* left unmarked.
Marks(o) == ~blocked /\ (DlqSave \/ results[o] = "success")

\* processBatch's last loop, one message at a time.
FinalizeMessage ==
    /\ pc = "finalizing"
    /\ first < fetched
    /\ IF Marks(first)
       THEN marked' = first + 1 /\ UNCHANGED <<blocked, skipped>>
       ELSE /\ blocked' = (blocked \/ results[first] # "success")
            /\ skipped' = skipped \cup {first}
            /\ UNCHANGED marked
    /\ first' = first + 1
    /\ UNCHANGED <<broker, pc, fetched, results, saved, attempt, reason, cancelled,
                   shutdown, restarts, outside, repeated, missed>>

\* HandleFlush empties the batch, and ConsumeClaim goes on or returns.
BatchDone ==
    /\ pc = "finalizing"
    /\ first = fetched
    /\ pc' = IF reason \in {"claim_closed", "context_done"} THEN "returned" ELSE "polling"
    /\ committed' \in IF reason = "context_done" THEN {committed, marked} ELSE {committed}
    /\ EmptyBatchAt(fetched)
    /\ UNCHANGED <<initial, end, marked, cancelled, shutdown, restarts, outside, history>>

\* sarama commits the highest mark from time to time.
AutoCommit ==
    /\ pc \notin {"joining", "stopped"}
    /\ committed # marked
    /\ committed' = marked
    /\ UNCHANGED <<initial, end, session, shutdown, restarts, outside, history>>

\* The session is over, and the group's offset is c: what it fetched and did
\* not commit comes again, unless the next session starts behind it.
GiveBack(c) ==
    /\ repeated' = repeated \cup StartOffset(c)..(fetched - 1)
    /\ marked' = c
    /\ EmptyBatchAt(StartOffset(c))

\* Mutant: Run restarts the session whether its context is done or not.
AfterSession_Restarts == "joining"

\* The loop of Run.
AfterSession == IF shutdown THEN "stopped" ELSE "joining"

\* ConsumeClaim has returned, with or without an error; sarama commits a
\* last time, which may fail, and Consume returns.
EndSession ==
    /\ pc = "returned"
    /\ committed' \in {committed, marked}
    /\ GiveBack(committed')
    /\ pc' = AfterSession
    /\ cancelled' = shutdown
    /\ UNCHANGED <<initial, end, shutdown, restarts, outside, skipped, missed>>

\* The process dies and is started again.
Crash ==
    /\ pc \notin {"joining", "stopped"}
    /\ restarts < MaxRestarts
    /\ restarts' = restarts + 1
    /\ GiveBack(committed)
    /\ pc' = AfterSession
    /\ cancelled' = shutdown
    /\ UNCHANGED <<broker, shutdown, outside, skipped, missed>>

\* Run's context ends while it joins or waits to join again: it closes the
\* group and reports that it has stopped.
StopRun ==
    /\ pc = "joining"
    /\ shutdown
    /\ pc' = AfterSession
    /\ UNCHANGED <<broker, marked, batch, cancelled, shutdown, restarts, outside, history>>

ConsumerStep ==
    \/ StartSession \/ HandleMessage \/ BatchTimeout \/ ClaimClosed \/ ContextDone
    \/ ProcessMessage \/ BatchProcessed \/ SaveSucceeds \/ SaveFails
    \/ FinalizeMessage \/ BatchDone \/ EndSession \/ StopRun

Next == Produce \/ Rebalance \/ Shutdown \/ ConsumerStep \/ AutoCommit \/ Crash

Spec == Init /\ [][Next]_vars

\* The consumer's goroutine runs and sarama commits; the save of a
\* message that is tried again and again succeeds in the end.
FairSpec ==
    /\ Spec
    /\ WF_vars(ConsumerStep)
    /\ WF_vars(AutoCommit)
    /\ \A o \in Offset : SF_vars(o \in SaveUnit /\ SaveSucceeds)

-----------------------------------------------------------------------------
(* Properties.                                                             *)

\* Every variable has its type, and the offsets of a session are in order:
\* committed, marked, the batch, the end of the log.
TypeOK ==
    /\ initial \in {"new", "old"}
    /\ end \in 0..LogSize
    /\ committed \in None..marked
    /\ marked \in None..first
    /\ first \in 0..fetched
    /\ fetched \in 0..end
    /\ fetched - first <= BatchSize
    /\ pc \in PC
    /\ results \in [Offset -> Failure \cup {"none", "success"}]
    /\ saved \in SUBSET Offset
    /\ attempt \in 1..DlqRetries
    /\ blocked \in BOOLEAN
    /\ reason \in {"none", "batch_size", "batch_timeout", "claim_closed", "context_done"}
    /\ cancelled \in BOOLEAN
    /\ shutdown \in BOOLEAN
    /\ restarts \in 0..MaxRestarts
    /\ executed \in SUBSET Offset
    /\ dlq \in [Offset -> 0..2]
    /\ skipped \in SUBSET Offset
    /\ repeated \in SUBSET Offset
    /\ missed \in SUBSET Offset

\* An offset the domain function accepted, or that is in the dead letter
\* queue.
Settled(o) == o \in executed \/ dlq[o] > 0

\* An offset the group passes over, because offset_initial is "new" (or unknown)
\* and a session that found no committed offset started behind it.
PassedOver(o) == initial = "new" /\ o \in missed

\* With save_to_dlq the group commits an offset past a message that was
\* neither accepted nor written to the dead letter queue for one reason only:
\* the group passed over it before its first commit.  That includes messages
\* an earlier session had fetched, when it crashed or ended before that commit.
\* Failed saves, partial batches and rebalances lose nothing.
NothingLost == \A o \in Offset : o < committed => Settled(o) \/ PassedOver(o)

\* A message is written to the dead letter queue twice only if it was given
\* back to the broker, or if a save took effect and was reported as failed.
DLQRowsAreUnique == \A o \in Offset \ repeated : dlq[o] <= 1

\* "Kafka message commit skipped because DLQ save is disabled": a message
\* that finalizeMessage left unmarked stays uncommitted until it is
\* processed again with success.
SkippedStaysUncommitted == \A o \in skipped : committed > o => o \in executed

\* The group catches up with the log again and again, unless the consumer is
\* shut down: every message is below the committed offset in the end, or was
\* passed over before the first commit.  No batch stays in memory, no
\* save error ends the consumption.
EveryMessageIsCommitted ==
    []<>(shutdown \/ \A o \in Offset : o < end => o < committed \/ PassedOver(o))

\* A consumer whose context ends comes to rest, also from the middle of a
\* batch and of the attempts to save it.
StopsWhenAsked == shutdown ~> pc = "stopped"
=============================================================================
