------------------------- MODULE DlqConsumerProofs --------------------------
(***************************************************************************)
(* Proofs about DlqConsumer, for every log, batch size, number of attempts *)
(* and number of crashes and rebalances.                                   *)
(***************************************************************************)
EXTENDS DlqConsumer, TLAPS

\* HandleFlush is called as soon as the batch is full, so a consumer that
\* waits for messages has room for one more.
RoomInv == pc = "polling" => fetched - first < BatchSize

TypeInv == TypeOK /\ RoomInv

USE LogSizeAssumption, UndecodableAssumption, BatchSizeAssumption, FlagsAssumption,
    DlqRetriesAssumption, MaxRestartsAssumption

\* An empty batch is well typed wherever it starts.
LEMMA EmptyBatchType ==
    ASSUME NEW o, EmptyBatchAt(o)
    PROVE  /\ results' \in [Offset -> Failure \cup {"none", "success"}]
           /\ saved' \in SUBSET Offset
           /\ attempt' \in 1..DlqRetries
           /\ blocked' \in BOOLEAN
           /\ reason' \in {"none", "batch_size", "batch_timeout", "claim_closed", "context_done"}
           /\ fetched' = o
           /\ first' = o
  <1>1. [o1 \in Offset |-> "none"] \in [Offset -> Failure \cup {"none", "success"}]
    OBVIOUS
  <1>2. 1 \in 1..DlqRetries
    OBVIOUS
  <1>3. QED
    BY <1>1, <1>2 DEF EmptyBatchAt, NoResults

\* The messages a save is given are failed messages of the batch.
LEMMA SaveUnitIsFailed ==
    /\ SaveUnit \subseteq Unsaved
    /\ Unsaved \subseteq Failed
    /\ Failed \subseteq Batch
  BY DEF SaveUnit, Unsaved, Failed

\* The messages of the batch are messages of the log.
LEMMA BatchIsInLog ==
    ASSUME TypeOK
    PROVE  Batch \subseteq Offset
  BY DEF TypeOK, Batch, Offset

\* A write only adds rows, to the messages it was given.
LEMMA WriteEffect ==
    ASSUME TypeOK, WriteToDLQ
    PROVE  /\ dlq' \in [Offset -> 0..2]
           /\ \A o \in Offset : dlq'[o] >= dlq[o]
           /\ \A o \in Offset \cap SaveUnit : dlq'[o] > 0
           /\ \A o \in Offset \cap SaveUnit : dlq[o] = 0 => dlq'[o] = 1
           /\ \A o \in Offset \ SaveUnit : dlq'[o] = dlq[o]
  BY DEF TypeOK, WriteToDLQ

\* A session starts in the log, at the committed offset or behind it.
LEMMA StartOffsetType ==
    ASSUME TypeOK, NEW c \in None..marked
    PROVE  StartOffset(c) \in 0..end /\ c <= StartOffset(c)
  BY DEF TypeOK, StartOffset, None

\* What goes back to the broker was fetched from the log, and the next session
\* begins where StartOffset says.
LEMMA GiveBackEffect ==
    ASSUME TypeOK, NEW c \in None..marked, GiveBack(c)
    PROVE  /\ repeated' \in SUBSET Offset
           /\ repeated' = repeated \cup StartOffset(c)..(fetched - 1)
           /\ marked' = c
           /\ EmptyBatchAt(StartOffset(c))
  <1>1. /\ repeated' = repeated \cup StartOffset(c)..(fetched - 1)
        /\ marked' = c
        /\ EmptyBatchAt(StartOffset(c))
    BY DEF GiveBack
  <1>2. StartOffset(c)..(fetched - 1) \subseteq Offset
    <2>1. StartOffset(c) \in Nat
      BY StartOffsetType DEF TypeOK
    <2>2. fetched \in Nat /\ fetched <= LogSize
      BY DEF TypeOK
    <2>3. QED
      BY <2>1, <2>2 DEF Offset
  <1>3. QED
    BY <1>1, <1>2 DEF TypeOK

\* The type invariant holds at the start and is kept by every step.
LEMMA TypeInvInit ==
    Init => TypeInv
  <1>1. [o \in Offset |-> "none"] \in [Offset -> Failure \cup {"none", "success"}]
    OBVIOUS
  <1>2. 1 \in 1..DlqRetries
    OBVIOUS
  <1>3. [o \in Offset |-> 0] \in [Offset -> 0..2]
    OBVIOUS
  <1>4. Init => blocked \in BOOLEAN /\ cancelled \in BOOLEAN /\ shutdown \in BOOLEAN
    BY DEF Init
  <1>5. QED
    BY <1>1, <1>2, <1>3, <1>4 DEF Init, TypeInv, TypeOK, RoomInv, PC, NoResults, None

\* Every step keeps the types and the order of the offsets.
LEMMA TypeInvStep ==
    TypeInv /\ [Next]_vars => TypeInv'
  <1> SUFFICES ASSUME TypeOK, RoomInv, [Next]_vars
               PROVE  TypeOK' /\ RoomInv'
    BY DEF TypeInv
  <1> USE DEF TypeOK, RoomInv
  <1>1. CASE Produce
    BY <1>1 DEF Produce, session, batch, outside, history
  <1>2. CASE Rebalance
    BY <1>2 DEF Rebalance, broker, batch, outside, history
  <1>3. CASE Shutdown
    BY <1>3 DEF Shutdown, broker, batch, outside, history
  <1>4. CASE AutoCommit
    BY <1>4 DEF AutoCommit, session, batch, outside, history
  <1>5. CASE Crash
    <2>1. GiveBack(committed) /\ committed \in None..marked
      BY <1>5 DEF Crash, None
    <2>2. /\ repeated' \in SUBSET Offset
          /\ marked' = committed
          /\ EmptyBatchAt(StartOffset(committed))
          /\ StartOffset(committed) \in 0..end /\ committed <= StartOffset(committed)
      BY <2>1, GiveBackEffect, StartOffsetType
    <2>3. QED
      BY <1>5, <2>1, <2>2, EmptyBatchType DEF Crash, AfterSession, broker, outside, PC, None
  <1>6. CASE StartSession
    <2>1. /\ EmptyBatchAt(StartOffset(committed))
          /\ committed \in None..marked
          /\ StartOffset(committed) \in 0..end /\ committed <= StartOffset(committed)
      BY <1>6, StartOffsetType DEF StartSession, None
    <2>2. cancelled' \in BOOLEAN
      BY <1>6 DEF StartSession
    <2>3. missed' \in SUBSET Offset
      <3>1. 0..(end - 1) \subseteq Offset
        BY DEF Offset
      <3>2. StartOffset(None) \in {0, end}
        BY DEF StartOffset
      <3>3. 0..(StartOffset(None) - 1) \subseteq Offset
        BY <3>1, <3>2 DEF Offset
      <3>4. missed' = missed \/ missed' = missed \cup 0..(StartOffset(None) - 1)
        BY <1>6 DEF StartSession
      <3>5. QED
        BY <3>3, <3>4
    <2>4. QED
      BY <1>6, <2>1, <2>2, <2>3, EmptyBatchType DEF StartSession, broker, outside, PC, None
  <1>7. CASE HandleMessage
    BY <1>7 DEF HandleMessage, Flush, broker, outside, history, PC
  <1>8. CASE BatchTimeout
    BY <1>8 DEF BatchTimeout, Flush, broker, outside, history, PC
  <1>9. CASE ClaimClosed \/ ContextDone
    <2>1. ASSUME NEW why \in {"claim_closed", "context_done"}, LastFlush(why)
          PROVE  TypeOK' /\ RoomInv'
      <3>1. CASE first < fetched
        BY <2>1, <3>1 DEF LastFlush, Flush, outside, history, PC
      <3>2. CASE ~(first < fetched)
        BY <2>1, <3>2 DEF LastFlush, batch, outside, history, PC
      <3>3. QED
        BY <3>1, <3>2
    <2>2. QED
      BY <1>9, <2>1 DEF ClaimClosed, ContextDone
  <1>10. CASE ProcessMessage
    <2>1. PICK o \in Batch : \E status \in IF o \in Undecodable THEN {"decode_failed"}
                                           ELSE {"success", "processing_failed"} :
            /\ results' = [results EXCEPT ![o] = status]
            /\ executed' = IF status = "success" THEN executed \cup {o} ELSE executed
      BY <1>10 DEF ProcessMessage
    <2>2. o \in Offset
      BY BatchIsInLog
    <2>3. results' \in [Offset -> Failure \cup {"none", "success"}] /\ executed' \in SUBSET Offset
      BY <2>1, <2>2 DEF Failure
    <2>4. QED
      BY <1>10, <2>3 DEF ProcessMessage, broker, history
  <1>11. CASE BatchProcessed
    BY <1>11 DEF BatchProcessed, broker, batch, outside, history, PC
  <1>12. CASE SaveSucceeds
    <2>1. SaveUnit \subseteq Offset
      BY SaveUnitIsFailed, BatchIsInLog
    <2>2. dlq' \in [Offset -> 0..2]
      BY <1>12, WriteEffect DEF SaveSucceeds
    <2>3. QED
      BY <1>12, <2>1, <2>2 DEF SaveSucceeds, broker, history, PC
  <1>13. CASE SaveFails
    <2>1. SaveUnit \subseteq Offset
      BY SaveUnitIsFailed, BatchIsInLog
    <2>2. dlq' \in [Offset -> 0..2] /\ repeated' \in SUBSET Offset
      BY <1>13, <2>1, WriteEffect DEF SaveFails
    <2>3. QED
      BY <1>13, <2>2 DEF SaveFails, broker, PC
  <1>14. CASE FinalizeMessage
    <2>1. blocked' \in BOOLEAN
      BY <1>14 DEF FinalizeMessage
    <2>2. skipped' \in SUBSET Offset
      <3>1. first \in Offset
        BY <1>14 DEF FinalizeMessage, Offset
      <3>2. skipped' = skipped \/ skipped' = skipped \cup {first}
        BY <1>14 DEF FinalizeMessage
      <3>3. QED
        BY <3>1, <3>2
    <2>3. /\ marked' \in {marked, first + 1}
          /\ first' = first + 1 /\ first < fetched
          /\ pc = "finalizing"
          /\ UNCHANGED <<initial, end, committed, pc, fetched, results, saved, attempt, reason,
                         cancelled, shutdown, restarts, executed, dlq, repeated, missed>>
      BY <1>14, Zenon DEF FinalizeMessage, broker, outside
    <2>4. QED
      BY <2>1, <2>2, <2>3 DEF None
  <1>15. CASE BatchDone
    <2>1. EmptyBatchAt(fetched)
      BY <1>15 DEF BatchDone
    <2>2. QED
      BY <1>15, <2>1, EmptyBatchType DEF BatchDone, outside, history, PC
  <1>16. CASE EndSession
    <2>1. /\ committed' \in {committed, marked}
          /\ GiveBack(committed')
          /\ committed' \in None..marked
      BY <1>16 DEF EndSession, None
    <2>2. /\ repeated' \in SUBSET Offset
          /\ marked' = committed'
          /\ EmptyBatchAt(StartOffset(committed'))
          /\ StartOffset(committed') \in 0..end /\ committed' <= StartOffset(committed')
      BY <2>1, GiveBackEffect, StartOffsetType
    <2>3. QED
      BY <1>16, <2>1, <2>2, EmptyBatchType DEF EndSession, AfterSession, outside, PC, None
  <1>17. CASE StopRun
    BY <1>17 DEF StopRun, AfterSession, broker, batch, outside, history, PC
  <1>18. CASE UNCHANGED vars
    BY <1>18 DEF vars, broker, session, batch, outside, history
  <1>19. QED
    BY <1>1, <1>2, <1>3, <1>4, <1>5, <1>6, <1>7, <1>8, <1>9, <1>10, <1>11, <1>12, <1>13,
       <1>14, <1>15, <1>16, <1>17, <1>18 DEF Next, ConsumerStep

\* ConsumeClaim, processBatch and Run keep every variable in its type and the
\* offsets of a session in order: the committed offset is never past the
\* mark, nor the mark past the batch, nor is the batch larger than
\* batch_size.
THEOREM TypeCorrect ==
    Spec => []TypeOK
  <1>1. TypeInv => TypeOK
    BY DEF TypeInv
  <1>2. QED
    BY <1>1, TypeInvInit, TypeInvStep, PTL DEF Spec

-----------------------------------------------------------------------------
(* No message is lost, and rows are unique.                                *)

\* With save_to_dlq nothing is ever left unmarked, so everything below the mark
\* and, in a session, everything below the batch is settled, or was passed over
\* by a session that found no committed offset; results, saved and the position
\* in processBatch say what has been done for the batch.
LossInv ==
    /\ ~blocked
    /\ \A o \in Offset : o < marked => Settled(o) \/ PassedOver(o)
    /\ pc \notin {"joining", "stopped"} =>
         \A o \in Offset : o < first => Settled(o) \/ PassedOver(o)
    /\ \A o \in Offset : results[o] = "success" => o \in executed
    /\ \A o \in saved : dlq[o] > 0
    /\ pc = "saving" => \A o \in Batch : results[o] # "none"
    /\ pc = "finalizing" => \A o \in Batch : Settled(o)

\* A message with a row that is not in repeated lies before the part of the
\* batch that is still to be saved, and a consumer that joins again starts
\* where it left off, or behind that.
RowInv ==
    /\ pc = "joining" => fetched <= StartOffset(committed)
    /\ \A o \in Offset \ repeated :
        /\ dlq[o] <= 1
        /\ dlq[o] = 1 => o < fetched /\ (o < first \/ o \in saved)

\* What the batch variables hold after the batch has been emptied.
LEMMA EmptyBatchHolds ==
    ASSUME NEW o, EmptyBatchAt(o)
    PROVE  /\ ~blocked'
           /\ saved' = {}
           /\ first' = o
           /\ fetched' = o
           /\ \A p \in Offset : results'[p] = "none"
  <1>1. ~blocked'
    BY DEF EmptyBatchAt
  <1>2. QED
    BY <1>1 DEF EmptyBatchAt, NoResults

\* A message that is settled stays settled.
LEMMA SettledStep ==
    ASSUME TypeOK, [Next]_vars, NEW o \in Offset, Settled(o)
    PROVE  Settled(o)'
  <1>1. CASE ProcessMessage
    BY <1>1 DEF ProcessMessage, Settled
  <1>2. CASE SaveSucceeds \/ SaveFails
    <2>1. executed' = executed
      BY <1>2 DEF SaveSucceeds, SaveFails
    <2>2. dlq' = dlq \/ WriteToDLQ
      BY <1>2 DEF SaveSucceeds, SaveFails
    <2>3. QED
      BY <2>1, <2>2, WriteEffect DEF Settled, TypeOK
  <1>3. CASE UNCHANGED outside
    BY <1>3 DEF outside, Settled
  <1>4. QED
    BY <1>1, <1>2, <1>3 DEF Next, ConsumerStep, Produce, Rebalance, Shutdown, AutoCommit, Crash,
       StartSession, HandleMessage, BatchTimeout, ClaimClosed, ContextDone, LastFlush,
       BatchProcessed, FinalizeMessage, BatchDone, EndSession, StopRun, vars

\* An offset that was passed over stays so.
LEMMA PassedOverStep ==
    ASSUME [Next]_vars, NEW o \in Offset, PassedOver(o)
    PROVE  PassedOver(o)'
  <1>1. initial' = initial /\ missed \subseteq missed'
    BY DEF Next, ConsumerStep, Produce, Rebalance, Shutdown, AutoCommit, Crash, StartSession,
       HandleMessage, BatchTimeout, ClaimClosed, ContextDone, LastFlush, ProcessMessage,
       BatchProcessed, SaveSucceeds, SaveFails, FinalizeMessage, BatchDone, EndSession,
       StopRun, vars, broker, history
  <1>2. QED
    BY <1>1 DEF PassedOver

\* Nothing is marked at the start.
LEMMA LossInvInit ==
    Init => LossInv
  BY DEF Init, LossInv, NoResults, Offset, None

\* Every step keeps LossInv when save_to_dlq is on.
LEMMA LossInvStep ==
    DlqSave /\ TypeOK /\ LossInv /\ [Next]_vars => LossInv'
  <1> SUFFICES ASSUME DlqSave, TypeOK, LossInv, [Next]_vars
               PROVE  LossInv'
    OBVIOUS
  <1>0. /\ \A o \in Offset : Settled(o) => Settled(o)'
        /\ \A o \in Offset : Settled(o) \/ PassedOver(o) => (Settled(o) \/ PassedOver(o))'
        /\ Batch \subseteq Offset
    BY SettledStep, PassedOverStep, BatchIsInLog
  <1>a. \* nothing of the batch changes, and the consumer does not go on to save or finalize
        ASSUME UNCHANGED <<blocked, marked, first, results, saved, executed, dlq>>,
               \/ pc' \notin {"saving", "finalizing"}
               \/ pc' = pc /\ fetched' = fetched,
               pc' \notin {"joining", "stopped"} => pc \notin {"joining", "stopped"}
        PROVE  LossInv'
    BY <1>0, <1>a DEF LossInv, Settled, Batch
  <1>b. \* a session ends, and leaves the group's offset where it was marked or before
        ASSUME NEW c \in None..marked, NEW s, EmptyBatchAt(s), marked' = c,
               UNCHANGED <<executed, dlq>>,
               pc' \in {"joining", "stopped"}
        PROVE  LossInv'
    <2>1. \A p \in Offset : p < marked' => (Settled(p) \/ PassedOver(p))'
      BY <1>0, <1>b DEF LossInv, TypeOK, Offset, None
    <2>2. QED
      BY <2>1, <1>b, EmptyBatchHolds DEF LossInv
  <1>1. CASE Produce
    BY <1>1, <1>a DEF Produce, session, batch, outside
  <1>2. CASE Rebalance \/ Shutdown
    BY <1>2, <1>a DEF Rebalance, Shutdown, batch, outside
  <1>3. CASE AutoCommit
    BY <1>3, <1>a DEF AutoCommit, session, batch, outside
  <1>4. CASE Crash
    <2>1. /\ committed \in None..marked /\ GiveBack(committed)
          /\ pc' \in {"joining", "stopped"} /\ UNCHANGED <<executed, dlq>>
      BY <1>4 DEF Crash, AfterSession, outside, TypeOK, None
    <2>2. QED
      BY <1>b, <2>1 DEF GiveBack
  <1>5. CASE StartSession
    <2>1. /\ committed \in None..marked
          /\ EmptyBatchAt(StartOffset(committed)) /\ marked' = committed
          /\ missed' = IF committed = None THEN missed \cup 0..(StartOffset(None) - 1)
                                           ELSE missed
          /\ pc' = "polling" /\ UNCHANGED <<initial, executed, dlq>>
      BY <1>5 DEF StartSession, broker, outside, TypeOK, None
    <2>2. \A o \in Offset : o < marked' => (Settled(o) \/ PassedOver(o))'
      BY <1>0, <2>1 DEF LossInv, TypeOK, Offset, None
    <2>3. ASSUME NEW o \in Offset, o < first' PROVE (Settled(o) \/ PassedOver(o))'
      <3>1. o < StartOffset(committed)
        BY <2>1, <2>3, EmptyBatchHolds
      <3>2. CASE committed # None
        BY <2>1, <2>2, <3>1, <3>2 DEF StartOffset
      <3>3. CASE committed = None
        <4>1. initial = "new" /\ o \in missed'
          BY <2>1, <3>1, <3>3, StartOffsetType DEF StartOffset, TypeOK, Offset
        <4>2. QED
          BY <2>1, <4>1 DEF PassedOver
      <3>4. QED
        BY <3>2, <3>3
    <2>4. QED
      BY <2>1, <2>2, <2>3, EmptyBatchHolds DEF LossInv
  <1>6. CASE HandleMessage
    BY <1>6, <1>a DEF HandleMessage, Flush, outside
  <1>7. CASE BatchTimeout
    BY <1>7, <1>a DEF BatchTimeout, Flush, outside
  <1>8. CASE ClaimClosed \/ ContextDone
    BY <1>8, <1>a DEF ClaimClosed, ContextDone, LastFlush, Flush, batch, outside
  <1>9. CASE ProcessMessage
    <2>1. PICK o \in Batch : \E status \in IF o \in Undecodable THEN {"decode_failed"}
                                           ELSE {"success", "processing_failed"} :
            /\ results' = [results EXCEPT ![o] = status]
            /\ executed' = IF status = "success" THEN executed \cup {o} ELSE executed
      BY <1>9 DEF ProcessMessage
    <2>2. \A p \in Offset : results'[p] = "success" => p \in executed'
      BY <2>1, <1>0 DEF LossInv, TypeOK
    <2>3. QED
      BY <2>2, <1>0, <1>9 DEF ProcessMessage, LossInv, Batch
  <1>10. CASE BatchProcessed
    <2>1. pc' = "finalizing" => Failed = {}
      BY <1>10 DEF BatchProcessed
    <2>2. /\ pc = "processing" /\ \A o \in Batch : results[o] # "none"
          /\ UNCHANGED <<blocked, marked, first, fetched, results, saved, executed, dlq>>
      BY <1>10 DEF BatchProcessed, batch, outside
    <2>3. \A o \in Batch \ Failed : Settled(o)
      BY <1>0, <2>2 DEF Failed, LossInv, TypeOK, Settled
    <2>4. QED
      BY <1>0, <2>1, <2>2, <2>3 DEF LossInv, Batch
  <1>11. CASE SaveSucceeds
    <2>1. /\ saved' = saved \cup SaveUnit
          /\ pc' = IF Unsaved = SaveUnit THEN "finalizing" ELSE "saving"
          /\ UNCHANGED <<blocked, marked, first, fetched, results, executed>>
          /\ pc = "saving"
      BY <1>11 DEF SaveSucceeds
    <2>2. \A o \in saved' : dlq'[o] > 0
      <3>1. saved \subseteq Offset /\ SaveUnit \subseteq Offset
        BY <1>0, SaveUnitIsFailed DEF TypeOK
      <3>2. WriteToDLQ
        BY <1>11 DEF SaveSucceeds
      <3>3. \A o \in Offset : dlq[o] \in Nat /\ dlq'[o] \in Nat
        BY <3>2, WriteEffect DEF TypeOK
      <3>4. QED
        BY <2>1, <3>1, <3>2, <3>3, WriteEffect DEF LossInv
    <2>3. ASSUME pc' = "finalizing", NEW o \in Batch
          PROVE  Settled(o)'
      <3>1. CASE o \in Failed
        BY <2>1, <2>2, <2>3, <3>1 DEF Unsaved, Settled
      <3>2. CASE o \notin Failed
        BY <2>1, <1>0, <3>2 DEF Failed, LossInv, TypeOK, Settled
      <3>3. QED
        BY <3>1, <3>2
    <2>4. QED
      BY <1>0, <2>1, <2>2, <2>3 DEF LossInv, Batch
  <1>12. CASE SaveFails
    <2>1. /\ pc' \in {"saving", "returned"}
          /\ pc = "saving"
          /\ UNCHANGED <<blocked, marked, first, fetched, results, saved, executed>>
          /\ dlq' = dlq \/ WriteToDLQ
      BY <1>12 DEF SaveFails
    <2>2. \A o \in saved' : dlq'[o] > 0
      <3>1. saved \subseteq Offset
        BY DEF TypeOK
      <3>2. QED
        BY <2>1, <3>1, WriteEffect DEF LossInv, TypeOK
    <2>3. QED
      BY <1>0, <2>1, <2>2 DEF LossInv, Batch
  <1>13. CASE FinalizeMessage
    <2>1. Marks(first)
      BY DEF Marks, LossInv
    <2>2. /\ marked' = first + 1 /\ first' = first + 1 /\ first < fetched
          /\ pc = "finalizing"
          /\ UNCHANGED <<pc, blocked, fetched, results, saved, executed, dlq>>
      BY <1>13, <2>1, Zenon DEF FinalizeMessage, outside
    <2>3. first \in Batch
      BY <2>2 DEF TypeOK, Batch
    <2>4. \A o \in Offset : o < first + 1 => (Settled(o) \/ PassedOver(o))'
      BY <1>0, <2>2, <2>3 DEF LossInv, TypeOK, Offset
    <2>5. Batch' \subseteq Batch
      BY <2>2 DEF TypeOK, Batch
    <2>6. ~blocked'
      BY <2>2 DEF LossInv
    <2>7. QED
      BY <1>0, <2>2, <2>4, <2>5, <2>6 DEF LossInv
  <1>14. CASE BatchDone
    <2>1. /\ EmptyBatchAt(first) /\ marked' = marked /\ pc = "finalizing"
          /\ pc' \notin {"saving", "finalizing"} /\ UNCHANGED <<executed, dlq>>
      BY <1>14 DEF BatchDone, outside
    <2>2. QED
      BY <1>0, <2>1, EmptyBatchHolds DEF LossInv
  <1>15. CASE EndSession
    <2>1. /\ committed' \in None..marked /\ GiveBack(committed')
          /\ pc' \in {"joining", "stopped"} /\ UNCHANGED <<executed, dlq>>
      BY <1>15 DEF EndSession, AfterSession, outside, TypeOK, None
    <2>2. QED
      BY <1>b, <2>1 DEF GiveBack
  <1>16. CASE StopRun
    BY <1>16, <1>a DEF StopRun, AfterSession, batch, outside
  <1>17. CASE UNCHANGED vars
    BY <1>17, <1>a DEF vars, session, batch, outside
  <1>18. QED
    BY <1>1, <1>2, <1>3, <1>4, <1>5, <1>6, <1>7, <1>8, <1>9, <1>10, <1>11, <1>12, <1>13,
       <1>14, <1>15, <1>16, <1>17 DEF Next, ConsumerStep

\* With save_to_dlq on, finalizeMessage never marks and sarama never commits
\* an offset past a message that the domain function did not accept and that
\* no save wrote to the dead letter queue, unless offset_initial is "new" and
\* a session without a committed offset started behind it: for every log,
\* batch size, number of attempts and order of crashes and rebalances.
THEOREM NothingIsLost ==
    ASSUME DlqSave
    PROVE  Spec => []NothingLost
  <1>1. TypeInv /\ LossInv => NothingLost
    BY DEF TypeInv, TypeOK, LossInv, NothingLost, Offset, None
  <1>2. TypeInv => TypeOK
    BY DEF TypeInv
  <1>3. TypeOK /\ LossInv /\ [Next]_vars => LossInv'
    BY LossInvStep
  <1>4. QED
    BY <1>1, <1>2, <1>3, TypeInvInit, TypeInvStep, LossInvInit, PTL DEF Spec

\* There is no row at the start.
LEMMA RowInvInit ==
    Init => RowInv
  BY DEF Init, RowInv, StartOffset

\* Every step keeps RowInv.
LEMMA RowInvStep ==
    TypeOK /\ RowInv /\ [Next]_vars => RowInv'
  <1> SUFFICES ASSUME TypeOK, RowInv, [Next]_vars
               PROVE  RowInv'
    OBVIOUS
  <1>a. \* no row is written, and the batch only moves forward
        ASSUME UNCHANGED <<dlq, saved, repeated>>, fetched' >= fetched, first' >= first,
               fetched' \in Nat, first' \in Nat,
               pc' = "joining" => fetched' <= StartOffset(committed)'
        PROVE  RowInv'
    BY <1>a DEF RowInv, TypeOK, Offset
  <1>b. \* the session is over and its uncommitted messages are given back
        ASSUME committed' \in None..marked, GiveBack(committed'), dlq' = dlq,
               UNCHANGED <<initial, end>>
        PROVE  RowInv'
    <2>1. /\ repeated' = repeated \cup StartOffset(committed')..(fetched - 1)
          /\ EmptyBatchAt(StartOffset(committed'))
          /\ StartOffset(committed') \in 0..end
      BY <1>b, GiveBackEffect, StartOffsetType
    <2>2. \A o \in Offset \ repeated' : dlq[o] = 1 => o < StartOffset(committed')
      BY <2>1 DEF RowInv, TypeOK, Offset
    <2>3. StartOffset(committed)' = StartOffset(committed')
      BY <1>b DEF StartOffset
    <2>4. \A o \in Offset \ repeated' : dlq'[o] <= 1
      BY <1>b, <2>1 DEF RowInv
    <2>5. fetched' = StartOffset(committed') /\ first' = StartOffset(committed')
      BY <2>1, EmptyBatchHolds
    <2>6. QED
      BY <1>b, <2>1, <2>2, <2>3, <2>4, <2>5 DEF RowInv
  <1>1. CASE Produce
    BY <1>1, <1>a DEF Produce, session, batch, outside, history, TypeOK, RowInv,
       StartOffset
  <1>2. CASE Rebalance \/ Shutdown
    BY <1>2, <1>a DEF Rebalance, Shutdown, broker, batch, outside, history, TypeOK, RowInv,
       StartOffset
  <1>3. CASE AutoCommit
    BY <1>3, <1>a DEF AutoCommit, session, batch, outside, history, TypeOK
  <1>4. CASE Crash
    BY <1>4, <1>b DEF Crash, broker, outside, TypeOK
  <1>5. CASE StartSession
    <2>1. /\ pc = "joining" /\ pc' = "polling" /\ EmptyBatchAt(StartOffset(committed))
          /\ UNCHANGED <<dlq, repeated>>
      BY <1>5 DEF StartSession, outside
    <2>2. /\ fetched <= StartOffset(committed) /\ StartOffset(committed) \in Nat
          /\ first' = StartOffset(committed) /\ fetched' = StartOffset(committed)
      BY <2>1, EmptyBatchHolds, StartOffsetType DEF RowInv, TypeOK
    <2>3. \A o \in Offset \ repeated : dlq[o] = 1 => o < first' /\ o < fetched'
      BY <2>2 DEF RowInv, TypeOK, Offset
    <2>4. QED
      BY <2>1, <2>3 DEF RowInv
  <1>6. CASE HandleMessage
    BY <1>6, <1>a DEF HandleMessage, Flush, broker, outside, history, TypeOK
  <1>7. CASE BatchTimeout
    BY <1>7, <1>a DEF BatchTimeout, Flush, broker, outside, history, TypeOK
  <1>8. CASE ClaimClosed \/ ContextDone
    BY <1>8, <1>a DEF ClaimClosed, ContextDone, LastFlush, Flush, batch, outside, history, TypeOK
  <1>9. CASE ProcessMessage
    BY <1>9, <1>a DEF ProcessMessage, broker, history, TypeOK
  <1>10. CASE BatchProcessed
    BY <1>10, <1>a DEF BatchProcessed, broker, batch, outside, history, TypeOK
  <1>11. CASE SaveSucceeds
    <2>1. /\ WriteToDLQ
          /\ saved' = saved \cup SaveUnit
          /\ pc' # "joining"
          /\ UNCHANGED <<first, fetched, repeated>>
      BY <1>11 DEF SaveSucceeds, history
    <2>2. \A o \in SaveUnit : o \notin saved /\ first <= o /\ o < fetched
      BY SaveUnitIsFailed DEF Unsaved, Failed, Batch, TypeOK
    <2>3. ASSUME NEW o \in Offset \ repeated, o \in SaveUnit
          PROVE  dlq'[o] = 1 /\ o < fetched' /\ o \in saved'
      BY <2>1, <2>2, <2>3, WriteEffect DEF RowInv, TypeOK, Offset
    <2>4. ASSUME NEW o \in Offset \ repeated, o \notin SaveUnit
          PROVE  dlq'[o] <= 1 /\ (dlq'[o] = 1 => o < fetched' /\ (o < first' \/ o \in saved'))
      BY <2>1, <2>4, WriteEffect DEF RowInv
    <2>5. QED
      BY <2>1, <2>3, <2>4 DEF RowInv
  <1>12. CASE SaveFails
    <2>1. /\ pc' # "joining"
          /\ UNCHANGED <<first, fetched, saved>>
          /\ \/ UNCHANGED <<dlq, repeated>>
             \/ WriteToDLQ /\ repeated' = repeated \cup SaveUnit
      BY <1>12 DEF SaveFails
    <2>2. QED
      BY <2>1, WriteEffect DEF RowInv
  <1>13. CASE FinalizeMessage
    <2>1. /\ first' = first + 1 /\ first < fetched /\ pc' # "joining"
          /\ UNCHANGED <<fetched, saved, dlq, repeated>>
      BY <1>13, Zenon DEF FinalizeMessage, outside
    <2>2. QED
      BY <2>1, <1>a DEF TypeOK
  <1>14. CASE BatchDone
    <2>1. /\ EmptyBatchAt(fetched) /\ first = fetched /\ pc' # "joining"
          /\ UNCHANGED <<dlq, repeated>>
      BY <1>14 DEF BatchDone, outside, history
    <2>2. QED
      BY <2>1, EmptyBatchHolds DEF RowInv
  <1>15. CASE EndSession
    BY <1>15, <1>b DEF EndSession, outside, TypeOK
  <1>16. CASE StopRun
    BY <1>16, <1>a DEF StopRun, broker, batch, outside, history, TypeOK, RowInv,
       StartOffset
  <1>17. CASE UNCHANGED vars
    BY <1>17, <1>a DEF vars, broker, session, batch, outside, history, TypeOK, RowInv,
       StartOffset
  <1>18. QED
    BY <1>1, <1>2, <1>3, <1>4, <1>5, <1>6, <1>7, <1>8, <1>9, <1>10, <1>11, <1>12, <1>13,
       <1>14, <1>15, <1>16, <1>17 DEF Next, ConsumerStep

\* persistFailedBatch writes a second row for a message only after the
\* message went back to the broker or after a save that took effect was
\* reported as failed: no interleaving of batches, retries and partial saves
\* does it, with or without a batch saver.
THEOREM RowsAreUnique ==
    Spec => []DLQRowsAreUnique
  <1>1. RowInv => DLQRowsAreUnique
    BY DEF RowInv, DLQRowsAreUnique
  <1>2. TypeInv => TypeOK
    BY DEF TypeInv
  <1>3. QED
    BY <1>1, <1>2, TypeInvInit, TypeInvStep, RowInvInit, RowInvStep, PTL DEF Spec
=============================================================================
