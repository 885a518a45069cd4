------------------------------ MODULE TxProducer ------------------------------
(***************************************************************************)
(* The transactional Kafka producer                                        *)
(* (pkg/adapters/kafka/producer/transactional-producer): goroutines that   *)
(* share one producer and call SendTypedMessagesTx (Batchers), or drive a  *)
(* transaction themselves with BeginTx, SendTypedMessage, AddOffsetsToTx,  *)
(* CommitTx and AbortTx (Drivers).                                         *)
(*                                                                         *)
(* sarama's transaction manager is external: its status, the table of the  *)
(* status changes it allows, txLock (held from the beginning to the end of *)
(* a commit or an abort), and what the brokers and the transaction         *)
(* coordinator may answer, an answer that is lost included.  The producer  *)
(* is built for Kafka 2.3, where sarama never bumps an epoch.              *)
(***************************************************************************)
EXTENDS Naturals, FiniteSets

CONSTANTS Batchers,   \* goroutines that call SendTypedMessagesTx
          Drivers,    \* goroutines that call the single operations
          MaxCalls,   \* calls that send, per goroutine
          MaxBatch,   \* messages of a call
          Nobody      \* the holder of a free lock

ASSUME TxProducerAssumption ==
  /\ Batchers \cap Drivers = {} /\ Nobody \notin Batchers \cup Drivers
  /\ IsFiniteSet(Batchers \cup Drivers)
  /\ MaxCalls \in Nat /\ MaxBatch \in Nat \ {0}

Callers == Batchers \cup Drivers

\* The i-th message of the k-th sending call of c.
Messages == Callers \X (1 .. MaxCalls) \X (1 .. MaxBatch)

VARIABLES
  crew,      \* the goroutines that share the producer in this behaviour
  pc,        \* what each goroutine does next
  calls,     \* sending calls made by each goroutine
  size,      \* messages of its current call
  bad,       \* the current call holds a value that cannot be serialized
  result,    \* what its finished calls returned
  pendingTx, \* TopicProducer.pendingTx
  counted,   \* the messages_total counter, status success
  status,    \* sarama's transaction status
  txLock,    \* the goroutine that holds sarama's txLock
  msg,       \* what became of each message
  offsets,   \* offsets wait to be published with the transaction
  joined,    \* the transaction has a partition (a record reached a broker)
  coord      \* the transaction at the coordinator

client == <<pc, calls, size, bad, result, pendingTx, counted>>
broker == <<status, txLock, msg, offsets, joined, coord>>
vars == <<client, broker>>

Statuses == {"Ready", "InTransaction", "Committing", "Aborting",
             "AbortableError", "FatalError"}

\* One type invariant.
TypeOK ==
  /\ crew \subseteq Callers
  /\ pc \in [Callers -> {"idle", "send", "wait", "commit", "commitEnd", "swap",
                         "commitFailed", "abort", "abortEnd", "store"}]
  /\ calls \in [Callers -> 0 .. MaxCalls]
  /\ size \in [Callers -> 0 .. MaxBatch]
  /\ bad \in [Callers -> BOOLEAN]
  /\ result \in [Callers \X (1 .. MaxCalls) -> {"none", "ok", "error"}]
  /\ pendingTx \in 0 .. Cardinality(Messages)
  /\ counted \in 0 .. Cardinality(Messages)
  /\ status \in Statuses
  /\ txLock \in Callers \cup {Nobody}
  /\ msg \in [Messages -> {"new", "inflight", "acked", "failed", "committed", "aborted"}]
  /\ offsets \in BOOLEAN /\ joined \in BOOLEAN
  /\ coord \in {"open", "committed", "aborted", "timedOut"}

\* NewTopicProducer: idempotent, all replicas, results returned; sarama has
\* initialized the transactional id before the constructor returns.
Init ==
  /\ crew \in SUBSET Callers
  /\ pc = [c \in Callers |-> "idle"]
  /\ calls = [c \in Callers |-> 0]
  /\ size = [c \in Callers |-> 0]
  /\ bad = [c \in Callers |-> FALSE]
  /\ result = [k \in Callers \X (1 .. MaxCalls) |-> "none"]
  /\ pendingTx = 0 /\ counted = 0
  /\ status = "Ready" /\ txLock = Nobody
  /\ msg = [m \in Messages |-> "new"]
  /\ offsets = FALSE /\ joined = FALSE /\ coord = "open"

-----------------------------------------------------------------------------
(* sarama: what a status change may be.                                    *)

InFlight == {m \in Messages : msg[m] = "inflight"}
Acked == {m \in Messages : msg[m] = "acked"}
CurrentCall(c) == {<<c, calls[c], i>> : i \in 1 .. size[c]}

\* producerTxnTransitions, towards InError|AbortableError and towards
\* InError|FatalError: an error is not recorded when no transaction is open.
ErrorStatus(fatal) ==
  CASE status = "Ready" -> "Ready"
    [] status = "FatalError" -> "FatalError"
    [] OTHER -> IF fatal THEN "FatalError" ELSE "AbortableError"

\* completeTransaction: allowed from the ending states only.
MayComplete == status \in {"Committing", "Aborting"}
Complete ==
  /\ status' = "Ready"
  /\ joined' = FALSE /\ offsets' = FALSE /\ coord' = "open"

Return(c, r) ==
  /\ pc' = [pc EXCEPT ![c] = "idle"]
  /\ result' = IF calls[c] = 0 THEN result ELSE [result EXCEPT ![<<c, calls[c]>>] = r]

-----------------------------------------------------------------------------
(* SendTypedMessagesTx.                                                    *)

\* A batch begins: the values that cannot be serialized are known only later.
BeginOk ==
  /\ txLock = Nobody /\ status = "Ready"
  /\ status' = "InTransaction"

BeginRefused ==
  /\ txLock = Nobody /\ status # "Ready"

StartBatch(c) ==
  /\ c \in Batchers /\ pc[c] = "idle" /\ calls[c] < MaxCalls
  /\ calls' = [calls EXCEPT ![c] = @ + 1]
  /\ \E n \in 0 .. MaxBatch : size' = [size EXCEPT ![c] = n]
  /\ \E b \in BOOLEAN :
       /\ bad' = [bad EXCEPT ![c] = b]
       /\ b => size'[c] > 0

\* A bug: the batch is sent although BeginTx failed.
SendTypedMessagesTx_IgnoresBegin(c) ==
  /\ StartBatch(c)
  /\ BeginOk \/ (BeginRefused /\ UNCHANGED status)
  /\ pc' = [pc EXCEPT ![c] = "send"]
  /\ UNCHANGED <<result, pendingTx, counted, txLock, msg, offsets, joined, coord>>

SendTypedMessagesTx(c) ==
  /\ StartBatch(c)
  /\ \/ /\ BeginOk
        /\ pc' = [pc EXCEPT ![c] = "send"]
        /\ UNCHANGED result
     \/ /\ BeginRefused
        /\ result' = [result EXCEPT ![<<c, calls'[c]>>] = "error"]
        /\ UNCHANGED <<pc, status>>
  /\ UNCHANGED <<pendingTx, counted, txLock, msg, offsets, joined, coord>>

-----------------------------------------------------------------------------
(* The calls of a driver.                                                  *)

BeginTx(c) ==
  /\ c \in Drivers /\ pc[c] = "idle" /\ BeginOk
  /\ UNCHANGED <<client, txLock, msg, offsets, joined, coord>>

SendTypedMessage(c) ==
  /\ c \in Drivers /\ pc[c] = "idle" /\ calls[c] < MaxCalls
  /\ calls' = [calls EXCEPT ![c] = @ + 1]
  /\ size' = [size EXCEPT ![c] = 1]
  /\ pc' = [pc EXCEPT ![c] = "send"]
  /\ UNCHANGED <<bad, result, pendingTx, counted, broker>>

\* AddOffsetsToTx and AddMessageToTx: only while a transaction is open.
AddOffsetsToTx(c) ==
  /\ c \in Drivers /\ pc[c] = "idle"
  /\ txLock = Nobody /\ status = "InTransaction"
  /\ offsets' = TRUE
  /\ UNCHANGED <<client, status, txLock, msg, joined, coord>>

CommitTx(c) ==
  /\ c \in Drivers /\ pc[c] = "idle"
  /\ pc' = [pc EXCEPT ![c] = "commit"]
  /\ UNCHANGED <<calls, size, bad, result, pendingTx, counted, broker>>

AbortTx(c) ==
  /\ c \in Drivers /\ pc[c] = "idle"
  /\ pc' = [pc EXCEPT ![c] = "abort"]
  /\ UNCHANGED <<calls, size, bad, result, pendingTx, counted, broker>>

-----------------------------------------------------------------------------
(* Sending: sendProducerMessage(s) hands the messages to sarama one by one *)
(* and waits for the answer to each.                                       *)

\* ToProducerMessage fails for a value: nothing of the batch is sent.
SerializeFails(c) ==
  /\ pc[c] = "send" /\ bad[c]
  /\ pc' = [pc EXCEPT ![c] = "abort"]
  /\ UNCHANGED <<calls, size, bad, result, pendingTx, counted, broker>>

IsNext(c, m) ==
  msg[m] = "new" /\ \A o \in CurrentCall(c) : msg[o] = "new" => m[3] <= o[3]

\* The dispatcher refuses a message when no transaction is open; the refusal
\* counts as a failed message of a transaction that is being ended.
Dispatch(c) ==
  /\ pc[c] = "send" /\ ~bad[c]
  /\ \E m \in CurrentCall(c) :
       /\ IsNext(c, m)
       /\ IF status = "InTransaction"
            THEN msg' = [msg EXCEPT ![m] = "inflight"] /\ UNCHANGED status
            ELSE msg' = [msg EXCEPT ![m] = "failed"] /\ status' = ErrorStatus(FALSE)
  /\ UNCHANGED <<client, txLock, offsets, joined, coord>>

AllDispatched(c) ==
  /\ pc[c] = "send" /\ ~bad[c]
  /\ \A m \in CurrentCall(c) : msg[m] # "new"
  /\ pc' = [pc EXCEPT ![c] = "wait"]
  /\ UNCHANGED <<calls, size, bad, result, pendingTx, counted, broker>>

BrokerAcks(m) ==
  /\ msg[m] = "inflight"
  /\ msg' = [msg EXCEPT ![m] = "acked"]
  /\ joined' = TRUE
  /\ UNCHANGED <<client, status, txLock, offsets, coord>>

BrokerFails(m) ==
  /\ msg[m] = "inflight"
  /\ msg' = [msg EXCEPT ![m] = "failed"]
  /\ \E fatal \in BOOLEAN : status' = ErrorStatus(fatal)
  /\ joined' \in {joined, TRUE}
  /\ UNCHANGED <<client, txLock, offsets, coord>>

Answered(c) == \A m \in CurrentCall(c) : msg[m] # "inflight"
AnyFailed(c) == \E m \in CurrentCall(c) : msg[m] = "failed"

\* Every message was accepted: pendingTx grows and a batch goes on to commit.
SendSucceeds(c) ==
  /\ pc[c] = "wait" /\ Answered(c) /\ ~AnyFailed(c)
  /\ pendingTx' = pendingTx + size[c]
  /\ \/ c \in Batchers /\ pc' = [pc EXCEPT ![c] = "commit"] /\ UNCHANGED result
     \/ c \in Drivers /\ Return(c, "ok")
  /\ UNCHANGED <<calls, size, bad, counted, broker>>

SendFails(c) ==
  /\ pc[c] = "wait" /\ Answered(c) /\ AnyFailed(c)
  /\ \/ c \in Batchers /\ pc' = [pc EXCEPT ![c] = "abort"] /\ UNCHANGED result
     \/ c \in Drivers /\ Return(c, "error")
  /\ UNCHANGED <<calls, size, bad, pendingTx, counted, broker>>

-----------------------------------------------------------------------------
(* CommitTx.  finishTransaction first sends a marker to the dispatcher,    *)
(* which changes the status, and then waits for the messages in flight.    *)

CommitStarts(c) ==
  /\ pc[c] = "commit" /\ txLock = Nobody
  /\ txLock' = c
  /\ status' = IF status = "InTransaction" THEN "Committing" ELSE status
  /\ pc' = [pc EXCEPT ![c] = "commitEnd"]
  /\ UNCHANGED <<calls, size, bad, result, pendingTx, counted, msg, offsets, joined, coord>>

CommitMay(c) ==
  /\ pc[c] = "commitEnd" /\ InFlight = {}
  /\ txLock' = Nobody

\* The transaction is committed at the coordinator and known to be.
CommitSucceeds(c) ==
  /\ CommitMay(c)
  /\ status \notin {"AbortableError", "FatalError"} /\ MayComplete
  /\ joined => coord \in {"open", "committed"}
  /\ msg' = [m \in Messages |-> IF msg[m] = "acked" THEN "committed" ELSE msg[m]]
  /\ Complete
  /\ pc' = [pc EXCEPT ![c] = "swap"]
  /\ UNCHANGED <<calls, size, bad, result, pendingTx, counted>>

\* Where a failed commit leads: a batch looks at the status, a driver returns.
CommitError(c) ==
  pc' = [pc EXCEPT ![c] = IF c \in Batchers THEN "commitFailed" ELSE "idle"]

\* The transaction is in error, or none is open.
CommitRefused(c) ==
  /\ CommitMay(c)
  /\ status \in {"AbortableError", "FatalError"} \/ (~joined /\ ~MayComplete)
  /\ CommitError(c)
  /\ UNCHANGED <<calls, size, bad, result, pendingTx, counted>>
  /\ UNCHANGED <<status, msg, offsets, joined, coord>>

\* The offsets or the end of the transaction could not be sent, the retries
\* are used up: the status stays, with neither error flag; or the coordinator
\* refuses for good; or the offsets of the group are refused.
CommitGivesUp(c) ==
  /\ CommitMay(c) /\ joined /\ status \in {"Committing", "Aborting"}
  /\ \/ UNCHANGED status
     \/ status' = "FatalError"
     \/ offsets /\ coord = "open" /\ status' = "AbortableError"
  /\ CommitError(c)
  /\ UNCHANGED <<calls, size, bad, result, pendingTx, counted>>
  /\ UNCHANGED <<msg, offsets, joined, coord>>

\* The coordinator committed and every answer was lost.
CommitAnswerLost(c) ==
  /\ CommitMay(c) /\ joined /\ status \in {"Committing", "Aborting"} /\ coord = "open"
  /\ msg' = [m \in Messages |-> IF msg[m] = "acked" THEN "committed" ELSE msg[m]]
  /\ coord' = "committed" /\ offsets' = FALSE
  /\ CommitError(c)
  /\ UNCHANGED <<calls, size, bad, result, pendingTx, counted, status, joined>>

\* pendingTx is swapped out and counted after txLock is released.
CommitReturns(c) ==
  /\ pc[c] = "swap"
  /\ counted' = counted + pendingTx
  /\ pendingTx' = 0
  /\ Return(c, "ok")
  /\ UNCHANGED <<calls, size, bad, broker>>

\* A batch whose commit failed aborts only when the status says it may.
CommitFailed(c) ==
  /\ pc[c] = "commitFailed"
  /\ IF status = "AbortableError"
       THEN pc' = [pc EXCEPT ![c] = "abort"] /\ UNCHANGED result
       ELSE Return(c, "error")
  /\ UNCHANGED <<calls, size, bad, pendingTx, counted, broker>>

-----------------------------------------------------------------------------
(* AbortTx.                                                                *)

AbortStarts(c) ==
  /\ pc[c] = "abort" /\ txLock = Nobody
  /\ txLock' = c
  /\ status' = IF status \in {"InTransaction", "AbortableError"} THEN "Aborting" ELSE status
  /\ pc' = [pc EXCEPT ![c] = "abortEnd"]
  /\ UNCHANGED <<calls, size, bad, result, pendingTx, counted, msg, offsets, joined, coord>>

AbortMay(c) ==
  /\ pc[c] = "abortEnd" /\ InFlight = {}
  /\ txLock' = Nobody

\* sarama ends a transaction in the state AbortableError too, but cannot
\* complete it from there.
AbortSucceeds(c) ==
  /\ AbortMay(c) /\ MayComplete
  /\ joined => coord \in {"open", "aborted"}
  /\ msg' = [m \in Messages |-> IF msg[m] = "acked" THEN "aborted" ELSE msg[m]]
  /\ Complete
  /\ pc' = [pc EXCEPT ![c] = "store"]
  /\ UNCHANGED <<calls, size, bad, result, pendingTx, counted>>

\* A bug: a failed abort is tried again until it succeeds.
AbortError_Retries(c) ==
  pc' = [pc EXCEPT ![c] = "abort"] /\ UNCHANGED result

AbortError(c) == Return(c, "error")

AbortRefused(c) ==
  /\ AbortMay(c)
  /\ status = "FatalError" \/ (~joined /\ ~MayComplete)
  /\ AbortError(c)
  /\ UNCHANGED <<calls, size, bad, pendingTx, counted, status, msg, offsets, joined, coord>>

AbortGivesUp(c) ==
  /\ AbortMay(c) /\ joined /\ status \notin {"FatalError", "Ready"}
  /\ \/ UNCHANGED status
     \/ status' = "FatalError"
  /\ AbortError(c)
  /\ UNCHANGED <<calls, size, bad, pendingTx, counted, msg, offsets, joined, coord>>

AbortAnswerLost(c) ==
  /\ AbortMay(c) /\ joined /\ status \notin {"FatalError", "Ready"} /\ coord = "open"
  /\ msg' = [m \in Messages |-> IF msg[m] = "acked" THEN "aborted" ELSE msg[m]]
  /\ coord' = "aborted"
  /\ AbortError(c)
  /\ UNCHANGED <<calls, size, bad, pendingTx, counted, status, offsets, joined>>

AbortReturns(c) ==
  /\ pc[c] = "store"
  /\ pendingTx' = 0
  /\ Return(c, "error")
  /\ UNCHANGED <<calls, size, bad, counted, broker>>

\* The coordinator aborts a transaction that stays open too long.
CoordinatorTimesOut ==
  /\ joined /\ coord = "open"
  /\ coord' = "timedOut"
  /\ msg' = [m \in Messages |-> IF msg[m] = "acked" THEN "aborted" ELSE msg[m]]
  /\ UNCHANGED <<client, status, txLock, offsets, joined>>

-----------------------------------------------------------------------------
Step(c) ==
  \/ SerializeFails(c) \/ Dispatch(c) \/ AllDispatched(c)
  \/ SendSucceeds(c) \/ SendFails(c)
  \/ CommitStarts(c) \/ CommitSucceeds(c) \/ CommitRefused(c) \/ CommitGivesUp(c)
  \/ CommitAnswerLost(c) \/ CommitReturns(c) \/ CommitFailed(c)
  \/ AbortStarts(c) \/ AbortSucceeds(c) \/ AbortRefused(c) \/ AbortGivesUp(c)
  \/ AbortAnswerLost(c) \/ AbortReturns(c)

CallerNext(c) ==
  \/ Step(c)
  \/ SendTypedMessagesTx(c)
  \/ BeginTx(c) \/ SendTypedMessage(c) \/ AddOffsetsToTx(c) \/ CommitTx(c) \/ AbortTx(c)

BrokerNext ==
  \/ \E m \in Messages : BrokerAcks(m) \/ BrokerFails(m)
  \/ CoordinatorTimesOut

Next ==
  /\ BrokerNext \/ \E c \in crew : CallerNext(c)
  /\ UNCHANGED crew

\* Goroutines run, txLock is a fair mutex, brokers answer or time out.
Fairness ==
  /\ \A c \in Callers : SF_vars(Step(c))
  /\ \A m \in Messages : WF_vars(BrokerAcks(m) \/ BrokerFails(m))

Spec == Init /\ [][Next]_<<vars, crew>> /\ Fairness

-----------------------------------------------------------------------------
\* The messages of a batch become visible together: when its call has ended,
\* all of them are committed or none is, whatever was answered or lost.
BatchIsAtomic ==
  \A c \in Batchers, k \in 1 .. MaxCalls :
    result[<<c, k>>] # "none" =>
      LET sent == {i \in 1 .. MaxBatch : msg[<<c, k, i>>] # "new"}
      IN \/ \A i \in sent : msg[<<c, k, i>>] = "committed"
         \/ \A i \in sent : msg[<<c, k, i>>] # "committed"

\* SendTypedMessagesTx returns nil only when its messages are committed.
OkMeansCommitted ==
  \A c \in Batchers, k \in 1 .. MaxCalls :
    result[<<c, k>>] = "ok" =>
      \A i \in 1 .. MaxBatch : msg[<<c, k, i>>] \in {"new", "committed"}

\* Two batches never share a transaction: what is open belongs to one call,
\* also after a commit or an abort that failed and left its messages behind.
OneBatchPerTransaction ==
  \A m, o \in Acked \cup InFlight :
    m[1] \in Batchers /\ o[1] \in Batchers => m[1] = o[1] /\ m[2] = o[2]

\* Between calls the success counter of messages_total does not exceed what
\* was committed.
CountedIsDelivered ==
  (\A c \in Callers : pc[c] = "idle") =>
    counted <= Cardinality({m \in Messages : msg[m] = "committed"})

\* For a goroutine that has the producer to itself the counter is right: CommitTx
\* and AbortTx leave no count behind for the next transaction.
CountedAlone == (\A c, d \in crew : c = d) => CountedIsDelivered

\* What consumers see of a batch, and what SendTypedMessagesTx and the counter
\* say of it, when nobody else ends its transaction: all of it or nothing, in a
\* transaction of its own, committed when the call returned nil, whatever
\* answers of the coordinator were lost.
BatchesAreTransactions ==
  /\ TypeOK
  /\ crew \subseteq Batchers =>
       BatchIsAtomic /\ OneBatchPerTransaction /\ OkMeansCommitted
  /\ CountedAlone

\* The strengthening behind them.  Calls are in order: nothing of a later call
\* is sent or answered, a call that waits has sent everything, and a batch has
\* no result before it ends.
CallsInv ==
  /\ \A c \in Callers \ crew : pc[c] = "idle"
  /\ \A m \in Messages :
       \/ m[2] > calls[m[1]]
       \/ m[2] = calls[m[1]] /\ m[3] > size[m[1]]
       => msg[m] = "new"
  /\ \A c \in Callers :
       /\ pc[c] \in {"send", "wait"} => calls[c] > 0
       /\ pc[c] = "wait" => \A m \in CurrentCall(c) : msg[m] # "new"
       /\ \A k \in 1 .. MaxCalls : k > calls[c] => result[<<c, k>>] = "none"
  /\ coord # "open" => joined

\* A batch between its BeginTx and the end of its transaction.
Busy(c) == pc[c] \notin {"idle", "swap", "store"}

\* A transaction has one batch, from the start at the status Ready to the end.
OwnerInv ==
  /\ \A c, d \in Callers : Busy(c) /\ Busy(d) => c = d
  /\ status = "Ready" =>
       /\ \A c \in Callers : ~Busy(c)
       /\ Acked \cup InFlight = {} /\ ~joined
  /\ \A m, o \in Acked \cup InFlight : m[1] = o[1] /\ m[2] = o[2]
  /\ \A c \in Callers : Busy(c) =>
       \A m \in Acked \cup InFlight : m[1] = c /\ m[2] = calls[c]

\* What became of the messages of a batch at each place of its call.
PhaseInv ==
  /\ \A c \in Callers : pc[c] # "idle" =>
       /\ calls[c] > 0 /\ result[<<c, calls[c]>>] = "none"
       /\ \A m \in Messages : m[1] = c /\ m[2] = calls[c] =>
            /\ msg[m] = "aborted" /\ pc[c] \in {"send", "wait", "commit", "commitEnd"} =>
                 coord # "open"
            /\ pc[c] \in {"commit", "commitEnd"} => msg[m] \notin {"inflight", "failed"}
            /\ pc[c] = "swap" \/ (pc[c] = "commitFailed" /\ coord = "committed") =>
                 msg[m] \in {"new", "committed"}
            /\ msg[m] = "committed" => pc[c] \in {"swap", "commitFailed"}
            /\ msg[m] = "committed" /\ pc[c] = "commitFailed" => coord = "committed"
  /\ \A c \in Callers : Busy(c) /\ coord = "committed" =>
       pc[c] = "commitFailed" /\ status \in {"Committing", "Aborting"}

\* The messages that a goroutine on its own has been told are accepted and that
\* are or may yet be committed: the counter and pendingTx are not above them,
\* unless the transaction was aborted and pendingTx will not be counted.
Told == {m \in Messages :
  /\ msg[m] \in {"acked", "committed"}
  /\ ~(m[2] = calls[m[1]] /\ pc[m[1]] \in {"send", "wait"})}

Committed == {m \in Messages : msg[m] = "committed"}

CountInv ==
  /\ counted <= Cardinality(Committed)
  /\ \A c \in crew :
       /\ pc[c] = "swap" => counted + pendingTx <= Cardinality(Committed)
       /\ pc[c] \notin {"swap", "store"} /\ coord \in {"open", "committed"} =>
            counted + pendingTx <= Cardinality(Told)
       /\ pc[c] \in {"send", "wait"} /\ coord \in {"open", "committed"} =>
            \A m \in CurrentCall(c) : msg[m] # "aborted"

\* The messages of calls that ended: no count is above their number.
Done == {m \in Messages :
  m[2] < calls[m[1]] \/ (m[2] = calls[m[1]] /\ pc[m[1]] \notin {"send", "wait"})}

BoundInv == counted + pendingTx <= Cardinality(Done)

\* Every call returns: nobody waits for ever for txLock or for an answer.
EveryCallReturns ==
  \A c \in Callers : pc[c] # "idle" ~> pc[c] = "idle"
=============================================================================
