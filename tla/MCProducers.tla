----------------------------- MODULE MCProducers -----------------------------
(***************************************************************************)
(* Instances of the three Kafka producers for TLC.  They have no state in  *)
(* common, so one of them runs in each behaviour: the transactional one    *)
(* with batches that compete or with a goroutine that drives transactions  *)
(* itself, with more calls (tx), the asynchronous one with an owner that   *)
(* waits for the senders before it closes (waits) or with one that does    *)
(* not (hasty), or the synchronous one (sync).                             *)
(***************************************************************************)
EXTENDS TxProducer, Sequences

CONSTANTS Parts,                                         \* the producers of a run
          Senders, Pipe, ReturnErrors, ReturnSuccesses,  \* of AsyncProducer
          Topic, OwnTopics, NoTopic                      \* of SyncProducer

VARIABLES
  part,
  asyncPc, asyncSize, asyncBad, asyncMsg, loop, watched, cancelled, closer, handled, closeErrs,
  syncPc, batch, single, answer, written, syncCounted, syncHandled, syncClosed

asyncVars == <<asyncPc, asyncSize, asyncBad, asyncMsg, loop, watched, cancelled, closer, handled, closeErrs>>
syncVars == <<syncPc, batch, single, answer, written, syncCounted, syncHandled, syncClosed>>
mcvars == <<vars, crew, part, asyncVars, syncVars>>

Owners == {"waits", "hasty"}

Async(o) == INSTANCE AsyncProducer WITH
  OwnerWaits <- o = "waits", pc <- asyncPc, size <- asyncSize, bad <- asyncBad, msg <- asyncMsg

Sync == INSTANCE SyncProducer WITH
  Callers <- Senders, pc <- syncPc, counted <- syncCounted, handled <- syncHandled,
  closed <- syncClosed

ASSUME ProducersAssumption ==
  /\ Parts \subseteq Owners \cup {"tx", "sync"}
  /\ IsFiniteSet(Senders)
  /\ \A o \in Owners : Async(o)!AsyncProducerAssumption
  /\ Sync!SyncProducerAssumption

PartInit ==
  /\ part \in Parts
  /\ Init /\ crew \in (IF part = "tx" THEN {Batchers, Drivers} ELSE {Batchers})
  /\ Async("waits")!Init /\ Sync!Init

\* A batch goroutine makes one call, one that drives transactions MaxCalls.
TxNext == Next /\ \A c \in Batchers : calls'[c] <= 1

AsyncNext == \E o \in Owners : part = o /\ Async(o)!Next

PartNext ==
  /\ \/ part = "tx" /\ TxNext /\ UNCHANGED <<asyncVars, syncVars>>
     \/ AsyncNext /\ UNCHANGED <<vars, crew, syncVars>>
     \/ part = "sync" /\ Sync!Next /\ UNCHANGED <<vars, crew, asyncVars>>
  /\ UNCHANGED part

\* Fairness as in the specification of the asynchronous producer.
AsyncFairness ==
  /\ \A s \in Senders :
       /\ SF_asyncVars(\E o \in Owners : part = o /\ Async(o)!SenderStep(s))
       /\ WF_asyncVars(\E o \in Owners : part = o /\ Async(o)!Send(s))
  /\ \A m \in Async("waits")!Messages : WF_asyncVars(Async("waits")!Answer(m))
  /\ WF_asyncVars(\E o \in Owners : part = o /\ Async(o)!LoopStep)
  /\ WF_asyncVars(Async("waits")!CloseStep) /\ SF_asyncVars(Async("waits")!ShutdownDispatched)
  /\ WF_asyncVars(\E o \in Owners : part = o /\ Async(o)!Close)
  /\ WF_asyncVars(part = "hasty" /\ Async("hasty")!CtxDone)

\* The specifications of the two runs.
TxSpec == PartInit /\ [][PartNext]_mcvars /\ Fairness
PartSpec == PartInit /\ [][PartNext]_mcvars /\ AsyncFairness

\* The asynchronous producer keeps its types, and it ends as CleanShutdown says for
\* the owner that calls Close after the senders: no send on the closed Input, and
\* no accepted message without an answer.
ClosesCleanly ==
  \A o \in Owners : part = o =>
    /\ Async(o)!TypeOK
    /\ o = "waits" => Async(o)!CleanShutdown

\* What the synchronous producer's calls, its handler and its counter say when
\* some messages of a batch are written and others fail or cannot be converted:
\* nil means written, a bad value keeps the batch from being sent, every loss is
\* handed to the handler, and the counter exceeds nothing that is in the logs.
SyncAnswersAreTrue ==
  /\ Sync!TypeOK
  /\ Sync!NilMeansWritten
  /\ Sync!BadBatchSendsNothing
  /\ Sync!LossIsHandled
  /\ Sync!CountedIsWritten

\* Every failure of the asynchronous producer gets to the error handler or into the
\* error that Close returns, and to one of them only.
FailedIsReported == [][Async("waits")!ReportsFailures]_asyncVars

\* Every sender ends, and with either owner the loop of Run and Close do, although
\* the loop and Close read the same channels.
AsyncEnds ==
  /\ FailedIsReported
  /\ Async("waits")!EverySendEnds
  /\ part \in Owners => Async("waits")!ShutdownEnds
=============================================================================
