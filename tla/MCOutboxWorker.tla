--------------------------- MODULE MCOutboxWorker ---------------------------
(***************************************************************************)
(* Instances of OutboxWorker for TLC.  A behaviour has a crew, the workers *)
(* that run in it, a load, the rows that are created in it, and a limit of *)
(* the batch: many workers on one row and many rows for few workers are    *)
(* checked in one run, without the product of both.                        *)
(***************************************************************************)
EXTENDS OutboxWorker, TLC

VARIABLES crew, load, limit
mcvars == <<vars, crew, load, limit>>

\* Workers are interchangeable: no action and no property names one.
WorkerSymmetry == Permutations(Worker)

First(S) == CHOOSE m \in S : TRUE
OneRow == load = {First(Msg \ Poison)}

\* Several rows at a time are checked with a coarse clock and a counter that
\* stops at the first attempt.
Coarse == INSTANCE OutboxWorker WITH AttemptCap <- 1, TimeSteps <- {StaleAfter}

CrewInit ==
    /\ Init
    /\ crew \in SUBSET Worker /\ load \in SUBSET Msg /\ limit = BatchSize
    /\ \/ crew = Worker /\ OneRow
       \/ Cardinality(crew) = Cardinality(Worker) - 1 /\ load = Msg

CrewNext ==
    /\ \/ \E m \in load : Enqueue(m)
       \/ OneRow /\ \E w \in crew : WorkerStep(w)
       \/ ~OneRow /\ \E w \in crew : Coarse!WorkerStep(w)
       \/ OneRow /\ \E d \in TimeSteps : Tick(d)
       \/ ~OneRow /\ Tick(StaleAfter)
    /\ UNCHANGED <<crew, load, limit>>

CrewSpec == CrewInit /\ [][CrewNext]_mcvars
-----------------------------------------------------------------------------
(* With fairness, for the workers that run.  A worker that is alone takes  *)
(* BatchSize rows at a time, or only one.                                  *)

Single == INSTANCE OutboxWorker WITH BatchSize <- 1

LiveInit ==
    /\ Init
    /\ \/ crew = Worker /\ OneRow /\ limit = BatchSize
       \/ crew = {First(Worker)} /\ load = Msg /\ limit \in {1, BatchSize}

LiveNext ==
    /\ \/ \E m \in load : Enqueue(m)
       \/ limit = BatchSize /\ \E w \in crew : WorkerStep(w)
       \/ limit # BatchSize /\ \E w \in crew : Single!WorkerStep(w)
       \/ \E d \in TimeSteps : Tick(d)
    /\ UNCHANGED <<crew, load, limit>>

LiveSpec ==
    /\ LiveInit /\ [][LiveNext]_mcvars
    /\ WF_vars(\E d \in TimeSteps : Tick(d))
    /\ \A w \in Worker : WF_vars(w \in crew /\ PickPending(w)) /\ RunFairness(w)

\* Rows that fail for ever come first in each batch (ORDER BY next_attempt_at),
\* so they must leave room in it for others.
RoomForOthers == Cardinality(Poison) < limit

\* Where RunOnce's batch has room besides the poison rows, no row that can be
\* published is stranded by what other workers left behind: EveryRowIsSent, and
\* with it the liveness of OutboxDelivery, MarkSent for every accepted event.
EveryRowIsSettled == RoomForOthers => EveryRowIsSent /\ ImplementsConfirmation
=============================================================================
