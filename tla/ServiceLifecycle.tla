-------------------------- MODULE ServiceLifecycle --------------------------
(***************************************************************************)
(* The life of one process: New with its setup, Run, and Close, for the    *)
(* auth service, the outbox dispatcher and the VK consumer (internal/app), *)
(* with the goroutines that use what Close takes away: the handlers of     *)
(* requests or messages, and the outbox worker, for which Close does not   *)
(* wait.                                                                   *)
(*                                                                         *)
(* The gRPC app appears as GrpcApp shows it to its owner: Notify gives an  *)
(* error or nothing, and Close returns when no handler runs.  A closed     *)
(* pool refuses connections and waits for those that are out; a closed     *)
(* producer panics when it is used.                                        *)
(***************************************************************************)
EXTENDS Naturals, Sequences

CONSTANTS
    Service,   \* "auth", "outbox" or "vk"
    Optional,  \* observability servers that are configured
    Handlers,  \* requests, or messages of the VK topic, in progress
    BatchSize, \* bound on the messages of one RunOnce
    Requests   \* bound on what each handler does

\* What the constants may be; the module that instantiates this one assumes it.
ServiceLifecycleAssumption ==
    /\ Service \in {"auth", "outbox", "vk"}
    /\ Optional \subseteq {"metrics", "profiler"}
    /\ BatchSize \in Nat \ {0} /\ Requests \in Nat

VARIABLES
    phase,    \* setup, ready, running, closing, returned, crashed
    step,     \* position in SetupOrder, then in CloseOrder
    built,    \* the fields of Application that are set
    refusing, \* resources whose Close has begun
    closed,   \* resources whose Close has returned
    why,      \* what made the process close: none, setup, start, ctx, notify
    ctxDone,  \* the signal context has ended
    handler,  \* handler -> idle, active, db
    served,   \* handler -> requests taken so far
    worker,   \* none, waiting, claiming, batch, publishing, sent, failed, marking, stopped
    left      \* messages left in the worker's batch

process == <<phase, step, built, refusing, closed, why>>
work    == <<worker, left>>
vars    == <<process, ctxDone, handler, served, work>>

Server == IF Service = "auth" THEN "grpc" ELSE "consumer"
HasWorker == Service \in {"auth", "outbox"}
HasHandlers == Service \in {"auth", "vk"}

\* Observability servers that setup does not build.
Disabled == {"metrics", "profiler"} \ Optional

\* setup of each service: the fields of Application in the order they are set.
AuthSetup == <<"trace", "log", "postgres", "publisher", "grpc", "metrics", "profiler">>
OutboxSetup == <<"trace", "log", "postgres", "publisher">>
VKSetup == <<"trace", "log", "postgres", "consumer">>
SetupOrder == [auth |-> AuthSetup, outbox |-> OutboxSetup, vk |-> VKSetup][Service]

\* Close of each service.
\* Mutant: the publisher before the server.
AuthClose_PublisherFirst ==
    <<"publisher", "grpc", "postgres", "profiler", "metrics", "trace", "log">>
AuthClose == <<"grpc", "publisher", "postgres", "profiler", "metrics", "trace", "log">>
OutboxClose == <<"publisher", "postgres", "trace", "log">>
VKClose == <<"consumer", "postgres", "trace", "log">>
CloseOrder == [auth |-> AuthClose, outbox |-> OutboxClose, vk |-> VKClose][Service]

\* The constructors that can fail.
MayFail == {"trace", "log", "postgres", "publisher", "consumer"}

UsesPool(h) == handler[h] = "db"
ConnectionsOut ==
    {h \in Handlers : UsesPool(h)} \cup {w \in {"worker"} : worker \in {"claiming", "marking"}}

-----------------------------------------------------------------------------
Init ==
    /\ phase = "setup"
    /\ step = 1
    /\ built = {}
    /\ refusing = {}
    /\ closed = {}
    /\ why = "none"
    /\ ctxDone = FALSE
    /\ handler = [h \in Handlers |-> "idle"]
    /\ served = [h \in Handlers |-> 0]
    /\ worker = "none"
    /\ left = 0

Alive == phase \notin {"returned", "crashed"}

Setup ==
    /\ phase = "setup"
    /\ step <= Len(SetupOrder)
    /\ built' = built \cup ({SetupOrder[step]} \ Disabled)
    /\ step' = step + 1
    /\ phase' = IF step = Len(SetupOrder) THEN "ready" ELSE "setup"
    /\ UNCHANGED <<refusing, closed, why, ctxDone, handler, served, work>>

BeginClose(reason) ==
    /\ phase' = "closing"
    /\ step' = 1
    /\ why' = reason
    /\ UNCHANGED <<built, refusing, closed>>

\* New closes what setup has built and returns the error.
SetupFails ==
    /\ phase = "setup"
    /\ SetupOrder[step] \in MayFail
    /\ BeginClose("setup")
    /\ UNCHANGED <<ctxDone, handler, served, work>>

\* Run.  The observability servers report nothing; a gRPC app that does not
\* start is not closed, the process ends.
Start ==
    /\ phase = "ready"
    /\ \/ /\ phase' = "running"
          /\ worker' = IF HasWorker THEN "waiting" ELSE "none"
          /\ UNCHANGED why
       \/ /\ Service = "auth"
          /\ phase' = "returned"
          /\ why' = "start"
          /\ UNCHANGED worker
    /\ UNCHANGED <<step, built, refusing, closed, ctxDone, handler, served, left>>

Signal ==
    /\ phase \in {"running", "closing"}
    /\ ~ctxDone
    /\ ctxDone' = TRUE
    /\ UNCHANGED <<process, handler, served, work>>

\* <-ctx.Done(): the VK consumer's Run returns when its session has ended.
RunStops ==
    /\ phase = "running"
    /\ ctxDone
    /\ Service = "vk" => \A h \in Handlers : handler[h] = "idle"
    /\ BeginClose("ctx")
    /\ UNCHANGED <<ctxDone, handler, served, work>>

\* An error from Notify.  The context, and with it the worker, goes on.
NotifyError ==
    /\ phase = "running"
    /\ Service = "auth"
    /\ BeginClose("notify")
    /\ UNCHANGED <<ctxDone, handler, served, work>>

\* Close, one resource after the other; fields that are nil are passed over.
CloseBegins ==
    /\ phase = "closing"
    /\ step <= Len(CloseOrder)
    /\ CloseOrder[step] \notin refusing
    /\ IF CloseOrder[step] \in built
       THEN refusing' = refusing \cup {CloseOrder[step]} /\ UNCHANGED step
       ELSE step' = step + 1 /\ UNCHANGED refusing
    /\ UNCHANGED <<phase, built, closed, why, ctxDone, handler, served, work>>

Drained(r) ==
    CASE r = "grpc" -> \A h \in Handlers : handler[h] = "idle"
      [] r = "publisher" -> worker # "publishing"
      [] r = "postgres" -> ConnectionsOut = {}
      [] OTHER -> TRUE

CloseEnds ==
    /\ phase = "closing"
    /\ step <= Len(CloseOrder)
    /\ CloseOrder[step] \in refusing
    /\ Drained(CloseOrder[step])
    /\ closed' = closed \cup {CloseOrder[step]}
    /\ step' = step + 1
    /\ UNCHANGED <<phase, built, refusing, why, ctxDone, handler, served, work>>

Return ==
    /\ phase = "closing"
    /\ step > Len(CloseOrder)
    /\ phase' = "returned"
    /\ UNCHANGED <<step, built, refusing, closed, why, ctxDone, handler, served, work>>

-----------------------------------------------------------------------------
\* A request of the gRPC app, or a message of the consumer's session.
HandlerBegins(h) ==
    /\ HasHandlers
    /\ phase = "running" \/ (phase = "closing" /\ why # "setup")
    /\ Server \notin refusing
    /\ Service = "vk" => phase = "running" /\ ~ctxDone
    /\ handler[h] = "idle"
    /\ served[h] < Requests
    /\ handler' = [handler EXCEPT ![h] = "active"]
    /\ served' = [served EXCEPT ![h] = @ + 1]
    /\ UNCHANGED <<process, ctxDone, work>>

HandlerSteps(h) ==
    /\ Alive
    /\ \/ handler[h] = "active" /\ "postgres" \notin refusing /\ handler' = [handler EXCEPT ![h] = "db"]
       \/ handler[h] \in {"active", "db"} /\ handler' = [handler EXCEPT ![h] = "idle"]
    /\ UNCHANGED <<process, ctxDone, served, work>>

-----------------------------------------------------------------------------
\* The outbox worker: Run, and RunOnce with its claim, and a publication and a
\* mark for each message.
WorkerStops ==
    /\ Alive
    /\ worker = "waiting"
    /\ ctxDone
    /\ worker' = "stopped"
    /\ UNCHANGED <<process, ctxDone, handler, served, left>>

CanConnect == "postgres" \notin refusing /\ ~ctxDone

WorkerClaims ==
    /\ Alive
    /\ worker = "waiting"
    /\ CanConnect
    /\ worker' = "claiming"
    /\ UNCHANGED <<process, ctxDone, handler, served, left>>

\* The transaction of the claim ends: an error, nothing to do, or a batch.
WorkerClaimed ==
    /\ Alive
    /\ worker = "claiming"
    /\ \/ worker' = "waiting" /\ left' = 0
       \/ \E n \in 1..BatchSize : worker' = "batch" /\ left' = n
    /\ UNCHANGED <<process, ctxDone, handler, served>>

\* Publish does not look at the context.  A producer that shuts down answers
\* with an error, a closed one panics.
WorkerPublishes ==
    /\ Alive
    /\ worker = "batch"
    /\ "publisher" \notin closed
    /\ worker' = IF "publisher" \in refusing THEN "failed" ELSE "publishing"
    /\ UNCHANGED <<process, ctxDone, handler, served, left>>

WorkerPanics ==
    /\ Alive
    /\ worker = "batch"
    /\ "publisher" \in closed
    /\ phase' = "crashed"
    /\ UNCHANGED <<step, built, refusing, closed, why, ctxDone, handler, served, work>>

WorkerPublished ==
    /\ Alive
    /\ worker = "publishing"
    /\ worker' \in {"sent", "failed"}
    /\ UNCHANGED <<process, ctxDone, handler, served, left>>

AfterMessage == IF left > 1 THEN "batch" ELSE "waiting"

\* MarkSent ends the iteration when it fails, MarkFailed does not.
WorkerMarks ==
    /\ Alive
    /\ worker \in {"sent", "failed"}
    /\ \/ CanConnect /\ worker' = "marking" /\ UNCHANGED left
       \/ worker = "sent" /\ worker' = "waiting" /\ left' = 0
       \/ worker = "failed" /\ worker' = AfterMessage /\ left' = left - 1
    /\ UNCHANGED <<process, ctxDone, handler, served>>

WorkerMarked ==
    /\ Alive
    /\ worker = "marking"
    /\ worker' = AfterMessage
    /\ left' = left - 1
    /\ UNCHANGED <<process, ctxDone, handler, served>>

Main == Setup \/ SetupFails \/ RunStops \/ CloseBegins \/ CloseEnds \/ Return
Worker ==
    \/ WorkerStops \/ WorkerClaimed
    \/ WorkerPublishes \/ WorkerPanics \/ WorkerPublished
    \/ WorkerMarks \/ WorkerMarked

Next ==
    \/ Main \/ Start \/ Signal \/ NotifyError
    \/ \E h \in Handlers : HandlerBegins(h) \/ HandlerSteps(h)
    \/ Worker \/ WorkerClaims

Spec == Init /\ [][Next]_vars

\* Goroutines run; handlers, statements and publications end.
FairSpec ==
    /\ Spec
    /\ WF_vars(Main)
    /\ WF_vars(Worker)
    /\ \A h \in Handlers : WF_vars(HandlerSteps(h))

-----------------------------------------------------------------------------
Resources(order) == {order[i] : i \in 1..Len(order)}

TypeOK ==
    /\ phase \in {"setup", "ready", "running", "closing", "returned", "crashed"}
    /\ step \in 1..(Len(SetupOrder) + 1) \/ step \in 1..(Len(CloseOrder) + 1)
    /\ closed \subseteq refusing /\ refusing \subseteq built /\ built \subseteq Resources(SetupOrder)
    /\ why \in {"none", "setup", "start", "ctx", "notify"}
    /\ ctxDone \in BOOLEAN
    /\ handler \in [Handlers -> {"idle", "active", "db"}]
    /\ served \in [Handlers -> 0..Requests]
    /\ worker \in {"none", "waiting", "claiming", "batch", "publishing", "sent", "failed",
                   "marking", "stopped"}
    /\ left \in 0..BatchSize

\* The strengthening behind the properties below.  What Close has passed over is
\* closed, and it has begun with at most one resource more; before Close nothing
\* is closed.
Passed == {CloseOrder[i] : i \in 1..(step - 1)}
CloseInv ==
    IF phase \in {"setup", "ready", "running"} \/ why = "start"
    THEN refusing = {}
    ELSE /\ step \in 1..(Len(CloseOrder) + 1)
         /\ closed = built \cap Passed
         /\ \A r \in refusing \ closed : step <= Len(CloseOrder) /\ r = CloseOrder[step]

\* What setup has built, and how the process got where it is.
RunInv ==
    /\ IF phase = "setup"
       THEN step <= Len(SetupOrder) /\ built = {SetupOrder[i] : i \in 1..(step - 1)} \ Disabled
       ELSE why = "setup" \/ built = Resources(SetupOrder) \ Disabled
    /\ phase \in {"setup", "ready", "running"} => why = "none"
    /\ phase = "closing" => why \in {"setup", "ctx", "notify"}
    /\ phase = "returned" => why = "start" \/ (why # "none" /\ step > Len(CloseOrder))
    /\ phase = "crashed" => why \in {"ctx", "notify"} /\ "publisher" \in closed

\* Handlers and the worker begin after a Start that succeeded, and handlers end
\* with the server; the VK consumer's end before Close begins.
Unstarted == phase \in {"setup", "ready"} \/ why \in {"setup", "start"}
WorkInv ==
    /\ Unstarted \/ ~HasHandlers \/ Server \in closed => \A h \in Handlers : handler[h] = "idle"
    /\ Service = "vk" /\ phase # "running" => \A h \in Handlers : handler[h] = "idle"
    /\ Unstarted \/ ~HasWorker => worker = "none"
    /\ worker \in {"batch", "publishing", "sent", "failed", "marking"} => left > 0

\* A handler that runs never meets a pool that is closing: the server, or the
\* consumer's session, has ended before.
HandlersKeepTheirPool ==
    "postgres" \in refusing => \A h \in Handlers : handler[h] = "idle"

\* New that fails and Run that has served leave nothing open, whichever of the
\* two branches of Run's select was taken.
NothingIsLeftOpen ==
    phase = "returned" /\ why # "start" => closed = built

\* Close does not wait for the worker, whose next publication brings the process
\* down.  When that happens the process was closing and every request had its answer.
PanicHurtsNobody ==
    phase = "crashed" => why \in {"ctx", "notify"} /\ \A h \in Handlers : handler[h] = "idle"

\* Close comes to its end, or the worker's panic ends the process, also when the
\* worker knows of no shutdown because its context goes on.
ShutdownEnds == phase = "closing" ~> ~Alive
=============================================================================
