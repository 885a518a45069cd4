------------------------------ MODULE MCProcess ------------------------------
(***************************************************************************)
(* Instances of what runs inside one process, for TLC: the gRPC server     *)
(* with its gateway (GrpcApp), the life of each of the three services      *)
(* (ServiceLifecycle), the calls of the auth service (AuthRpc), the        *)
(* encoder its publishers share (AvroEncoder) and the stack traces their   *)
(* goroutines capture (StackTrace).  They have no state in common, so one  *)
(* of them runs in each behaviour.                                         *)
(***************************************************************************)
EXTENDS GrpcApp, Integers

CONSTANTS BatchSize, Served, Interceptors,
    Lengths, Odd,                         \* the texts of a request made alone, its odd fields
    CrowdMethods, CrowdLengths, CrowdOdd, \* what requests made together call, and the same
    Span, EventLengths, Times, SchemaIds, \* longs, the texts and times of events, their schema
    Stacks, Full, Depths, Skips           \* storages of stack traces, how deep, what is left out

VARIABLES
    part,
    phase, step, built, refusing, closed, why, ctxDone, handler, served, worker, left,
    rpcPhase, via, method, fields, code, stored, registry, collector, count,
    free, size, cells, pc, call, stack, pcs, out,
    encoderPc, given, id, result, mu, schemaID, registered, posts, produced

service == <<phase, step, built, refusing, closed, why, ctxDone, handler, served, worker, left>>
rpc == <<rpcPhase, via, method, fields, code, stored, registry, collector, count>>
trace == <<free, size, cells, pc, call, stack, pcs, out>>
encoder == <<encoderPc, given, id, result, mu, schemaID, registered, posts, produced>>

\* The observability servers of each service.
Observed(s) == IF s = "auth" THEN {"metrics", "profiler"} ELSE {}

Services == {"auth", "outbox", "vk"}
Life(s) == INSTANCE ServiceLifecycle WITH
    Service <- s, Optional <- Observed(s), Handlers <- Requests, Requests <- Served

OneRequest == {CHOOSE r \in Requests : TRUE}
OneInterceptor == {CHOOSE i \in Interceptors : TRUE}

\* "rpc": one call of any method, with many lengths of texts; "rpcs": a crowd of
\* calls that share the metrics of all interceptors.
RpcCalls(p) == IF p = "rpc" THEN OneRequest ELSE Requests
RpcInterceptors(p) == IF p = "rpc" THEN OneInterceptor ELSE Interceptors
RpcMethods(p) ==
    IF p = "rpc" THEN {"Register", "Login", "GetYandexAuthURL", "CompleteYandexLogin"}
    ELSE CrowdMethods
RpcLengths(p) == IF p = "rpc" THEN Lengths ELSE CrowdLengths
RpcOdd(p) == IF p = "rpc" THEN Odd ELSE CrowdOdd

Rpcs == {"rpc", "rpcs"}
Rpc(p) == INSTANCE AuthRpc WITH
    Calls <- RpcCalls(p), Interceptors <- RpcInterceptors(p), Methods <- RpcMethods(p),
    Lengths <- RpcLengths(p), MaxOdd <- RpcOdd(p), phase <- rpcPhase

\* "bytes": one goroutine encodes events of many lengths, with times before and
\* after 1970. "shared": goroutines that share an encoder publish one event.
EncoderWorkers(p) == IF p = "bytes" THEN OneRequest ELSE Requests
EncoderEvents(p) ==
    IF p = "bytes"
    THEN [userId : EventLengths, provider : {8}, occurredAt : Times \cup {-1 - t : t \in Times}]
    ELSE {[userId |-> 36, provider |-> 8, occurredAt |-> 64]}

Encoders == {"bytes", "shared"}
Encoder(p) == INSTANCE AvroEncoder WITH
    Workers <- EncoderWorkers(p), Events <- EncoderEvents(p), Ids <- SchemaIds, pc <- encoderPc

Trace == INSTANCE StackTrace WITH Goroutines <- Requests

ASSUME ServiceAssumption == \A s \in Services : Life(s)!ServiceLifecycleAssumption
ASSUME RpcAssumption == \A p \in Rpcs : Rpc(p)!AuthRpcAssumption
ASSUME TraceAssumption == Trace!StackTraceAssumption
ASSUME EncoderAssumption == \A p \in Encoders : Encoder(p)!AvroEncoderAssumption

Parts == Services \cup Rpcs \cup Encoders \cup {"app", "trace"}

ProcessInit ==
    /\ part \in Parts
    /\ Init /\ (\A s \in Services : Life(s)!Init) /\ Trace!Init
    /\ IF part = "rpc" THEN Rpc("rpc")!Init ELSE Rpc("rpcs")!Init
    /\ IF part = "bytes" THEN Encoder("bytes")!Init ELSE Encoder("shared")!Init

ServiceNext == \E s \in Services : part = s /\ Life(s)!Next
RpcNext == \E p \in Rpcs : part = p /\ Rpc(p)!Next

EncoderNext == \E p \in Encoders : part = p /\ Encoder(p)!Next

ProcessNext ==
    /\ \/ part = "app" /\ Next /\ UNCHANGED <<service, rpc, encoder, trace>>
       \/ ServiceNext /\ UNCHANGED <<vars, rpc, encoder, trace>>
       \/ RpcNext /\ UNCHANGED <<vars, service, encoder, trace>>
       \/ EncoderNext /\ UNCHANGED <<vars, service, rpc, trace>>
       \/ part = "trace" /\ Trace!Next /\ UNCHANGED <<vars, service, rpc, encoder>>
    /\ UNCHANGED part

\* Fairness as in the specifications of GrpcApp and ServiceLifecycle.
AppFairness ==
    /\ WF_vars(part = "app" /\ Serve) /\ WF_vars(part = "app" /\ ServeEnds)
    /\ WF_vars(part = "app" /\ ProxyServes) /\ WF_vars(part = "app" /\ ProxyEnds)
    /\ \A s \in Server :
         /\ WF_vars(part = "app" /\ ForwarderReceives(s))
         /\ WF_vars(part = "app" /\ ForwarderSends(s))
    /\ WF_vars(part = "app" /\ ProxyCloser) /\ WF_vars(part = "app" /\ AppCloser)
    /\ WF_vars(part = "app" /\ ConnCloses)
    /\ WF_vars(part = "app" /\ Owner)
    /\ \A r \in Requests : WF_vars(part = "app" /\ (GatewayCalls(r) \/ HandlerReturns(r)))

ServiceFairness ==
    \A s \in Services :
         /\ WF_service(part = s /\ Life(s)!Main)
         /\ WF_service(part = s /\ Life(s)!Worker)
         /\ \A h \in Requests : WF_service(part = s /\ Life(s)!HandlerSteps(h))

ProcessSpec ==
    /\ ProcessInit
    /\ [][ProcessNext]_<<vars, part, service, rpc, encoder, trace>>
    /\ AppFairness /\ ServiceFairness

-----------------------------------------------------------------------------
\* Each property begins with the type invariant of its module.

\* GrpcApp: the goroutines of Start and Close never misuse a channel they share,
\* Notify closes only when the app does, Close returns when no handler runs, and
\* a request the gateway has accepted fails only when the context of Start is done,
\* the gateway ran into its timeout or a server failed.
AppIsOrderly ==
    /\ TypeOK
    /\ NoChannelMisuse
    /\ NotifyIsOpenWhileRunning
    /\ ClosedMeansIdle
    /\ AcceptedIsServed

\* ServiceLifecycle: requests and messages end before their pool closes, New that
\* fails and Run that has served close all that setup built, and the worker's
\* publication after Close, which panics, takes no request with it.
ServicesCloseInOrder ==
    \A s \in Services : part = s =>
         /\ Life(s)!TypeOK
         /\ Life(s)!HandlersKeepTheirPool
         /\ Life(s)!NothingIsLeftOpen
         /\ s \in {"auth", "outbox"} => Life(s)!PanicHurtsNobody

\* AuthRpc: the generated rules and validateRegisterInput together let no empty
\* or oversized text into the account table, mapAppError's code tells whether the
\* account may exist, InvalidArgument means that a rule was broken, and
\* interceptors that share a registry count every call once.
CallsAreAnswered == \A p \in Rpcs : part = p => Rpc(p)!Answered

\* AvroEncoder: a consumer reads what was encoded, at every boundary of a varint,
\* and publishers that start together ask for the schema id once.
RecordsAreReadable ==
    \A p \in Encoders : part = p =>
         /\ Encoder(p)!TypeOK
         /\ Encoder(p)!RecordsReadBack
         /\ Encoder(p)!OneIdRequest

\* StackTrace: frames are read from the goroutine's own capture, and Capture grows
\* the storage until the whole trace is in it.
TracesAreOwn ==
    /\ Trace!TypeOK
    /\ Trace!ReadsOwnFrames
    /\ Trace!FullTraceIsComplete

\* Close of the gRPC app closes Notify also when nobody reads the errors, an error
\* of Serve is not lost before that, and Close of each service comes to its end.
ShutdownIsNoticed == CloseEndsNotify /\ ErrorIsReported /\ Life("auth")!ShutdownEnds
==============================================================================
