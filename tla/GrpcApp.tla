------------------------------ MODULE GrpcApp -------------------------------
(***************************************************************************)
(* The gRPC server with its optional HTTP gateway (pkg/adapters/           *)
(* server_grpc): App.Start and App.Close of one owner, the goroutines that *)
(* serve, the goroutines that forward errors, and the error channels they  *)
(* share.  A send on a closed channel or a second close panics; misuse     *)
(* remembers it.                                                           *)
(*                                                                         *)
(* Requests come over gRPC or over HTTP; the gateway turns the latter into *)
(* a call of the gRPC server, over a client connection of its own.  That   *)
(* connection is closed as soon as the context given to Start is done,     *)
(* whether App.Close has begun or not; for the auth service it is the      *)
(* context of the signal that asks it to stop.                             *)
(***************************************************************************)
EXTENDS Naturals, Sequences, FiniteSets

CONSTANTS
    Requests,     \* requests that may arrive
    ProxyEnabled  \* cfg.Proxy.Enabled

ASSUME ProxyAssumption == ProxyEnabled \in BOOLEAN

VARIABLES
    owner,     \* where Start or Close is, or what they returned
    received,  \* the owner's receive from Notify: none, error, closed
    server,    \* the gRPC server: new, listening, serving, ended
    stopping,  \* GracefulStop has been called
    proxy,     \* the gateway: new, starting, serving, shutdown, ended
    chan,      \* channel -> [items, closed]
    forwarder, \* goroutine of Start for each server: none, receiving, sending, done
    closer,    \* goroutine of a Close: none, waiting, done
    request,   \* request -> none, rpc, http (at the gateway), httprpc, done
    ctxEnded,  \* the context given to Start is done
    conn,      \* the gateway's client connection: none, open, closed
    serveError, \* history: Serve or ListenAndServe failed
    timedOut,  \* history: Shutdown gave up after 10 seconds
    refused,   \* history: requests of the gateway that the gRPC server refused
    cut,       \* history: requests of the gateway whose connection was closed
    misuse     \* history: a closed channel was used

servers == <<server, stopping, proxy>>
routines == <<forwarder, closer>>
traffic == <<request, ctxEnded, conn, refused, cut>>
history == <<serveError, timedOut, misuse>>
vars == <<owner, received, servers, chan, routines, traffic, history>>

Channel == {"app", "grpc", "proxy"}
Server == {"grpc", "proxy"}

\* make(chan error, 2) of App.
\* Mutant: make(chan error).
ErrChCapacity_Unbuffered == 0
ErrChCapacity == 2

CloseChan(c) ==
    /\ chan' = [chan EXCEPT ![c].closed = TRUE]
    /\ misuse' = (misuse \/ chan[c].closed)
\* closeOnce.Do(close)
CloseOnce(c) ==
    /\ chan' = [chan EXCEPT ![c].closed = TRUE]
    /\ UNCHANGED misuse

\* A server's goroutine sends what made it end, unless it was stopped, and closes.
SendAndClose(c, items, once) ==
    /\ chan' = [chan EXCEPT ![c].items = @ \o items, ![c].closed = TRUE]
    /\ misuse' = (misuse \/ (chan[c].closed /\ (items # <<>> \/ ~once)))

-----------------------------------------------------------------------------
Init ==
    /\ owner = "new"
    /\ received = "none"
    /\ server = "new"
    /\ stopping = FALSE
    /\ proxy = "new"
    /\ chan = [c \in Channel |-> [items |-> <<>>, closed |-> FALSE]]
    /\ forwarder = [s \in Server |-> "none"]
    /\ closer = [c \in {"app", "proxy"} |-> "none"]
    /\ request = [r \in Requests |-> "none"]
    /\ serveError = FALSE
    /\ timedOut = FALSE
    /\ ctxEnded = FALSE
    /\ conn = "none"
    /\ refused = {}
    /\ cut = {}
    /\ misuse = FALSE

\* App.Start: the gRPC server first.  Without a listener its channel is closed.
StartGrpc ==
    /\ owner = "new"
    /\ server' = "listening"
    /\ forwarder' = [forwarder EXCEPT !["grpc"] = "receiving"]
    /\ owner' = IF ProxyEnabled THEN "start_proxy" ELSE "started"
    /\ UNCHANGED <<received, stopping, proxy, chan, closer, traffic, history>>

StartGrpcFails ==
    /\ owner = "new"
    /\ CloseChan("grpc")
    /\ owner' = "start_failed"
    /\ UNCHANGED <<received, servers, routines, traffic, serveError, timedOut>>

\* The gateway registers its service, which dials the gRPC server, and listens.
StartProxy ==
    /\ owner = "start_proxy"
    /\ proxy' = "starting"
    /\ conn' = "open"
    /\ forwarder' = [forwarder EXCEPT !["proxy"] = "receiving"]
    /\ owner' = "started"
    /\ UNCHANGED <<received, server, stopping, chan, closer, request, ctxEnded, refused, cut, history>>

\* No endpoint, no service, a service that cannot be registered: the gRPC
\* server is closed again.
StartProxyFails ==
    /\ owner = "start_proxy"
    /\ stopping' = TRUE
    /\ owner' = "undo_start"
    /\ UNCHANGED <<received, server, proxy, chan, routines, traffic, history>>

\* Serve: it begins, is told to stop, or fails.
Serve ==
    /\ server = "listening"
    /\ ~stopping
    /\ server' = "serving"
    /\ UNCHANGED <<owner, received, stopping, proxy, chan, routines, traffic, history>>

ServeEnds ==
    /\ server \in {"listening", "serving"}
    /\ stopping
    /\ server' = "ended"
    /\ SendAndClose("grpc", <<>>, FALSE)
    /\ UNCHANGED <<owner, received, stopping, proxy, routines, traffic, serveError, timedOut>>

ServeFails ==
    /\ server = "serving"
    /\ ~stopping
    /\ server' = "ended"
    /\ SendAndClose("grpc", <<"error">>, FALSE)
    /\ serveError' = TRUE
    /\ UNCHANGED <<owner, received, stopping, proxy, routines, traffic, timedOut>>

\* ListenAndServe of the gateway.
ProxyServes ==
    /\ proxy = "starting"
    /\ proxy' = "serving"
    /\ UNCHANGED <<owner, received, server, stopping, chan, routines, traffic, history>>

ProxyFails ==
    /\ proxy \in {"starting", "serving"}
    /\ proxy' = "ended"
    /\ SendAndClose("proxy", <<"error">>, TRUE)
    /\ serveError' = TRUE
    /\ UNCHANGED <<owner, received, server, stopping, routines, traffic, timedOut>>

ProxyEnds ==
    /\ proxy = "shutdown"
    /\ proxy' = "ended"
    /\ SendAndClose("proxy", <<>>, TRUE)
    /\ UNCHANGED <<owner, received, server, stopping, routines, traffic, serveError, timedOut>>

\* The goroutines of Start: one receive, and an error goes to errCh.
ForwarderReceives(s) ==
    /\ forwarder[s] = "receiving"
    /\ chan[s].items # <<>> \/ chan[s].closed
    /\ IF chan[s].items # <<>>
       THEN /\ chan' = [chan EXCEPT ![s].items = Tail(@)]
            /\ forwarder' = [forwarder EXCEPT ![s] = "sending"]
       ELSE /\ forwarder' = [forwarder EXCEPT ![s] = "done"]
            /\ UNCHANGED chan
    /\ UNCHANGED <<owner, received, servers, closer, traffic, history>>

ForwarderSends(s) ==
    /\ forwarder[s] = "sending"
    /\ Len(chan["app"].items) < ErrChCapacity \/ chan["app"].closed
    /\ chan' = [chan EXCEPT !["app"].items = Append(@, "error")]
    /\ misuse' = (misuse \/ chan["app"].closed)
    /\ forwarder' = [forwarder EXCEPT ![s] = "done"]
    /\ UNCHANGED <<owner, received, servers, closer, traffic, serveError, timedOut>>

\* The owner waits on Notify while the app runs.
OwnerReceives ==
    /\ owner = "started"
    /\ received = "none"
    /\ chan["app"].items # <<>> \/ chan["app"].closed
    /\ IF chan["app"].items # <<>>
       THEN /\ received' = "error"
            /\ chan' = [chan EXCEPT !["app"].items = Tail(@)]
       ELSE received' = "closed" /\ UNCHANGED chan
    /\ UNCHANGED <<owner, servers, routines, traffic, history>>

-----------------------------------------------------------------------------
\* App.Close: the gateway, then the gRPC server, then the goroutine that closes
\* errCh.  It is called after Start, whatever that returned, and once more.
CloseProxy ==
    /\ owner \in {"started", "start_failed", "closed"}
    /\ CASE ~ProxyEnabled \/ closer["proxy"] # "none" ->
              owner' = "close_grpc" /\ UNCHANGED <<proxy, chan, misuse, closer>>
         [] ProxyEnabled /\ closer["proxy"] = "none" /\ proxy = "new" ->
              /\ CloseOnce("proxy")
              /\ closer' = [closer EXCEPT !["proxy"] = "done"]
              /\ owner' = "close_grpc"
              /\ UNCHANGED proxy
         [] OTHER ->
              /\ proxy' = IF proxy = "ended" THEN "ended" ELSE "shutdown"
              /\ owner' = "shutdown"
              /\ UNCHANGED <<chan, misuse, closer>>
    /\ UNCHANGED <<received, server, stopping, forwarder, traffic, serveError, timedOut>>

\* Shutdown returns when the gateway has answered everybody, or after 10 seconds.
ShutdownReturns ==
    /\ owner = "shutdown"
    /\ timedOut' = (timedOut \/ \E r \in Requests : request[r] \in {"http", "httprpc"})
    /\ closer' = [closer EXCEPT !["proxy"] = "waiting"]
    /\ owner' = "close_grpc"
    /\ UNCHANGED <<received, servers, chan, forwarder, traffic, serveError, misuse>>

ProxyCloser ==
    /\ closer["proxy"] = "waiting"
    /\ proxy = "ended"
    /\ CloseOnce("proxy")
    /\ closer' = [closer EXCEPT !["proxy"] = "done"]
    /\ UNCHANGED <<owner, received, servers, forwarder, traffic, serveError, timedOut>>

\* stopOnce and GracefulStop: no new call; the listener is closed.
GracefulStop ==
    /\ owner = "close_grpc"
    /\ stopping' = TRUE
    /\ owner' = "wait_grpc"
    /\ UNCHANGED <<received, server, proxy, chan, routines, traffic, history>>

CallsRunning == {r \in Requests : request[r] \in {"rpc", "httprpc"}}

GracefulStopReturns ==
    /\ owner = "wait_grpc"
    /\ CallsRunning = {}
    /\ owner' = "closed"
    /\ closer' = [closer EXCEPT !["app"] = IF @ = "done" THEN "done" ELSE "waiting"]
    /\ UNCHANGED <<received, servers, chan, forwarder, traffic, history>>

UndoStart ==
    /\ owner = "undo_start"
    /\ CallsRunning = {}
    /\ owner' = "start_failed"
    /\ UNCHANGED <<received, servers, chan, routines, traffic, history>>

\* The goroutine of Close.
\* Mutant: errCh is closed without wg.Wait.
AppCloser_NoWait ==
    /\ closer["app"] = "waiting"
    /\ CloseOnce("app")
    /\ closer' = [closer EXCEPT !["app"] = "done"]
    /\ UNCHANGED <<owner, received, servers, forwarder, traffic, serveError, timedOut>>

AppCloser ==
    /\ closer["app"] = "waiting"
    /\ \A s \in Server : forwarder[s] \in {"none", "done"}
    /\ CloseOnce("app")
    /\ closer' = [closer EXCEPT !["app"] = "done"]
    /\ UNCHANGED <<owner, received, servers, forwarder, traffic, serveError, timedOut>>

-----------------------------------------------------------------------------
\* Requests.
Arrives(r) ==
    /\ request[r] = "none"
    /\ \/ server = "serving" /\ ~stopping /\ request' = [request EXCEPT ![r] = "rpc"]
       \/ proxy = "serving" /\ request' = [request EXCEPT ![r] = "http"]
    /\ UNCHANGED <<owner, received, servers, chan, routines, ctxEnded, conn, refused, cut, history>>

\* The gateway calls the gRPC server, which refuses once it stops; on a closed
\* connection every call fails.
GatewayCalls(r) ==
    /\ request[r] = "http"
    /\ CASE conn = "closed" ->
              /\ request' = [request EXCEPT ![r] = "done"]
              /\ cut' = cut \cup {r}
              /\ UNCHANGED refused
         [] conn # "closed" /\ server \in {"listening", "serving"} /\ ~stopping ->
              /\ request' = [request EXCEPT ![r] = "httprpc"]
              /\ UNCHANGED <<refused, cut>>
         [] OTHER ->
              /\ request' = [request EXCEPT ![r] = "done"]
              /\ refused' = refused \cup {r}
              /\ UNCHANGED cut
    /\ UNCHANGED <<owner, received, servers, chan, routines, ctxEnded, conn, history>>

ContextEnds ==
    /\ ~ctxEnded
    /\ ctxEnded' = TRUE
    /\ UNCHANGED <<owner, received, servers, chan, routines, request, conn, refused, cut, history>>

\* The goroutine of the registration.  Calls that are under way fail at the
\* gateway; their handlers run on.
ConnCloses ==
    /\ ctxEnded
    /\ conn = "open"
    /\ conn' = "closed"
    /\ request' = [r \in Requests |-> IF request[r] = "httprpc" THEN "rpc" ELSE request[r]]
    /\ cut' = cut \cup {r \in Requests : request[r] = "httprpc"}
    /\ UNCHANGED <<owner, received, servers, chan, routines, ctxEnded, refused, history>>

HandlerReturns(r) ==
    /\ request[r] \in {"rpc", "httprpc"}
    /\ request' = [request EXCEPT ![r] = "done"]
    /\ UNCHANGED <<owner, received, servers, chan, routines, ctxEnded, conn, refused, cut, history>>

Goroutines ==
    \/ Serve \/ ServeEnds \/ ProxyServes \/ ProxyEnds
    \/ \E s \in Server : ForwarderReceives(s) \/ ForwarderSends(s)
    \/ ProxyCloser \/ AppCloser \/ ConnCloses

Owner ==
    \/ StartGrpc \/ StartGrpcFails \/ StartProxy \/ StartProxyFails \/ UndoStart
    \/ ShutdownReturns \/ GracefulStop \/ GracefulStopReturns

Next ==
    \/ Goroutines
    \/ Owner
    \/ OwnerReceives
    \/ CloseProxy
    \/ ServeFails \/ ProxyFails \/ ContextEnds
    \/ \E r \in Requests : Arrives(r) \/ GatewayCalls(r) \/ HandlerReturns(r)

Spec == Init /\ [][Next]_vars

\* Goroutines run, handlers return; the owner need not close, nor read errors.
FairSpec ==
    /\ Spec
    /\ WF_vars(Serve) /\ WF_vars(ServeEnds) /\ WF_vars(ProxyServes) /\ WF_vars(ProxyEnds)
    /\ \A s \in Server : WF_vars(ForwarderReceives(s)) /\ WF_vars(ForwarderSends(s))
    /\ WF_vars(ProxyCloser) /\ WF_vars(AppCloser) /\ WF_vars(ConnCloses)
    /\ WF_vars(Owner)
    /\ \A r \in Requests : WF_vars(GatewayCalls(r) \/ HandlerReturns(r))

-----------------------------------------------------------------------------
TypeOK ==
    /\ owner \in {"new", "start_proxy", "undo_start", "started", "start_failed", "shutdown",
                  "close_grpc", "wait_grpc", "closed"}
    /\ received \in {"none", "error", "closed"}
    /\ server \in {"new", "listening", "serving", "ended"}
    /\ stopping \in BOOLEAN
    /\ proxy \in {"new", "starting", "serving", "shutdown", "ended"}
    /\ DOMAIN chan = Channel
    /\ \A c \in Channel :
         /\ chan[c].closed \in BOOLEAN
         /\ chan[c].items \in {<<>>, <<"error">>} \cup (IF c = "app" THEN {<<"error", "error">>} ELSE {})
    /\ forwarder \in [Server -> {"none", "receiving", "sending", "done"}]
    /\ closer \in [{"app", "proxy"} -> {"none", "waiting", "done"}]
    /\ request \in [Requests -> {"none", "rpc", "http", "httprpc", "done"}]
    /\ serveError \in BOOLEAN /\ timedOut \in BOOLEAN /\ misuse \in BOOLEAN
    /\ ctxEnded \in BOOLEAN /\ conn \in {"none", "open", "closed"}
    /\ refused \subseteq Requests /\ cut \subseteq Requests

\* The goroutines of Start, the goroutines that serve and the two that Close
\* starts share three channels; none of them sends on a closed channel or
\* closes one twice, whatever fails and however often Close is called.
NoChannelMisuse == ~misuse

\* authsvc's Run takes a nil from Notify for a clean end and returns without
\* Close.  While the app runs Notify is not closed, so Run cannot leave that way.
NotifyIsOpenWhileRunning ==
    /\ received # "closed"
    /\ chan["app"].closed => owner \notin {"new", "start_proxy", "undo_start", "started"}

\* When Close has returned no handler runs, so what handlers use may be closed.
ClosedMeansIdle == owner = "closed" => CallsRunning = {}

\* What can happen to a request the gateway has accepted.  The gateway is closed
\* first, so a gRPC server that stops turns it away only when the gateway ran into
\* its timeout or a server failed.  Its call is cut off when the context given to
\* Start is done, however: a shutdown by signal fails it at once.
AcceptedIsServed ==
    /\ refused # {} => timedOut \/ serveError
    /\ cut # {} => ctxEnded

\* The strengthening behind them.  A server has not touched its channel until it
\* ends, and Notify is closed when nobody can send to it any more.
Untouched == [items |-> <<>>, closed |-> FALSE]
ChannelInv ==
    /\ chan \in [Channel -> [items : {<<>>, <<"error">>, <<"error", "error">>}, closed : BOOLEAN]]
    /\ owner = "new" \/ server \in {"listening", "serving"} => chan["grpc"] = Untouched
    /\ owner \in {"new", "start_proxy"} \/ proxy \in {"starting", "serving", "shutdown"} =>
           chan["proxy"] = Untouched
    /\ chan["app"].closed =>
           closer["app"] = "done" /\ \A s \in Server : forwarder[s] \in {"none", "done"}

\* How far Start and Close have come.
OwnerInv ==
    /\ owner = "new" => server = "new"
    /\ owner = "start_proxy" => ProxyEnabled /\ server # "new"
    /\ owner \in {"new", "start_proxy"} => proxy = "new" /\ ~stopping
    /\ owner = "shutdown" => proxy \in {"shutdown", "ended"}
    /\ owner \in {"undo_start", "wait_grpc", "closed"} => stopping
    /\ closer["app"] # "none" => owner \in {"shutdown", "close_grpc", "wait_grpc", "closed"}
    /\ closer["proxy"] # "none" => owner \in {"close_grpc", "wait_grpc", "closed"}
    /\ proxy # "new" => ProxyEnabled /\ server # "new"

\* The gateway takes nothing new, and has nobody left unless it gave up waiting.
GatewayIsQuiet ==
    /\ proxy \notin {"starting", "serving"}
    /\ (\E r \in Requests : request[r] = "http") => timedOut \/ serveError

GatewayInv ==
    /\ proxy = "new" => \A r \in Requests : request[r] # "http"
    /\ stopping \/ owner = "close_grpc" \/ closer["proxy"] # "none" => GatewayIsQuiet
    /\ server = "ended" => stopping \/ serveError
    /\ conn = "closed" => ctxEnded

\* Close always comes back and Notify is closed in the end, also when nobody
\* reads the errors.
CloseEndsNotify == owner \in {"shutdown", "close_grpc"} ~> chan["app"].closed

\* An error of Serve or ListenAndServe gets into errCh, or the app is closed.
ErrorIsReported ==
    serveError ~> \/ received = "error"
                  \/ chan["app"].items # <<>>
                  \/ owner = "closed"
=============================================================================
