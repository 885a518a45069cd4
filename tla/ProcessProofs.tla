---------------------------- MODULE ProcessProofs ----------------------------
(***************************************************************************)
(* Theorems about what runs inside one process, the gRPC app (GrpcApp),    *)
(* the life of a service (ServiceLifecycle), the calls of the auth service *)
(* (AuthRpc), stack traces (StackTrace) and the encoder of its events      *)
(* (AvroEncoder), for any number of requests, with proofs that TLAPS       *)
(* checks.                                                                 *)
(***************************************************************************)
EXTENDS MCProcess, FiniteSetTheorems, SequenceTheorems, TLAPS

-----------------------------------------------------------------------------
(* The gRPC app (GrpcApp): its channels.                                   *)

LEMMA SeqIsFunction == ASSUME NEW S, NEW q \in Seq(S) PROVE q \in [1 .. Len(q) -> S]
  OBVIOUS

LEMMA SecondError == Append(<<"error">>, "error") = <<"error", "error">>
  <1> DEFINE q == Append(<<"error">>, "error")
  <1>1. q \in Seq({"error"}) /\ Len(q) = 2
    <2>1. <<"error">> \in Seq({"error"}) /\ Len(<<"error">>) = 1
      OBVIOUS
    <2>2. QED
      BY <2>1
  <1> HIDE DEF q
  <1>2. q \in [1 .. 2 -> {"error"}]
    BY <1>1, SeqIsFunction
  <1>3. <<"error", "error">> \in [1 .. 2 -> {"error"}]
    OBVIOUS
  <1>4. q = <<"error", "error">>
    BY <1>2, <1>3
  <1>5. QED
    BY <1>4 DEF q

Items == {<<>>, <<"error">>, <<"error", "error">>}
Chan == [items : Items, closed : BOOLEAN]

\* Sending to a channel and receiving from it.
LEMMA ItemsShape ==
  /\ \A q \in Items : q # <<>> => Tail(q) \in Items
  /\ \A q \in Items : Len(q) < 2 => Append(q, "error") \in Items
  /\ Tail(<<"error">>) = <<>>
  /\ <<>> \o <<"error">> = <<"error">> /\ <<>> \o <<>> = <<>>
  <1>1. Tail(<<"error">>) = <<>> /\ Tail(<<"error", "error">>) = <<"error">>
    OBVIOUS
  <1>2. Append(<<>>, "error") = <<"error">> /\ Len(<<"error", "error">>) = 2
    OBVIOUS
  <1>3. <<>> \o <<"error">> = <<"error">> /\ <<>> \o <<>> = <<>>
    OBVIOUS
  <1>4. QED
    BY <1>1, <1>2, <1>3, SecondError DEF Items

LEMMA ChanShape ==
  ASSUME NEW x \in Chan
  PROVE  /\ x = [items |-> x.items, closed |-> x.closed]
         /\ x.items \in Items /\ x.closed \in BOOLEAN
  BY DEF Chan

\* One channel is closed, without or with a last item.
LEMMA Closes ==
  ASSUME chan \in [Channel -> Chan], NEW c \in Channel,
         chan' = [chan EXCEPT ![c].closed = TRUE]
  PROVE  /\ chan' \in [Channel -> Chan]
         /\ chan'[c] = [items |-> chan[c].items, closed |-> TRUE]
         /\ \A d \in Channel \ {c} : chan'[d] = chan[d]
  BY DEF Chan

LEMMA SendsAndCloses ==
  ASSUME chan \in [Channel -> Chan], NEW c \in Channel, chan[c].items = <<>>,
         NEW items \in {<<>>, <<"error">>}, NEW once, SendAndClose(c, items, once)
  PROVE  /\ chan' \in [Channel -> Chan]
         /\ chan'[c] = [items |-> items, closed |-> TRUE]
         /\ \A d \in Channel \ {c} : chan'[d] = chan[d]
  <1>1. chan[c].items \o items = items /\ items \in Items
    BY DEF Items
  <1>2. chan' = [chan EXCEPT ![c].items = items, ![c].closed = TRUE]
    BY <1>1 DEF SendAndClose
  <1>3. QED
    BY <1>1, <1>2 DEF Chan

LEMMA Changes ==
  ASSUME chan \in [Channel -> Chan], NEW c \in Channel, NEW q \in Items,
         chan' = [chan EXCEPT ![c].items = q]
  PROVE  /\ chan' \in [Channel -> Chan]
         /\ chan'[c] = [items |-> q, closed |-> chan[c].closed]
         /\ chan'[c].closed = chan[c].closed
         /\ \A d \in Channel \ {c} : chan'[d] = chan[d]
  BY DEF Chan
ChanInv ==
  /\ ~misuse /\ ChannelInv
  /\ \A s \in Server : chan[s].items \in {<<>>, <<"error">>}

LEMMA ChanInvShape ==
  ASSUME ChanInv
  PROVE  /\ chan \in [Channel -> Chan]
         /\ \A s \in Server : chan[s].items \in {<<>>, <<"error">>}
         /\ "app" \in Channel /\ "grpc" \in Channel /\ "proxy" \in Channel
         /\ Server = {"grpc", "proxy"} /\ ~misuse
  BY DEF ChanInv, ChannelInv, Chan, Items, Channel, Server

\* Steps that leave the channels alone.
LEMMA QuietSteps ==
  ASSUME TypeOK, ChanInv, OwnerInv,
         \/ StartGrpc \/ StartProxy \/ StartProxyFails \/ UndoStart \/ ShutdownReturns
         \/ GracefulStop \/ GracefulStopReturns \/ Serve \/ ProxyServes
         \/ ContextEnds \/ ConnCloses
         \/ \E r \in Requests : Arrives(r) \/ GatewayCalls(r) \/ HandlerReturns(r)
  PROVE  ChanInv'
  <1>1. CASE StartGrpc
    BY <1>1 DEF StartGrpc, TypeOK, ChanInv, ChannelInv, OwnerInv, history, Server
  <1>2. CASE StartProxy
    BY <1>2 DEF StartProxy, TypeOK, ChanInv, ChannelInv, OwnerInv, history, Server
  <1>3. CASE StartProxyFails \/ UndoStart \/ GracefulStop
    BY <1>3 DEF StartProxyFails, UndoStart, GracefulStop, ChanInv, ChannelInv, history,
       servers, routines
  <1>4. CASE ShutdownReturns
    BY <1>4 DEF ShutdownReturns, TypeOK, ChanInv, ChannelInv, history, servers
  <1>5. CASE GracefulStopReturns
    BY <1>5 DEF GracefulStopReturns, TypeOK, ChanInv, ChannelInv, history, servers
  <1>6. CASE Serve \/ ProxyServes
    BY <1>6 DEF Serve, ProxyServes, ChanInv, ChannelInv, history, routines
  <1>7. CASE \E r \in Requests : Arrives(r) \/ GatewayCalls(r) \/ HandlerReturns(r)
    BY <1>7 DEF Arrives, GatewayCalls, HandlerReturns, ChanInv, ChannelInv, history,
       servers, routines
  <1>8. CASE ContextEnds \/ ConnCloses
    BY <1>8 DEF ContextEnds, ConnCloses, ChanInv, ChannelInv, history, servers, routines
  <1>9. QED
    BY <1>1, <1>2, <1>3, <1>4, <1>5, <1>6, <1>7, <1>8

\* A server that ends sends and closes once.
LEMMA ServerSteps ==
  ASSUME TypeOK, ChanInv, OwnerInv, ServeEnds \/ ServeFails \/ ProxyEnds \/ ProxyFails
  PROVE  ChanInv'
  <1>0. /\ chan \in [Channel -> Chan]
        /\ \A s \in Server : chan[s].items \in {<<>>, <<"error">>}
        /\ "app" \in Channel /\ "grpc" \in Channel /\ "proxy" \in Channel
        /\ Server = {"grpc", "proxy"} /\ ~misuse
    BY ChanInvShape
  <1>1. CASE ServeEnds \/ ServeFails
    <2>1. PICK items \in {<<>>, <<"error">>} : SendAndClose("grpc", items, FALSE)
      BY <1>1 DEF ServeEnds, ServeFails
    <2>2. /\ chan["grpc"] = Untouched /\ server' = "ended" /\ owner # "new"
          /\ UNCHANGED <<owner, proxy, closer, forwarder>>
      BY <1>1 DEF ServeEnds, ServeFails, ChanInv, ChannelInv, OwnerInv, routines
    <2>3. chan["grpc"].items = <<>> /\ chan["grpc"].closed = FALSE
      BY <2>2 DEF Untouched
    <2>4. /\ chan' \in [Channel -> Chan] /\ chan'["grpc"] = [items |-> items, closed |-> TRUE]
          /\ \A d \in Channel \ {"grpc"} : chan'[d] = chan[d]
      BY <1>0, <2>1, <2>3, SendsAndCloses
    <2>5. ~misuse'
      BY <1>0, <2>1, <2>3 DEF SendAndClose
    <2>6. QED
      BY <1>0, <2>2, <2>4, <2>5 DEF ChanInv, ChannelInv, Chan, Items
  <1>2. CASE ProxyEnds \/ ProxyFails
    <2>1. PICK items \in {<<>>, <<"error">>} : SendAndClose("proxy", items, TRUE)
      BY <1>2 DEF ProxyEnds, ProxyFails
    <2>2. /\ chan["proxy"] = Untouched /\ proxy' = "ended" /\ owner \notin {"new", "start_proxy"}
          /\ UNCHANGED <<owner, server, closer, forwarder>>
      BY <1>2 DEF ProxyEnds, ProxyFails, ChanInv, ChannelInv, OwnerInv, routines
    <2>3. chan["proxy"].items = <<>> /\ chan["proxy"].closed = FALSE
      BY <2>2 DEF Untouched
    <2>4. /\ chan' \in [Channel -> Chan] /\ chan'["proxy"] = [items |-> items, closed |-> TRUE]
          /\ \A d \in Channel \ {"proxy"} : chan'[d] = chan[d]
      BY <1>0, <2>1, <2>3, SendsAndCloses
    <2>5. ~misuse'
      BY <1>0, <2>1, <2>3 DEF SendAndClose
    <2>6. QED
      BY <1>0, <2>2, <2>4, <2>5 DEF ChanInv, ChannelInv, Chan, Items
  <1>3. QED
    BY <1>1, <1>2
\* Steps that close a channel, or find that nothing is left to be closed.
LEMMA ClosingSteps ==
  ASSUME TypeOK, ChanInv, OwnerInv, StartGrpcFails \/ CloseProxy \/ ProxyCloser \/ AppCloser
  PROVE  ChanInv'
  <1>0. /\ chan \in [Channel -> Chan]
        /\ \A s \in Server : chan[s].items \in {<<>>, <<"error">>}
        /\ "app" \in Channel /\ "grpc" \in Channel /\ "proxy" \in Channel
        /\ Server = {"grpc", "proxy"} /\ ~misuse
    BY ChanInvShape
  <1>1. CASE StartGrpcFails
    <2>1. /\ chan' = [chan EXCEPT !["grpc"].closed = TRUE]
          /\ chan["grpc"].closed = FALSE /\ misuse' = (misuse \/ chan["grpc"].closed)
          /\ server = "new" /\ proxy = "new" /\ owner' = "start_failed"
          /\ UNCHANGED <<server, proxy, closer, forwarder>>
      BY <1>1 DEF StartGrpcFails, CloseChan, ChanInv, ChannelInv, OwnerInv, Untouched,
         servers, routines
    <2>2. /\ chan' \in [Channel -> Chan]
          /\ chan'["grpc"] = [items |-> chan["grpc"].items, closed |-> TRUE]
          /\ \A d \in Channel \ {"grpc"} : chan'[d] = chan[d]
      BY <1>0, <2>1, Closes
    <2>3. QED
      BY <1>0, <2>1, <2>2 DEF ChanInv, ChannelInv, Chan, Items
  <1>2. ASSUME proxy \in {"new", "ended"}, CloseOnce("proxy"),
               closer' = [closer EXCEPT !["proxy"] = "done"],
               UNCHANGED <<server, proxy, forwarder>>,
               owner \notin {"new", "start_proxy"}, owner' \notin {"new", "start_proxy"}
        PROVE  ChanInv'
    <2>1. chan' = [chan EXCEPT !["proxy"].closed = TRUE] /\ misuse' = misuse
      BY <1>2 DEF CloseOnce
    <2>2. /\ chan' \in [Channel -> Chan]
          /\ chan'["proxy"] = [items |-> chan["proxy"].items, closed |-> TRUE]
          /\ \A d \in Channel \ {"proxy"} : chan'[d] = chan[d]
      BY <1>0, <2>1, Closes
    <2>3. closer'["app"] = closer["app"]
      BY <1>2 DEF TypeOK
    <2>4. QED
      BY <1>0, <1>2, <2>1, <2>2, <2>3 DEF ChanInv, ChannelInv, Chan, Items
  <1>3. CASE CloseProxy
    <2>1. owner \notin {"new", "start_proxy"} /\ owner' \notin {"new", "start_proxy"}
      BY <1>3 DEF CloseProxy
    <2>2. CASE ~ProxyEnabled \/ closer["proxy"] # "none"
      <3>1. UNCHANGED <<server, proxy, chan, misuse, closer, forwarder>>
        BY <1>3, <2>2 DEF CloseProxy
      <3>2. QED
        BY <2>1, <3>1 DEF ChanInv, ChannelInv
    <2>3. CASE ProxyEnabled /\ closer["proxy"] = "none" /\ proxy = "new"
      <3>1. /\ CloseOnce("proxy") /\ closer' = [closer EXCEPT !["proxy"] = "done"]
            /\ UNCHANGED <<server, proxy, forwarder>>
        BY <1>3, <2>3 DEF CloseProxy
      <3>2. QED
        BY <1>2, <2>1, <2>3, <3>1
    <2>4. CASE ProxyEnabled /\ closer["proxy"] = "none" /\ proxy # "new"
      <3>1. /\ proxy' = IF proxy = "ended" THEN "ended" ELSE "shutdown"
            /\ UNCHANGED <<server, chan, misuse, closer, forwarder>>
        BY <1>3, <2>4 DEF CloseProxy
      <3>2. proxy' \in {"starting", "serving", "shutdown"} =>
              proxy \in {"starting", "serving", "shutdown"}
        BY <2>4, <3>1 DEF TypeOK
      <3>3. QED
        BY <2>1, <3>1, <3>2 DEF ChanInv, ChannelInv
    <2>5. QED
      BY <2>2, <2>3, <2>4, ProxyAssumption
  <1>4. CASE ProxyCloser
    BY <1>2, <1>4 DEF ProxyCloser, OwnerInv, servers
  <1>5. CASE AppCloser
    <2>1. /\ chan' = [chan EXCEPT !["app"].closed = TRUE] /\ misuse' = misuse
          /\ closer'["app"] = "done" /\ \A s \in Server : forwarder[s] \in {"none", "done"}
          /\ UNCHANGED <<owner, server, proxy, forwarder>>
      BY <1>5 DEF AppCloser, CloseOnce, TypeOK, servers
    <2>2. /\ chan' \in [Channel -> Chan]
          /\ \A d \in Channel \ {"app"} : chan'[d] = chan[d]
      BY <1>0, <2>1, Closes
    <2>3. QED
      BY <1>0, <2>1, <2>2 DEF ChanInv, ChannelInv, Chan, Items
  <1>6. QED
    BY <1>1, <1>3, <1>4, <1>5

\* The goroutines of Start, and the owner at Notify.
LEMMA ErrorSteps ==
  ASSUME TypeOK, ChanInv, OwnerInv,
         OwnerReceives \/ \E s \in Server : ForwarderReceives(s) \/ ForwarderSends(s)
  PROVE  ChanInv'
  <1>0. /\ chan \in [Channel -> Chan]
        /\ \A s \in Server : chan[s].items \in {<<>>, <<"error">>}
        /\ "app" \in Channel /\ "grpc" \in Channel /\ "proxy" \in Channel
        /\ Server = {"grpc", "proxy"} /\ ~misuse
    BY ChanInvShape
  <1>1. ASSUME NEW s \in Server, ForwarderReceives(s) PROVE ChanInv'
    <2>1. /\ forwarder[s] = "receiving" /\ UNCHANGED <<owner, server, proxy, closer, misuse>>
          /\ \A r \in Server \ {s} : forwarder'[r] = forwarder[r]
      BY <1>1 DEF ForwarderReceives, servers, history, TypeOK
    <2>2. ~chan["app"].closed
      BY <2>1 DEF ChanInv, ChannelInv
    <2>3. CASE chan[s].items = <<>>
      <3>1. chan' = chan
        BY <1>1, <2>3 DEF ForwarderReceives
      <3>2. QED
        BY <2>1, <2>2, <3>1 DEF ChanInv, ChannelInv
    <2>4. CASE chan[s].items # <<>>
      <3>1. chan[s] # Untouched
        BY <2>4 DEF Untouched
      <3>2. chan[s].items = <<"error">>
        BY <1>0, <2>4
      <3>3. chan' = [chan EXCEPT ![s].items = <<>>]
        BY <1>1, <2>4, <3>2, ItemsShape DEF ForwarderReceives
      <3>4. <<>> \in Items /\ s \in Channel /\ s # "app"
        BY <1>0 DEF Items
      <3>5. /\ chan' \in [Channel -> Chan]
            /\ chan'[s] = [items |-> <<>>, closed |-> chan[s].closed]
            /\ \A d \in Channel \ {s} : chan'[d] = chan[d]
        BY <1>0, <3>3, <3>4, Changes
      <3>6. QED
        BY <1>0, <2>1, <2>2, <3>1, <3>4, <3>5 DEF ChanInv, ChannelInv, Chan, Items
    <2>5. QED
      BY <2>3, <2>4
  <1>2. ASSUME NEW s \in Server, ForwarderSends(s) PROVE ChanInv'
    <2>1. /\ forwarder[s] = "sending" /\ UNCHANGED <<owner, server, proxy, closer>>
          /\ Len(chan["app"].items) < ErrChCapacity \/ chan["app"].closed
          /\ chan' = [chan EXCEPT !["app"].items = Append(chan["app"].items, "error")]
          /\ misuse' = (misuse \/ chan["app"].closed)
      BY <1>2 DEF ForwarderSends, servers
    <2>2. ~chan["app"].closed
      BY <2>1 DEF ChanInv, ChannelInv
    <2>3. chan["app"].items \in Items /\ Len(chan["app"].items) < 2
      BY <1>0, <2>1, <2>2, ChanShape DEF ErrChCapacity
    <2>4. Append(chan["app"].items, "error") \in Items
      BY <2>3, ItemsShape
    <2>5. /\ chan' \in [Channel -> Chan]
          /\ chan'["app"].closed = chan["app"].closed
          /\ \A d \in Channel \ {"app"} : chan'[d] = chan[d]
      BY <1>0, <2>1, <2>4, Changes
    <2>6. QED
      BY <1>0, <2>1, <2>2, <2>5 DEF ChanInv, ChannelInv, Chan, Items
  <1>3. CASE OwnerReceives
    <2>1. UNCHANGED <<owner, server, proxy, closer, forwarder, misuse>>
      BY <1>3 DEF OwnerReceives, servers, routines, history
    <2>2. CASE chan["app"].items = <<>>
      BY <1>3, <2>1, <2>2 DEF OwnerReceives, ChanInv, ChannelInv
    <2>3. CASE chan["app"].items # <<>>
      <3>1. chan' = [chan EXCEPT !["app"].items = Tail(chan["app"].items)]
        BY <1>3, <2>3 DEF OwnerReceives
      <3>2. Tail(chan["app"].items) \in Items
        BY <1>0, <2>3, ChanShape, ItemsShape
      <3>3. /\ chan' \in [Channel -> Chan]
            /\ chan'["app"].closed = chan["app"].closed
            /\ \A d \in Channel \ {"app"} : chan'[d] = chan[d]
        BY <1>0, <3>1, <3>2, Changes
      <3>4. QED
        BY <1>0, <2>1, <3>3 DEF ChanInv, ChannelInv, Chan, Items
    <2>4. QED
      BY <2>2, <2>3
  <1>4. QED
    BY <1>1, <1>2, <1>3
LEMMA NextKeepsChanInv ==
  ASSUME TypeOK, ChanInv, OwnerInv, Next
  PROVE  ChanInv'
  BY QuietSteps, ServerSteps, ClosingSteps, ErrorSteps DEF Next, Goroutines, Owner

-----------------------------------------------------------------------------
(* Start and Close, and the gateway.                                       *)

LEMMA NextKeepsTypes ==
  ASSUME TypeOK, ChanInv', Next
  PROVE  TypeOK'
  <1>1. /\ DOMAIN chan' = Channel
        /\ \A c \in Channel :
             /\ chan'[c].closed \in BOOLEAN
             /\ chan'[c].items \in
                  {<<>>, <<"error">>} \cup (IF c = "app" THEN {<<"error", "error">>} ELSE {})
    BY DEF ChanInv, ChannelInv, Channel, Server
  <1>2. timedOut' \in BOOLEAN /\ misuse' \in BOOLEAN
    BY Zenon DEF TypeOK, Next, Goroutines, Owner, Serve, ServeEnds, ProxyServes, ProxyEnds,
           ForwarderReceives, ForwarderSends, ProxyCloser, AppCloser, StartGrpc, StartGrpcFails,
           StartProxy, StartProxyFails, UndoStart, ShutdownReturns, GracefulStop,
           GracefulStopReturns, OwnerReceives, CloseProxy, ServeFails, ProxyFails, Arrives,
           GatewayCalls, HandlerReturns, ContextEnds, ConnCloses, CloseChan, CloseOnce,
           SendAndClose, history
  <1>3. CASE Serve
    BY <1>3, <1>1, <1>2 DEF Serve, TypeOK, servers, routines, traffic, history
  <1>4. CASE ServeEnds
    BY <1>4, <1>1, <1>2 DEF ServeEnds, TypeOK, servers, routines, traffic, history
  <1>5. CASE ProxyServes
    BY <1>5, <1>1, <1>2 DEF ProxyServes, TypeOK, servers, routines, traffic, history
  <1>6. CASE ProxyEnds
    BY <1>6, <1>1, <1>2 DEF ProxyEnds, TypeOK, servers, routines, traffic, history
  <1>7. CASE \E s \in Server : ForwarderReceives(s) \/ ForwarderSends(s)
    BY <1>7, <1>1, <1>2 DEF ForwarderReceives, ForwarderSends, TypeOK, servers, routines,
       traffic, history
  <1>8. CASE ProxyCloser
    BY <1>8, <1>1, <1>2 DEF ProxyCloser, TypeOK, servers, routines, traffic, history
  <1>9. CASE AppCloser
    BY <1>9, <1>1, <1>2 DEF AppCloser, TypeOK, servers, routines, traffic, history
  <1>10. CASE StartGrpc
    BY <1>10, <1>1, <1>2 DEF StartGrpc, TypeOK, servers, routines, traffic, history
  <1>11. CASE StartGrpcFails
    BY <1>11, <1>1, <1>2 DEF StartGrpcFails, TypeOK, servers, routines, traffic, history
  <1>12. CASE StartProxy
    BY <1>12, <1>1, <1>2 DEF StartProxy, TypeOK, servers, routines, traffic, history
  <1>13. CASE StartProxyFails \/ UndoStart
    <2>1. CASE StartProxyFails
      BY <2>1, <1>1, <1>2 DEF StartProxyFails, TypeOK, routines, traffic, history
    <2>2. CASE UndoStart
      BY <2>2, <1>1, <1>2 DEF UndoStart, TypeOK, servers, routines, traffic, history
    <2>3. QED
      BY <1>13, <2>1, <2>2
  <1>14. CASE ShutdownReturns
    BY <1>14, <1>1, <1>2 DEF ShutdownReturns, TypeOK, servers, routines, traffic, history
  <1>15. CASE GracefulStop
    BY <1>15, <1>1, <1>2 DEF GracefulStop, TypeOK, servers, routines, traffic, history
  <1>16. CASE GracefulStopReturns
    BY <1>16, <1>1, <1>2 DEF GracefulStopReturns, TypeOK, servers, routines, traffic, history
  <1>17. CASE OwnerReceives
    BY <1>17, <1>1, <1>2 DEF OwnerReceives, TypeOK, servers, routines, traffic, history
  <1>18. CASE ServeFails
    BY <1>18, <1>1, <1>2 DEF ServeFails, TypeOK, servers, routines, traffic, history
  <1>19. CASE ProxyFails
    BY <1>19, <1>1, <1>2 DEF ProxyFails, TypeOK, servers, routines, traffic, history
  <1>20. CASE CloseProxy
    BY <1>20, <1>1, <1>2 DEF CloseProxy, CloseOnce, TypeOK, servers, routines, traffic, history
  <1>21. CASE \E r \in Requests : Arrives(r) \/ GatewayCalls(r) \/ HandlerReturns(r)
    BY <1>21, <1>1, <1>2 DEF Arrives, GatewayCalls, HandlerReturns, TypeOK, servers,
       routines, traffic, history
  <1>22. CASE ContextEnds \/ ConnCloses
    <2>1. CASE ContextEnds
      BY <2>1, <1>1, <1>2 DEF ContextEnds, TypeOK, servers, routines, history
    <2>2. CASE ConnCloses
      <3>1. /\ request' \in [Requests -> {"none", "rpc", "http", "httprpc", "done"}]
            /\ cut' \subseteq Requests
        BY <2>2 DEF ConnCloses, TypeOK
      <3>2. QED
        BY <2>2, <1>1, <1>2, <3>1 DEF ConnCloses, TypeOK, servers, routines, history
    <2>3. QED
      BY <1>22, <2>1, <2>2
  <1>23. QED
    BY <1>3, <1>4, <1>5, <1>6, <1>7, <1>8, <1>9, <1>10, <1>11, <1>12, <1>13, <1>14, <1>15,
       <1>16, <1>17, <1>18, <1>19, <1>20, <1>21, <1>22
       DEF Next, Goroutines, Owner

LEMMA NextKeepsOwnerInv ==
  ASSUME TypeOK, OwnerInv, Next
  PROVE  OwnerInv'
  <1>1. CASE Serve
    BY <1>1, ProxyAssumption DEF Serve, TypeOK, OwnerInv, servers, routines, traffic, history
  <1>2. CASE ServeEnds
    BY <1>2, ProxyAssumption DEF ServeEnds, TypeOK, OwnerInv, servers, routines, traffic,
       history
  <1>3. CASE ProxyServes
    BY <1>3, ProxyAssumption DEF ProxyServes, TypeOK, OwnerInv, servers, routines, traffic,
       history
  <1>4. CASE ProxyEnds
    BY <1>4, ProxyAssumption DEF ProxyEnds, TypeOK, OwnerInv, servers, routines, traffic,
       history
  <1>5. CASE \E s \in Server : ForwarderReceives(s) \/ ForwarderSends(s)
    BY <1>5, ProxyAssumption DEF ForwarderReceives, ForwarderSends, TypeOK, OwnerInv,
       servers, routines, traffic, history
  <1>6. CASE ProxyCloser
    BY <1>6, ProxyAssumption DEF ProxyCloser, TypeOK, OwnerInv, servers, routines, traffic,
       history
  <1>7. CASE AppCloser
    BY <1>7, ProxyAssumption DEF AppCloser, TypeOK, OwnerInv, servers, routines, traffic,
       history
  <1>8. CASE StartGrpc
    BY <1>8, ProxyAssumption DEF StartGrpc, TypeOK, OwnerInv, servers, routines, traffic,
       history
  <1>9. CASE StartGrpcFails
    BY <1>9, ProxyAssumption DEF StartGrpcFails, TypeOK, OwnerInv, servers, routines,
       traffic, history
  <1>10. CASE StartProxy
    BY <1>10, ProxyAssumption DEF StartProxy, TypeOK, OwnerInv, servers, routines, traffic,
       history
  <1>11. CASE StartProxyFails \/ UndoStart
    BY <1>11, ProxyAssumption DEF StartProxyFails, UndoStart, TypeOK, OwnerInv, servers,
       routines, traffic, history
  <1>12. CASE ShutdownReturns
    BY <1>12, ProxyAssumption DEF ShutdownReturns, TypeOK, OwnerInv, servers, routines,
       traffic, history
  <1>13. CASE GracefulStop
    BY <1>13, ProxyAssumption DEF GracefulStop, TypeOK, OwnerInv, servers, routines,
       traffic, history
  <1>14. CASE GracefulStopReturns
    BY <1>14, ProxyAssumption DEF GracefulStopReturns, TypeOK, OwnerInv, servers, routines,
       traffic, history
  <1>15. CASE OwnerReceives
    BY <1>15, ProxyAssumption DEF OwnerReceives, TypeOK, OwnerInv, servers, routines,
       traffic, history
  <1>16. CASE ServeFails
    BY <1>16, ProxyAssumption DEF ServeFails, TypeOK, OwnerInv, servers, routines, traffic,
       history
  <1>17. CASE ProxyFails
    BY <1>17, ProxyAssumption DEF ProxyFails, TypeOK, OwnerInv, servers, routines, traffic,
       history
  <1>18. CASE CloseProxy
    BY <1>18, ProxyAssumption DEF CloseProxy, CloseOnce, TypeOK, OwnerInv, servers,
       routines, traffic, history
  <1>19. CASE \E r \in Requests : Arrives(r) \/ GatewayCalls(r) \/ HandlerReturns(r)
    BY <1>19, ProxyAssumption DEF Arrives, GatewayCalls, HandlerReturns, TypeOK, OwnerInv,
       servers, routines, traffic, history
  <1>20. CASE ContextEnds \/ ConnCloses
    BY <1>20 DEF ContextEnds, ConnCloses, TypeOK, OwnerInv, servers, routines, history
  <1>21. QED
    BY <1>1, <1>2, <1>3, <1>4, <1>5, <1>6, <1>7, <1>8, <1>9, <1>10, <1>11, <1>12, <1>13,
       <1>14, <1>15, <1>16, <1>17, <1>18, <1>19, <1>20
       DEF Next, Goroutines, Owner

LEMMA NextKeepsGatewayInv ==
  ASSUME TypeOK, OwnerInv, GatewayInv, Next
  PROVE  GatewayInv'
  <1>1. CASE Serve
    BY <1>1, ProxyAssumption DEF Serve, TypeOK, OwnerInv, GatewayInv, GatewayIsQuiet,
       servers, routines, traffic, history
  <1>2. CASE ServeEnds
    BY <1>2, ProxyAssumption DEF ServeEnds, TypeOK, OwnerInv, GatewayInv, GatewayIsQuiet,
       servers, routines, traffic, history
  <1>3. CASE ProxyServes
    BY <1>3, ProxyAssumption DEF ProxyServes, TypeOK, OwnerInv, GatewayInv, GatewayIsQuiet,
       servers, routines, traffic, history
  <1>4. CASE ProxyEnds
    BY <1>4, ProxyAssumption DEF ProxyEnds, TypeOK, OwnerInv, GatewayInv, GatewayIsQuiet,
       servers, routines, traffic, history
  <1>5. CASE \E s \in Server : ForwarderReceives(s) \/ ForwarderSends(s)
    BY <1>5, ProxyAssumption DEF ForwarderReceives, ForwarderSends, TypeOK, OwnerInv,
       GatewayInv, GatewayIsQuiet,
       servers, routines, traffic, history
  <1>6. CASE ProxyCloser
    BY <1>6, ProxyAssumption DEF ProxyCloser, TypeOK, OwnerInv, GatewayInv, GatewayIsQuiet,
       servers, routines, traffic, history
  <1>7. CASE AppCloser
    BY <1>7, ProxyAssumption DEF AppCloser, TypeOK, OwnerInv, GatewayInv, GatewayIsQuiet,
       servers, routines, traffic, history
  <1>8. CASE StartGrpc
    BY <1>8, ProxyAssumption DEF StartGrpc, TypeOK, OwnerInv, GatewayInv, GatewayIsQuiet,
       servers, routines, traffic, history
  <1>9. CASE StartGrpcFails
    BY <1>9, ProxyAssumption DEF StartGrpcFails, TypeOK, OwnerInv, GatewayInv, GatewayIsQuiet,
       servers, routines, traffic, history
  <1>10. CASE StartProxy
    BY <1>10, ProxyAssumption DEF StartProxy, TypeOK, OwnerInv, GatewayInv, GatewayIsQuiet,
       servers, routines, traffic, history
  <1>11. CASE StartProxyFails \/ UndoStart
    BY <1>11, ProxyAssumption DEF StartProxyFails, UndoStart, TypeOK, OwnerInv, GatewayInv,
       GatewayIsQuiet,
       servers, routines, traffic, history
  <1>12. CASE ShutdownReturns
    BY <1>12, ProxyAssumption DEF ShutdownReturns, TypeOK, OwnerInv, GatewayInv, GatewayIsQuiet,
       servers, routines, traffic, history
  <1>13. CASE GracefulStop
    BY <1>13, ProxyAssumption DEF GracefulStop, TypeOK, OwnerInv, GatewayInv, GatewayIsQuiet,
       servers, routines, traffic, history
  <1>14. CASE GracefulStopReturns
    BY <1>14, ProxyAssumption DEF GracefulStopReturns, TypeOK, OwnerInv, GatewayInv,
       GatewayIsQuiet,
       servers, routines, traffic, history
  <1>15. CASE OwnerReceives
    BY <1>15, ProxyAssumption DEF OwnerReceives, TypeOK, OwnerInv, GatewayInv, GatewayIsQuiet,
       servers, routines, traffic, history
  <1>16. CASE ServeFails
    BY <1>16, ProxyAssumption DEF ServeFails, TypeOK, OwnerInv, GatewayInv, GatewayIsQuiet,
       servers, routines, traffic, history
  <1>17. CASE ProxyFails
    BY <1>17, ProxyAssumption DEF ProxyFails, TypeOK, OwnerInv, GatewayInv, GatewayIsQuiet,
       servers, routines, traffic, history
  <1>18. CASE CloseProxy
    BY <1>18, ProxyAssumption DEF CloseProxy, CloseOnce, TypeOK, OwnerInv, GatewayInv,
       GatewayIsQuiet,
       servers, routines, traffic, history
  <1>19. CASE \E r \in Requests : Arrives(r) \/ GatewayCalls(r) \/ HandlerReturns(r)
    BY <1>19, ProxyAssumption DEF Arrives, GatewayCalls, HandlerReturns, TypeOK, OwnerInv,
       GatewayInv, GatewayIsQuiet,
       servers, routines, traffic, history
  <1>20. CASE ContextEnds \/ ConnCloses
    BY <1>20 DEF ContextEnds, ConnCloses, TypeOK, OwnerInv, GatewayInv, GatewayIsQuiet,
       servers, routines, history
  <1>21. QED
    BY <1>1, <1>2, <1>3, <1>4, <1>5, <1>6, <1>7, <1>8, <1>9, <1>10, <1>11, <1>12, <1>13,
       <1>14, <1>15, <1>16, <1>17, <1>18, <1>19, <1>20
       DEF Next, Goroutines, Owner

\* A request of the gateway is refused, or cut off, only when it came too late.
LEMMA NextKeepsAccepted ==
  ASSUME TypeOK, OwnerInv, GatewayInv, AcceptedIsServed, Next
  PROVE  AcceptedIsServed'
  <1>1. /\ (timedOut \/ serveError) => (timedOut' \/ serveError')
        /\ ctxEnded => ctxEnded'
    <2>1. (timedOut \/ serveError) => (timedOut' \/ serveError')
      BY Zenon DEF Next, Goroutines, Owner, Serve, ServeEnds, ProxyServes, ProxyEnds,
           ForwarderReceives, ForwarderSends, ProxyCloser, AppCloser, StartGrpc, StartGrpcFails,
           StartProxy, StartProxyFails, UndoStart, ShutdownReturns, GracefulStop,
           GracefulStopReturns, OwnerReceives, CloseProxy, ServeFails, ProxyFails, Arrives,
           GatewayCalls, HandlerReturns, ContextEnds, ConnCloses, history
    <2>2. ctxEnded => ctxEnded'
      BY Zenon DEF Next, Goroutines, Owner, Serve, ServeEnds, ProxyServes, ProxyEnds,
           ForwarderReceives, ForwarderSends, ProxyCloser, AppCloser, StartGrpc, StartGrpcFails,
           StartProxy, StartProxyFails, UndoStart, ShutdownReturns, GracefulStop,
           GracefulStopReturns, OwnerReceives, CloseProxy, ServeFails, ProxyFails, Arrives,
           GatewayCalls, HandlerReturns, ContextEnds, ConnCloses, traffic
    <2>3. QED
      BY <2>1, <2>2
  <1>2. CASE refused' = refused /\ cut' = cut
    BY <1>1, <1>2 DEF AcceptedIsServed
  <1>3. ASSUME NEW r \in Requests, GatewayCalls(r), conn = "closed"
        PROVE  AcceptedIsServed'
    <2>1. refused' = refused /\ ctxEnded
      BY <1>3 DEF GatewayCalls, GatewayInv
    <2>2. QED
      BY <1>1, <2>1 DEF AcceptedIsServed
  <1>4. ASSUME NEW r \in Requests, GatewayCalls(r), conn # "closed", refused' # refused
        PROVE  AcceptedIsServed'
    <2>1. /\ request[r] = "http" /\ (server \notin {"listening", "serving"} \/ stopping)
          /\ cut' = cut
      BY <1>4 DEF GatewayCalls
    <2>2. proxy # "new" /\ server # "new"
      BY <2>1 DEF GatewayInv, OwnerInv
    <2>3. timedOut \/ serveError
      BY <2>1, <2>2 DEF GatewayInv, GatewayIsQuiet, TypeOK
    <2>4. QED
      BY <1>1, <2>1, <2>3 DEF AcceptedIsServed
  <1>5. ASSUME NEW r \in Requests, GatewayCalls(r), conn # "closed", refused' = refused
        PROVE  cut' = cut
    BY <1>5 DEF GatewayCalls
  <1>6. CASE ConnCloses
    <2>1. refused' = refused /\ ctxEnded
      BY <1>6 DEF ConnCloses
    <2>2. QED
      BY <1>1, <2>1 DEF AcceptedIsServed
  <1>7. \/ ConnCloses
        \/ \E r \in Requests : GatewayCalls(r)
        \/ refused' = refused /\ cut' = cut
    BY DEF Next, Goroutines, Owner, Serve, ServeEnds, ProxyServes, ProxyEnds, ForwarderReceives,
           ForwarderSends, ProxyCloser, AppCloser, StartGrpc, StartGrpcFails, StartProxy,
           StartProxyFails, UndoStart, ShutdownReturns, GracefulStop, GracefulStopReturns,
           OwnerReceives, CloseProxy, ServeFails, ProxyFails, Arrives, HandlerReturns,
           ContextEnds, traffic
  <1>8. QED
    BY <1>2, <1>3, <1>4, <1>5, <1>6, <1>7

\* Notify is open while the app runs; a closed app takes no call.
IdleInv == NotifyIsOpenWhileRunning /\ ClosedMeansIdle

LEMMA NextKeepsIdle ==
  ASSUME TypeOK, ChanInv, ChanInv', OwnerInv, OwnerInv', IdleInv, Next
  PROVE  IdleInv'
  <1>1. NotifyIsOpenWhileRunning'
    <2>1. chan'["app"].closed => owner' \notin {"new", "start_proxy", "undo_start", "started"}
      BY DEF ChanInv, ChannelInv, OwnerInv
    <2>2. ~(chan["app"].closed /\ owner = "started")
      BY DEF IdleInv, NotifyIsOpenWhileRunning
    <2>3. CASE OwnerReceives
      BY <2>1, <2>2, <2>3 DEF OwnerReceives, NotifyIsOpenWhileRunning
    <2>4. OwnerReceives \/ received' = received
      BY DEF Next, Goroutines, Owner, Serve, ServeEnds, ProxyServes, ProxyEnds,
         ForwarderReceives,
             ForwarderSends, ProxyCloser, AppCloser, StartGrpc, StartGrpcFails, StartProxy,
             StartProxyFails, UndoStart, ShutdownReturns, GracefulStop, GracefulStopReturns,
             CloseProxy, ServeFails, ProxyFails, Arrives, GatewayCalls, HandlerReturns,
             ContextEnds, ConnCloses
    <2>5. QED
      BY <2>1, <2>3, <2>4 DEF IdleInv, NotifyIsOpenWhileRunning
  <1>2. ClosedMeansIdle'
    <2>1. CASE GracefulStopReturns
      BY <2>1 DEF GracefulStopReturns, ClosedMeansIdle, CallsRunning, traffic
    <2>2. CASE \E r \in Requests : Arrives(r) \/ GatewayCalls(r) \/ HandlerReturns(r)
      BY <2>2 DEF Arrives, GatewayCalls, HandlerReturns, TypeOK, OwnerInv, IdleInv,
         ClosedMeansIdle,
                  CallsRunning
    <2>3. CASE ConnCloses
      <3>1. CallsRunning' = CallsRunning
        BY <2>3 DEF ConnCloses, CallsRunning
      <3>2. QED
        BY <2>3, <3>1 DEF ConnCloses, IdleInv, ClosedMeansIdle
    <2>4. ASSUME ~GracefulStopReturns, ~ConnCloses,
                 ~ \E r \in Requests : Arrives(r) \/ GatewayCalls(r) \/ HandlerReturns(r)
          PROVE  request' = request /\ (owner' = "closed" => owner = "closed")
      BY <2>4 DEF Next, Goroutines, Owner, Serve, ServeEnds, ProxyServes, ProxyEnds,
             ForwarderReceives, ForwarderSends, ProxyCloser, AppCloser, StartGrpc, StartGrpcFails,
             StartProxy, StartProxyFails, UndoStart, ShutdownReturns, GracefulStop, OwnerReceives,
             CloseProxy, ServeFails, ProxyFails, ContextEnds, traffic
    <2>5. QED
      BY <2>1, <2>2, <2>3, <2>4 DEF IdleInv, ClosedMeansIdle, CallsRunning
  <1>3. QED
    BY <1>1, <1>2 DEF IdleInv

-----------------------------------------------------------------------------
AppInv == TypeOK /\ ChanInv /\ OwnerInv /\ GatewayInv /\ AcceptedIsServed /\ IdleInv

LEMMA AppStarts == Init => AppInv
  <1> SUFFICES ASSUME Init PROVE AppInv
    OBVIOUS
  <1>1. \A c \in Channel : chan[c] = Untouched
    BY DEF Init, Untouched
  <1>2. Untouched \in Chan /\ Untouched.items = <<>> /\ Untouched.closed = FALSE
    BY DEF Untouched, Chan, Items
  <1>3. chan \in [Channel -> Chan]
    BY <1>2 DEF Init, Untouched
  <1>4. ChanInv
    BY <1>1, <1>2, <1>3 DEF Init, ChanInv, ChannelInv, Chan, Items, Channel, Server
  <1>5. TypeOK
    BY <1>1, <1>2 DEF Init, TypeOK, Channel
  <1>6. OwnerInv /\ GatewayInv /\ AcceptedIsServed
    BY DEF Init, OwnerInv, GatewayInv, AcceptedIsServed
  <1>7. IdleInv
    BY <1>1, <1>2 DEF Init, IdleInv, NotifyIsOpenWhileRunning, ClosedMeansIdle, Channel
  <1>8. QED
    BY <1>4, <1>5, <1>6, <1>7 DEF AppInv

LEMMA AppSteps == AppInv /\ [Next]_vars => AppInv'
  <1> SUFFICES ASSUME AppInv, [Next]_vars PROVE AppInv'
    OBVIOUS
  <1>1. CASE Next
    <2>1. ChanInv' /\ OwnerInv' /\ GatewayInv' /\ AcceptedIsServed'
      BY <1>1, NextKeepsChanInv, NextKeepsOwnerInv, NextKeepsGatewayInv, NextKeepsAccepted
         DEF AppInv
    <2>2. TypeOK' /\ IdleInv'
      BY <1>1, <2>1, NextKeepsTypes, NextKeepsIdle DEF AppInv
    <2>3. QED
      BY <2>1, <2>2 DEF AppInv
  <1>2. CASE UNCHANGED vars
    BY <1>2 DEF vars, servers, routines, traffic, history, AppInv, TypeOK, ChanInv, ChannelInv,
                OwnerInv, GatewayInv, GatewayIsQuiet, AcceptedIsServed, IdleInv,
                NotifyIsOpenWhileRunning, ClosedMeansIdle, CallsRunning
  <1>3. QED
    BY <1>1, <1>2

\* The goroutines that Start and Close leave behind never misuse the channels
\* they share, Notify is open while the app runs, Close returns when no handler
\* runs, and an accepted request fails only when the context of Start is done, the
\* gateway ran into its timeout or a server failed.
THEOREM AppIsSafe == ProcessSpec => []AppIsOrderly
  <1>1. ProcessInit => AppInv
    BY AppStarts DEF ProcessInit
  <1>2. AppInv /\ [ProcessNext]_<<vars, part, service, rpc, encoder, trace>> => AppInv'
    <2>1. [ProcessNext]_<<vars, part, service, rpc, encoder, trace>> => [Next]_vars
      BY DEF ProcessNext
    <2>2. QED
      BY <2>1, AppSteps
  <1>3. AppInv => AppIsOrderly
    BY DEF AppInv, IdleInv, ChanInv, AppIsOrderly, NoChannelMisuse
  <1>4. QED
    BY <1>1, <1>2, <1>3, PTL DEF ProcessSpec

-----------------------------------------------------------------------------
(* The services (ServiceLifecycle).  One proof serves all three.            *)

LEMMA LifeBounds == BatchSize \in Nat \ {0} /\ Served \in Nat
  BY ServiceAssumption DEF Services, Life!ServiceLifecycleAssumption

LifeInv(s) == Life(s)!TypeOK /\ Life(s)!CloseInv /\ Life(s)!RunInv /\ Life(s)!WorkInv

\* The steps that do something to the life of the process; all others leave
\* "process" alone.
LifeStep(s) ==
  \/ Life(s)!Setup \/ Life(s)!SetupFails \/ Life(s)!Start \/ Life(s)!Signal \/ Life(s)!RunStops
  \/ Life(s)!NotifyError \/ Life(s)!CloseBegins \/ Life(s)!CloseEnds \/ Life(s)!Return
  \/ Life(s)!WorkerPanics

\* Setup and Close know the same resources; Close takes what handlers come
\* through before what they and the worker use.
LEMMA Orders ==
  ASSUME NEW s \in Services
  PROVE
  /\ Len(Life(s)!SetupOrder) \in Nat \ {0} /\ Len(Life(s)!CloseOrder) \in Nat \ {0}
  /\ Life(s)!Resources(Life(s)!SetupOrder) = Life(s)!Resources(Life(s)!CloseOrder)
  /\ \A i, j \in 1..Len(Life(s)!CloseOrder) : Life(s)!CloseOrder[i] = Life(s)!CloseOrder[j] => i = j
  /\ \A i, j \in 1..Len(Life(s)!CloseOrder) :
       /\ Life(s)!HasHandlers
       /\ Life(s)!CloseOrder[i] = Life(s)!Server
       /\ Life(s)!CloseOrder[j] \in {"publisher", "postgres"}
       => i < j
  /\ Life(s)!HasHandlers =>
       Life(s)!Server \in Life(s)!Resources(Life(s)!SetupOrder) \ Life(s)!Disabled
  <1>1. CASE s = "auth"
    <2>1. Life(s)!SetupOrder = Life(s)!AuthSetup /\ Life(s)!CloseOrder = Life(s)!AuthClose
      BY <1>1 DEF Life!SetupOrder, Life!CloseOrder
    <2>2. Len(Life(s)!SetupOrder) = 7 /\ Len(Life(s)!CloseOrder) = 7
      BY <2>1 DEF Life!AuthSetup, Life!AuthClose
    <2>3. Life(s)!Resources(Life(s)!SetupOrder) =
            {"trace", "log", "postgres", "publisher", "grpc", "metrics", "profiler"}
      BY <2>1, <2>2 DEF Life!AuthSetup, Life!Resources
    <2>4. Life(s)!Resources(Life(s)!CloseOrder) =
            {"trace", "log", "postgres", "publisher", "grpc", "metrics", "profiler"}
      BY <2>1, <2>2 DEF Life!AuthClose, Life!Resources
    <2>5. \A i, j \in 1..7 : Life(s)!CloseOrder[i] = Life(s)!CloseOrder[j] => i = j
      BY <2>1 DEF Life!AuthClose
    <2>6. \A i, j \in 1..7 :
            /\ Life(s)!CloseOrder[i] = "grpc"
            /\ Life(s)!CloseOrder[j] \in {"publisher", "postgres"}
            => i < j
      BY <2>1 DEF Life!AuthClose
    <2>7. Life(s)!HasHandlers /\ Life(s)!Server = "grpc" /\ "grpc" \notin Life(s)!Disabled
      BY <1>1 DEF Life!Server, Life!HasHandlers, Life!Disabled
    <2>8. QED
      BY <2>2, <2>3, <2>4, <2>5, <2>6, <2>7
  <1>2. CASE s = "outbox"
    <2>1. Life(s)!SetupOrder = Life(s)!OutboxSetup /\ Life(s)!CloseOrder = Life(s)!OutboxClose
      BY <1>2 DEF Life!SetupOrder, Life!CloseOrder
    <2>2. Len(Life(s)!SetupOrder) = 4 /\ Len(Life(s)!CloseOrder) = 4
      BY <2>1 DEF Life!OutboxSetup, Life!OutboxClose
    <2>3. Life(s)!Resources(Life(s)!SetupOrder) = {"trace", "log", "postgres", "publisher"}
      BY <2>1, <2>2 DEF Life!OutboxSetup, Life!Resources
    <2>4. Life(s)!Resources(Life(s)!CloseOrder) = {"trace", "log", "postgres", "publisher"}
      BY <2>1, <2>2 DEF Life!OutboxClose, Life!Resources
    <2>5. \A i, j \in 1..4 : Life(s)!CloseOrder[i] = Life(s)!CloseOrder[j] => i = j
      BY <2>1 DEF Life!OutboxClose
    <2>6. ~Life(s)!HasHandlers
      BY <1>2 DEF Life!HasHandlers
    <2>7. QED
      BY <2>2, <2>3, <2>4, <2>5, <2>6
  <1>3. CASE s = "vk"
    <2>1. Life(s)!SetupOrder = Life(s)!VKSetup /\ Life(s)!CloseOrder = Life(s)!VKClose
      BY <1>3 DEF Life!SetupOrder, Life!CloseOrder
    <2>2. Len(Life(s)!SetupOrder) = 4 /\ Len(Life(s)!CloseOrder) = 4
      BY <2>1 DEF Life!VKSetup, Life!VKClose
    <2>3. Life(s)!Resources(Life(s)!SetupOrder) = {"trace", "log", "postgres", "consumer"}
      BY <2>1, <2>2 DEF Life!VKSetup, Life!Resources
    <2>4. Life(s)!Resources(Life(s)!CloseOrder) = {"trace", "log", "postgres", "consumer"}
      BY <2>1, <2>2 DEF Life!VKClose, Life!Resources
    <2>5. \A i, j \in 1..4 : Life(s)!CloseOrder[i] = Life(s)!CloseOrder[j] => i = j
      BY <2>1 DEF Life!VKClose
    <2>6. \A i, j \in 1..4 :
            /\ Life(s)!CloseOrder[i] = "consumer"
            /\ Life(s)!CloseOrder[j] \in {"publisher", "postgres"}
            => i < j
      BY <2>1 DEF Life!VKClose
    <2>7. Life(s)!HasHandlers /\ Life(s)!Server = "consumer" /\ "consumer" \notin Life(s)!Disabled
      BY <1>3 DEF Life!Server, Life!HasHandlers, Life!Disabled
    <2>8. QED
      BY <2>2, <2>3, <2>4, <2>5, <2>6, <2>7
  <1>4. QED
    BY <1>1, <1>2, <1>3 DEF Services


\* Steps of the requests and of the worker leave the life of the process alone.
LEMMA WorkKeepsTypes ==
  ASSUME NEW s \in Services, LifeInv(s), UNCHANGED Life(s)!process,
         \/ \E h \in Requests : Life(s)!HandlerBegins(h) \/ Life(s)!HandlerSteps(h)
         \/ Life(s)!Worker \/ Life(s)!WorkerClaims
  PROVE  Life(s)!TypeOK'
  <1>1. BatchSize \in Nat /\ Served \in Nat
    BY LifeBounds
  <1>2. CASE \E h \in Requests : Life(s)!HandlerBegins(h) \/ Life(s)!HandlerSteps(h)
    BY <1>1, <1>2 DEF Life!HandlerBegins, Life!HandlerSteps, LifeInv, Life!TypeOK,
       Life!process, Life!work
  <1>3. CASE Life(s)!Worker \/ Life(s)!WorkerClaims
    BY <1>1, <1>3 DEF LifeInv, Life!TypeOK, Life!WorkInv, Life!process, Life!work,
       Life!Worker, Life!WorkerClaims, Life!WorkerStops,
       Life!WorkerClaimed, Life!WorkerPublishes, Life!WorkerPanics, Life!WorkerPublished,
       Life!WorkerMarks, Life!WorkerMarked, Life!AfterMessage
  <1>4. QED
    BY <1>2, <1>3

LEMMA WorkKeepsWorkInv ==
  ASSUME NEW s \in Services, LifeInv(s), UNCHANGED Life(s)!process,
         \/ \E h \in Requests : Life(s)!HandlerBegins(h) \/ Life(s)!HandlerSteps(h)
         \/ Life(s)!Worker \/ Life(s)!WorkerClaims
  PROVE  Life(s)!WorkInv'
  <1>1. CASE \E h \in Requests : Life(s)!HandlerBegins(h) \/ Life(s)!HandlerSteps(h)
    <2>1. PICK h \in Requests : Life(s)!HandlerBegins(h) \/ Life(s)!HandlerSteps(h)
      BY <1>1
    <2>2. handler \in [Requests -> {"idle", "active", "db"}]
      BY DEF LifeInv, Life!TypeOK
    <2>3. CASE Life(s)!HandlerBegins(h)
      <3>1. /\ ~Life(s)!Unstarted /\ Life(s)!HasHandlers /\ Life(s)!Server \notin closed
            /\ s = "vk" => phase = "running"
        BY <2>3 DEF Life!HandlerBegins, LifeInv, Life!TypeOK, Life!RunInv, Life!Unstarted
      <3>2. UNCHANGED <<Life(s)!Unstarted, phase, closed, worker, left>>
        BY <2>3 DEF Life!HandlerBegins, Life!work, Life!process, Life!Unstarted
      <3>3. QED
        BY <3>1, <3>2 DEF LifeInv, Life!WorkInv
    <2>4. CASE Life(s)!HandlerSteps(h)
      <3>1. handler[h] # "idle"
        BY <2>4 DEF Life!HandlerSteps
      <3>2. UNCHANGED <<Life(s)!Unstarted, phase, closed, worker, left>>
        BY <2>4 DEF Life!HandlerSteps, Life!work, Life!process, Life!Unstarted
      <3>3. QED
        BY <3>1, <3>2 DEF LifeInv, Life!WorkInv
    <2>5. QED
      BY <2>1, <2>3, <2>4
  <1>2. CASE Life(s)!Worker \/ Life(s)!WorkerClaims
    <2>1. worker # "none" /\ UNCHANGED <<Life(s)!Unstarted, phase, closed, handler>>
      BY <1>2 DEF Life!Worker, Life!WorkerClaims, Life!WorkerStops, Life!WorkerClaimed,
         Life!WorkerPublishes, Life!WorkerPanics,
         Life!WorkerPublished, Life!WorkerMarks, Life!WorkerMarked, Life!process,
         Life!Unstarted
    <2>2. worker' \in {"batch", "publishing", "sent", "failed", "marking"} => left' > 0
      BY <1>2, LifeBounds DEF Life!Worker, Life!WorkerClaims, Life!WorkerStops,
         Life!WorkerClaimed, Life!WorkerPublishes, Life!WorkerPanics,
         Life!WorkerPublished, Life!WorkerMarks, Life!WorkerMarked, Life!AfterMessage,
         LifeInv, Life!WorkInv, Life!TypeOK, Life!process, Life!work
    <2>3. QED
      BY <2>1, <2>2 DEF LifeInv, Life!WorkInv
  <1>3. QED
    BY <1>1, <1>2

LEMMA LifeKeepsTypes ==
  ASSUME NEW s \in Services, LifeInv(s), LifeStep(s)
  PROVE  Life(s)!TypeOK'
  <1>1. Len(Life(s)!SetupOrder) \in Nat \ {0} /\ Len(Life(s)!CloseOrder) \in Nat \ {0}
    BY Orders
  <1>2. /\ UNCHANGED <<handler, served, left>>
        /\ worker' \in {worker, "none", "waiting"} /\ ctxDone' \in BOOLEAN
    BY DEF LifeStep, Life!Setup, Life!SetupFails, Life!Start, Life!Signal, Life!RunStops,
       Life!NotifyError, Life!CloseBegins, Life!CloseEnds,
       Life!Return, Life!WorkerPanics, Life!BeginClose, Life!process, Life!work, LifeInv,
       Life!TypeOK
  <1>3. /\ phase' \in {"setup", "ready", "running", "closing", "returned", "crashed"}
        /\ why' \in {"none", "setup", "start", "ctx", "notify"}
    BY DEF LifeStep, Life!Setup, Life!SetupFails, Life!Start, Life!Signal, Life!RunStops,
       Life!NotifyError, Life!CloseBegins, Life!CloseEnds,
       Life!Return, Life!WorkerPanics, Life!BeginClose, Life!process, Life!work, LifeInv,
       Life!TypeOK
  <1>4. step' \in 1..(Len(Life(s)!SetupOrder) + 1) \/ step' \in 1..(Len(Life(s)!CloseOrder) + 1)
    BY <1>1 DEF LifeStep, Life!Setup, Life!SetupFails, Life!Start, Life!Signal,
       Life!RunStops, Life!NotifyError, Life!CloseBegins, Life!CloseEnds,
       Life!Return, Life!WorkerPanics, Life!BeginClose, Life!process, Life!work, LifeInv,
       Life!TypeOK
  <1>5. /\ closed' \subseteq refusing' /\ refusing' \subseteq built'
        /\ built' \subseteq Life(s)!Resources(Life(s)!SetupOrder)
    <2>1. CASE Life(s)!Setup
      <3>1. Life(s)!SetupOrder[step] \in Life(s)!Resources(Life(s)!SetupOrder)
        BY <1>1, <2>1 DEF Life!Setup, Life!Resources, LifeInv, Life!TypeOK
      <3>2. QED
        BY <2>1, <3>1 DEF Life!Setup, LifeInv, Life!TypeOK
    <2>2. CASE ~Life(s)!Setup
      BY <2>2 DEF LifeStep, Life!SetupFails, Life!Start, Life!Signal, Life!RunStops,
         Life!NotifyError, Life!CloseBegins, Life!CloseEnds,
         Life!Return, Life!WorkerPanics, Life!BeginClose, Life!process, Life!work,
         LifeInv, Life!TypeOK
    <2>3. QED
      BY <2>1, <2>2
  <1>6. QED
    BY <1>2, <1>3, <1>4, <1>5 DEF Life!TypeOK, LifeInv

LEMMA LifeKeepsRunInv ==
  ASSUME NEW s \in Services, LifeInv(s), LifeStep(s)
  PROVE  Life(s)!RunInv'
  <1>1. Len(Life(s)!SetupOrder) \in Nat \ {0} /\ Len(Life(s)!CloseOrder) \in Nat \ {0}
    BY Orders
  <1>2. CASE Life(s)!Setup
    <2>1. step \in 1..Len(Life(s)!SetupOrder) /\ step' = step + 1
      BY <1>2, <1>1 DEF Life!Setup, LifeInv, Life!TypeOK
    <2>2. 1..(step' - 1) = 1..(step - 1) \cup {step}
      BY <2>1
    <2>3. {Life(s)!SetupOrder[i] : i \in 1..(step' - 1)} =
            {Life(s)!SetupOrder[i] : i \in 1..(step - 1)} \cup {Life(s)!SetupOrder[step]}
      BY <2>2
    <2>4. built' = {Life(s)!SetupOrder[i] : i \in 1..(step' - 1)} \ Life(s)!Disabled
      BY <2>3, <1>2 DEF Life!Setup, LifeInv, Life!RunInv
    <2>5. phase' = "ready" => built' = Life(s)!Resources(Life(s)!SetupOrder) \ Life(s)!Disabled
      BY <2>1, <2>4, <1>2, <1>1 DEF Life!Setup, Life!Resources
    <2>6. phase' = "setup" => step' <= Len(Life(s)!SetupOrder)
      BY <2>1, <1>2, <1>1 DEF Life!Setup
    <2>7. phase' \in {"setup", "ready"} /\ why' = "none"
      BY <1>2 DEF Life!Setup, LifeInv, Life!RunInv
    <2>8. QED
      BY <2>4, <2>5, <2>6, <2>7 DEF Life!RunInv
  <1>3. CASE Life(s)!SetupFails \/ Life(s)!Start \/ Life(s)!RunStops \/ Life(s)!NotifyError
    BY <1>3 DEF Life!SetupFails, Life!Start, Life!RunStops, Life!NotifyError,
       Life!BeginClose, LifeInv, Life!RunInv
  <1>4. CASE Life(s)!Signal \/ Life(s)!CloseBegins \/ Life(s)!CloseEnds \/ Life(s)!Return
    <2>1. step \in Nat /\ closed \subseteq closed' /\ UNCHANGED <<built, why>>
      BY <1>4, <1>1 DEF Life!Signal, Life!CloseBegins, Life!CloseEnds, Life!Return,
         Life!process, LifeInv, Life!TypeOK
    <2>2. QED
      BY <1>4, <2>1 DEF Life!Signal, Life!CloseBegins, Life!CloseEnds, Life!Return,
         Life!process, LifeInv, Life!RunInv, Life!TypeOK
  <1>5. CASE Life(s)!WorkerPanics
    <2>1. worker = "batch" /\ phase \notin {"returned", "crashed"} /\ "publisher" \in closed
      BY <1>5 DEF Life!WorkerPanics, Life!Alive
    <2>2. refusing # {} /\ ~Life(s)!Unstarted
      BY <2>1 DEF LifeInv, Life!WorkInv, Life!TypeOK
    <2>3. phase = "closing" /\ why \in {"ctx", "notify"}
      BY <2>1, <2>2 DEF LifeInv, Life!CloseInv, Life!RunInv, Life!Unstarted, Life!TypeOK
    <2>4. QED
      BY <2>1, <2>3, <1>5 DEF Life!WorkerPanics, LifeInv, Life!RunInv
  <1>6. QED
    BY <1>2, <1>3, <1>4, <1>5 DEF LifeStep

LEMMA LifeKeepsCloseInv ==
  ASSUME NEW s \in Services, LifeInv(s), LifeStep(s)
  PROVE  Life(s)!CloseInv'
  <1>1. Len(Life(s)!SetupOrder) \in Nat \ {0} /\ Len(Life(s)!CloseOrder) \in Nat \ {0}
    BY Orders
  <1>2. CASE Life(s)!Setup \/ Life(s)!Start
    BY <1>2 DEF Life!Setup, Life!Start, LifeInv, Life!RunInv, Life!CloseInv
  <1>3. CASE Life(s)!SetupFails \/ Life(s)!RunStops \/ Life(s)!NotifyError
    <2>1. refusing = {} /\ closed = {} /\ UNCHANGED <<refusing, closed>> /\ step' = 1
      BY <1>3 DEF Life!SetupFails, Life!RunStops, Life!NotifyError, Life!BeginClose,
         LifeInv, Life!RunInv, Life!CloseInv, Life!TypeOK
    <2>2. Life(s)!Passed' = {}
      BY <2>1 DEF Life!Passed
    <2>3. phase' = "closing" /\ why' # "start" /\ 1 \in 1..(Len(Life(s)!CloseOrder) + 1)
      BY <1>1, <1>3 DEF Life!SetupFails, Life!RunStops, Life!NotifyError, Life!BeginClose
    <2>4. QED
      BY <2>1, <2>2, <2>3 DEF Life!CloseInv
  <1>4. CASE Life(s)!CloseBegins \/ Life(s)!CloseEnds
    <2>1. phase = "closing" /\ why # "start" /\ UNCHANGED <<phase, why, built>>
      BY <1>4 DEF Life!CloseBegins, Life!CloseEnds, LifeInv, Life!RunInv
    <2>2. step \in 1..Len(Life(s)!CloseOrder)
      BY <1>1, <1>4, <2>1 DEF Life!CloseBegins, Life!CloseEnds, LifeInv, Life!CloseInv
    <2>3. /\ closed = built \cap Life(s)!Passed
          /\ refusing \subseteq closed \cup {Life(s)!CloseOrder[step]}
          /\ closed \subseteq refusing /\ refusing \subseteq built
      BY <2>1 DEF LifeInv, Life!CloseInv, Life!TypeOK
    <2>4. step' = step + 1 => Life(s)!Passed' = Life(s)!Passed \cup {Life(s)!CloseOrder[step]}
      <3> SUFFICES ASSUME step' = step + 1
                   PROVE  Life(s)!Passed' = Life(s)!Passed \cup {Life(s)!CloseOrder[step]}
        OBVIOUS
      <3>1. 1..(step' - 1) = 1..(step - 1) \cup {step}
        BY <2>2
      <3>2. QED
        BY <3>1 DEF Life!Passed
    <2>5. CASE Life(s)!CloseBegins /\ Life(s)!CloseOrder[step] \in built
      <3>1. UNCHANGED <<closed, step>> /\ refusing' = refusing \cup {Life(s)!CloseOrder[step]}
        BY <2>5 DEF Life!CloseBegins
      <3>2. Life(s)!Passed' = Life(s)!Passed
        BY <3>1 DEF Life!Passed
      <3>3. QED
        BY <1>1, <2>1, <2>2, <2>3, <3>1, <3>2 DEF Life!CloseInv
    <2>6. CASE Life(s)!CloseBegins /\ Life(s)!CloseOrder[step] \notin built
      <3>1. UNCHANGED <<closed, refusing>> /\ step' = step + 1
        BY <2>6 DEF Life!CloseBegins
      <3>2. step' \in 1..(Len(Life(s)!CloseOrder) + 1)
        BY <1>1, <2>2, <3>1
      <3>3. closed' = built' \cap Life(s)!Passed' /\ refusing' \subseteq closed'
        BY <2>1, <2>3, <2>4, <2>6, <3>1
      <3>4. QED
        BY <2>1, <3>2, <3>3 DEF Life!CloseInv
    <2>7. CASE Life(s)!CloseEnds
      <3>1. /\ closed' = closed \cup {Life(s)!CloseOrder[step]} /\ refusing' = refusing
            /\ step' = step + 1 /\ Life(s)!CloseOrder[step] \in refusing
        BY <2>7 DEF Life!CloseEnds
      <3>2. step' \in 1..(Len(Life(s)!CloseOrder) + 1)
        BY <1>1, <2>2, <3>1
      <3>3. closed' = built' \cap Life(s)!Passed' /\ refusing' \subseteq closed'
        BY <2>1, <2>3, <2>4, <3>1
      <3>4. QED
        BY <2>1, <3>2, <3>3 DEF Life!CloseInv
    <2>8. QED
      BY <1>4, <2>5, <2>6, <2>7
  <1>5. CASE Life(s)!Signal \/ Life(s)!Return \/ Life(s)!WorkerPanics
    <2>1. UNCHANGED <<step, built, refusing, closed, why>>
      BY <1>5 DEF Life!Signal, Life!Return, Life!WorkerPanics, Life!process
    <2>2. \/ phase' = phase
          \/ phase' = "returned" /\ phase = "closing"
          \/ phase' = "crashed" /\ phase # "returned"
      BY <1>5 DEF Life!Signal, Life!Return, Life!WorkerPanics, Life!process, Life!Alive
    <2>3. phase' = "crashed" => phase \notin {"setup", "ready", "running"}
      <3>1. SUFFICES ASSUME Life(s)!WorkerPanics PROVE phase \notin {"setup", "ready", "running"}
        BY <1>5 DEF Life!Signal, Life!Return, Life!process, LifeInv, Life!RunInv,
           Life!CloseInv, Life!TypeOK
      <3>2. "publisher" \in refusing
        BY <3>1 DEF Life!WorkerPanics, LifeInv, Life!TypeOK
      <3>3. QED
        BY <3>2 DEF LifeInv, Life!CloseInv
    <2>4. Life(s)!Passed' = Life(s)!Passed
      BY <2>1 DEF Life!Passed
    <2>5. QED
      BY <2>1, <2>2, <2>3, <2>4 DEF LifeInv, Life!CloseInv
  <1>6. QED
    BY <1>2, <1>3, <1>4, <1>5 DEF LifeStep

LEMMA LifeKeepsWorkInv ==
  ASSUME NEW s \in Services, LifeInv(s), LifeStep(s)
  PROVE  Life(s)!WorkInv'
  <1>1. CASE Life(s)!Start
    <2>1. Life(s)!Unstarted /\ handler' = handler /\ closed' = closed
      BY <1>1 DEF Life!Start, Life!Unstarted
    <2>2. worker' = "none" \/ (worker' = "waiting" /\ Life(s)!HasWorker /\ ~Life(s)!Unstarted')
      BY <1>1, <2>1 DEF Life!Start, LifeInv, Life!WorkInv, Life!RunInv, Life!Unstarted
    <2>3. QED
      BY <2>1, <2>2 DEF LifeInv, Life!WorkInv
  <1>2. CASE Life(s)!CloseEnds
    <2>1. /\ UNCHANGED <<handler, worker, left, Life(s)!Unstarted>>
          /\ closed' = closed \cup {Life(s)!CloseOrder[step]}
      BY <1>2 DEF Life!CloseEnds, Life!work, Life!Unstarted
    <2>2. Life(s)!HasHandlers /\ Life(s)!CloseOrder[step] = Life(s)!Server =>
            \A h \in Requests : handler[h] = "idle"
      <3>1. CASE s = "auth"
        <4>1. Life(s)!Drained("grpc") => \A h \in Requests : handler[h] = "idle"
          BY Zenon DEF Life!Drained
        <4>2. QED
          BY <1>2, <3>1, <4>1 DEF Life!CloseEnds, Life!Server
      <3>2. CASE s = "vk"
        BY <1>2, <3>2 DEF Life!CloseEnds, LifeInv, Life!WorkInv
      <3>3. QED
        BY <3>1, <3>2 DEF Life!HasHandlers
    <2>4. phase' = "running" \/ phase = phase'
      BY <1>2 DEF Life!CloseEnds
    <2>3. QED
      BY <2>1, <2>2, <2>4 DEF LifeInv, Life!WorkInv
  <1>3. CASE \/ Life(s)!Setup \/ Life(s)!SetupFails \/ Life(s)!Signal \/ Life(s)!RunStops
             \/ Life(s)!NotifyError \/ Life(s)!CloseBegins \/ Life(s)!Return
             \/ Life(s)!WorkerPanics
    <2>1. UNCHANGED <<handler, worker, left, closed>>
      BY <1>3 DEF Life!Setup, Life!SetupFails, Life!Signal, Life!RunStops,
         Life!NotifyError, Life!CloseBegins, Life!Return,
         Life!WorkerPanics, Life!BeginClose, Life!process, Life!work
    <2>4. s = "vk" /\ phase' # "running" => \A h \in Requests : handler[h] = "idle"
      BY <1>3 DEF Life!Setup, Life!SetupFails, Life!Signal, Life!RunStops,
         Life!NotifyError, Life!CloseBegins, Life!Return,
         Life!WorkerPanics, Life!BeginClose, Life!process, Life!Unstarted, LifeInv,
         Life!WorkInv, Life!HasWorker
    <2>2. Life(s)!Unstarted' => Life(s)!Unstarted
      BY <1>3 DEF Life!Setup, Life!SetupFails, Life!Signal, Life!RunStops,
         Life!NotifyError, Life!CloseBegins, Life!Return,
         Life!WorkerPanics, Life!BeginClose, Life!process, Life!Unstarted
    <2>3. QED
      BY <2>1, <2>2, <2>4 DEF LifeInv, Life!WorkInv
  <1>4. QED
    BY <1>1, <1>2, <1>3 DEF LifeStep

LEMMA LifeStarts ==
  ASSUME NEW s \in Services, Life(s)!Init
  PROVE  LifeInv(s)
  <1>1. Len(Life(s)!SetupOrder) \in Nat \ {0} /\ Served \in Nat /\ BatchSize \in Nat
    BY Orders, LifeBounds
  <1>2. Life(s)!TypeOK
    <2>1. step \in 1..(Len(Life(s)!SetupOrder) + 1) /\ left \in 0..BatchSize
      BY <1>1 DEF Life!Init
    <2>2. 0 \in 0..Served
      BY <1>1
    <2>3. /\ handler \in [Requests -> {"idle", "active", "db"}]
          /\ served \in [Requests -> 0..Served]
      BY <2>2 DEF Life!Init
    <2>4. QED
      BY <2>1, <2>3 DEF Life!Init, Life!TypeOK
  <1>3. Life(s)!CloseInv /\ Life(s)!WorkInv
    BY DEF Life!Init, Life!CloseInv, Life!WorkInv
  <1>4. Life(s)!RunInv
    BY <1>1 DEF Life!Init, Life!RunInv
  <1>5. QED
    BY <1>2, <1>3, <1>4 DEF LifeInv

LEMMA LifeSteps ==
  ASSUME NEW s \in Services, LifeInv(s), [Life(s)!Next]_(Life(s)!vars)
  PROVE  LifeInv(s)'
  <1>1. CASE LifeStep(s)
    BY <1>1, LifeKeepsTypes, LifeKeepsRunInv, LifeKeepsCloseInv, LifeKeepsWorkInv DEF
       LifeInv
  <1>2. CASE Life(s)!Next /\ ~LifeStep(s)
    <2>1. UNCHANGED Life(s)!process
      BY <1>2 DEF Life!Next, LifeStep, Life!Main, Life!Worker, Life!WorkerClaims,
         Life!WorkerStops, Life!WorkerClaimed, Life!WorkerPublishes,
         Life!WorkerPublished, Life!WorkerMarks, Life!WorkerMarked, Life!HandlerBegins,
         Life!HandlerSteps
    <2>2. \/ \E h \in Requests : Life(s)!HandlerBegins(h) \/ Life(s)!HandlerSteps(h)
          \/ Life(s)!Worker \/ Life(s)!WorkerClaims
      BY <1>2 DEF Life!Next, LifeStep, Life!Main
    <2>3. Life(s)!CloseInv' /\ Life(s)!RunInv'
      BY <2>1 DEF LifeInv, Life!CloseInv, Life!RunInv, Life!Passed, Life!process
    <2>4. QED
      BY <2>1, <2>2, <2>3, WorkKeepsTypes, WorkKeepsWorkInv DEF LifeInv
  <1>3. CASE UNCHANGED Life(s)!vars
    BY <1>3 DEF Life!vars, Life!process, Life!work, LifeInv, Life!TypeOK, Life!CloseInv,
       Life!RunInv, Life!WorkInv, Life!Passed, Life!Unstarted
  <1>4. QED
    BY <1>1, <1>2, <1>3

LEMMA LifeIsOrderly ==
  ASSUME NEW s \in Services, LifeInv(s)
  PROVE  /\ Life(s)!HandlersKeepTheirPool /\ Life(s)!NothingIsLeftOpen
         /\ s \in {"auth", "outbox"} => Life(s)!PanicHurtsNobody
  <1>1. ASSUME NEW r \in {"postgres", "publisher"}, r \in refusing
        PROVE  \A h \in Requests : handler[h] = "idle"
    <2>1. CASE Life(s)!Unstarted \/ ~Life(s)!HasHandlers
      BY <2>1 DEF LifeInv, Life!WorkInv
    <2>2. CASE ~Life(s)!Unstarted /\ Life(s)!HasHandlers
      <3>1. /\ step \in 1..(Len(Life(s)!CloseOrder) + 1) /\ closed = built \cap Life(s)!Passed
            /\ r \in closed \/ (step <= Len(Life(s)!CloseOrder) /\ r = Life(s)!CloseOrder[step])
            /\ built = Life(s)!Resources(Life(s)!SetupOrder) \ Life(s)!Disabled
        BY <1>1, <2>2 DEF LifeInv, Life!CloseInv, Life!RunInv, Life!Unstarted, Life!TypeOK
      <3>2. Life(s)!Server \in built /\ Life(s)!Server \in Life(s)!Resources(Life(s)!CloseOrder)
        BY <2>2, <3>1, Orders
      <3>3. PICK i \in 1..Len(Life(s)!CloseOrder) : Life(s)!Server = Life(s)!CloseOrder[i]
        BY <3>2 DEF Life!Resources
      <3>4. PICK j \in 1..Len(Life(s)!CloseOrder) : r = Life(s)!CloseOrder[j] /\ j <= step
        BY <3>1, Orders DEF Life!Passed
      <3>5. i < j
        BY <1>1, <2>2, <3>3, <3>4, Orders
      <3>6. Life(s)!Server \in closed
        BY <3>1, <3>2, <3>3, <3>4, <3>5 DEF Life!Passed
      <3>7. QED
        BY <3>6 DEF LifeInv, Life!WorkInv
    <2>3. QED
      BY <2>1, <2>2
  <1>2. Life(s)!HandlersKeepTheirPool
    BY <1>1 DEF Life!HandlersKeepTheirPool
  <1>3. Life(s)!NothingIsLeftOpen
    <2>1. SUFFICES ASSUME phase = "returned", why # "start" PROVE closed = built
      BY DEF Life!NothingIsLeftOpen
    <2>2. /\ step > Len(Life(s)!CloseOrder) /\ step \in 1..(Len(Life(s)!CloseOrder) + 1)
          /\ closed = built \cap Life(s)!Passed
      BY <2>1 DEF LifeInv, Life!RunInv, Life!CloseInv
    <2>3. Life(s)!Passed = Life(s)!Resources(Life(s)!CloseOrder)
      BY <2>2, Orders DEF Life!Passed, Life!Resources
    <2>4. QED
      BY <2>2, <2>3, Orders DEF LifeInv, Life!TypeOK
  <1>4. Life(s)!PanicHurtsNobody
    BY <1>1 DEF Life!PanicHurtsNobody, LifeInv, Life!RunInv, Life!TypeOK
  <1>5. QED
    BY <1>2, <1>3, <1>4

ServicesInv == \A s \in Services : part = s => LifeInv(s)

\* Requests and messages end before their pool closes, a New that fails and a
\* Run that has served close all that setup built, and a worker that finds its
\* producer closed takes no request with it.
THEOREM ServicesAreOrderly == ProcessSpec => []ServicesCloseInOrder
  <1>1. ProcessInit => ServicesInv
    <2> SUFFICES ASSUME ProcessInit, NEW s \in Services PROVE LifeInv(s)
      BY DEF ServicesInv
    <2>1. Life(s)!Init
      BY Zenon DEF ProcessInit
    <2>2. QED
      BY <2>1, LifeStarts
  <1>2. ServicesInv /\ [ProcessNext]_<<vars, part, service, rpc, encoder, trace>> => ServicesInv'
    <2> SUFFICES ASSUME ServicesInv, [ProcessNext]_<<vars, part, service, rpc, encoder, trace>>,
                        NEW s \in Services, part = s
                 PROVE  LifeInv(s)'
      BY DEF ServicesInv, ProcessNext
    <2>1. LifeInv(s)
      BY DEF ServicesInv
    <2>2. UNCHANGED service => UNCHANGED Life(s)!vars
      BY DEF service, Life!vars, Life!process, Life!work
    <2>3. ServiceNext \/ UNCHANGED service
      BY DEF ProcessNext
    <2>4. ServiceNext => Life(s)!Next
      BY DEF ServiceNext
    <2>5. QED
      BY <2>1, <2>2, <2>3, <2>4, LifeSteps
  <1>3. ServicesInv => ServicesCloseInOrder
    BY LifeIsOrderly DEF ServicesInv, ServicesCloseInOrder, LifeInv
  <1>4. QED
    BY <1>1, <1>2, <1>3, PTL DEF ProcessSpec

-----------------------------------------------------------------------------
(* The calls of the auth service (AuthRpc).                                 *)

\* The codes of the errors an application may meet.
LEMMA CodeOf ==
  ASSUME NEW p \in Rpcs
  PROVE  /\ \A err \in Rpc(p)!Required : Rpc(p)!MapAppError(err) = "InvalidArgument"
         /\ Rpc(p)!MapAppError("nil") = "OK"
         /\ Rpc(p)!MapAppError("ErrInvalidCredentials") = "Unauthenticated"
         /\ Rpc(p)!MapAppError("ErrUserAlreadyExists") = "AlreadyExists"
         /\ Rpc(p)!MapAppError("ErrUnsupportedAuthState") = "FailedPrecondition"
         /\ Rpc(p)!MapAppError("ErrYandexProfileIncomplete") = "FailedPrecondition"
         /\ Rpc(p)!MapAppError("ErrNotFound") = "NotFound"
         /\ Rpc(p)!MapAppError("ErrPasswordTooLong") = "Internal"
         /\ Rpc(p)!MapAppError("other") = "Internal"
  BY Zenon DEF Rpc!MapAppError, Rpc!Required

LEMMA LeastOf ==
  ASSUME NEW S \in SUBSET (1..5), S # {}
  PROVE  \E i \in S : \A j \in S : i <= j
  <1>1. CASE 1 \in S
    BY <1>1
  <1>2. CASE 1 \notin S /\ 2 \in S
    BY <1>2
  <1>3. CASE 1 \notin S /\ 2 \notin S /\ 3 \in S
    BY <1>3
  <1>4. CASE 1 \notin S /\ 2 \notin S /\ 3 \notin S /\ 4 \in S
    BY <1>4
  <1>5. CASE 1 \notin S /\ 2 \notin S /\ 3 \notin S /\ 4 \notin S
    <2>1. ASSUME NEW j \in S PROVE j = 5
      <3>1. j \in 1..5 /\ j # 1 /\ j # 2 /\ j # 3 /\ j # 4
        BY <1>5
      <3>2. QED
        BY <3>1
    <2>2. \A i, j \in S : i <= j
      <3>1. 5 <= 5
        OBVIOUS
      <3>2. QED
        BY <2>1, <3>1
    <2>3. QED
      BY <2>2
  <1>6. QED
    BY <1>1, <1>2, <1>3, <1>4, <1>5

\* An input is refused when a field is blank, and only then.
LEMMA FirstBlankOf ==
  ASSUME NEW p \in Rpcs, NEW f, NEW checks, NEW n \in 1..5, DOMAIN checks = 1..n,
         \A i \in 1..n : checks[i][2] \in Rpc(p)!Required
  PROVE  /\ Rpc(p)!FirstBlank(f, checks) \in Rpc(p)!Required \cup {"nil"}
         /\ Rpc(p)!FirstBlank(f, checks) = "nil" <=>
              \A i \in 1..n : ~Rpc(p)!Blank(f, checks[i][1])
  <1> DEFINE blank == {i \in DOMAIN checks : Rpc(p)!Blank(f, checks[i][1])}
             first == CHOOSE i \in blank : \A j \in blank : i <= j
  <1>1. Rpc(p)!FirstBlank(f, checks) = IF blank = {} THEN "nil" ELSE checks[first][2]
    BY DEF Rpc!FirstBlank
  <1>2. "nil" \notin Rpc(p)!Required
    BY DEF Rpc!Required
  <1>3. ASSUME blank # {} PROVE first \in 1..n
    <2>1. blank \in SUBSET (1..5)
      OBVIOUS
    <2>2. \E i \in blank : \A j \in blank : i <= j
      BY <2>1, <1>3, LeastOf
    <2>3. first \in blank
      BY <2>2
    <2>4. QED
      BY <2>3
  <1>4. blank = {} <=> \A i \in 1..n : ~Rpc(p)!Blank(f, checks[i][1])
    OBVIOUS
  <1> HIDE DEF blank, first
  <1>5. QED
    BY <1>1, <1>2, <1>3, <1>4

\* The fields of each request and the checks of the application.
LEMMA InputChecks ==
  ASSUME NEW p \in Rpcs, NEW f
  PROVE  /\ Rpc(p)!ValidateRegisterInput(f) \in Rpc(p)!Required \cup {"nil"}
         /\ Rpc(p)!ValidateRegisterInput(f) = "nil" <=>
              \A x \in Rpc(p)!FieldsOf("Register") : ~Rpc(p)!Blank(f, x)
         /\ Rpc(p)!ValidateLoginInput(f) \in Rpc(p)!Required \cup {"nil"}
         /\ Rpc(p)!ValidateLoginInput(f) = "nil" <=>
              \A x \in Rpc(p)!FieldsOf("Login") : ~Rpc(p)!Blank(f, x)
         /\ Rpc(p)!ValidateYandexInput(f) \in Rpc(p)!Required \cup {"nil"}
         /\ Rpc(p)!ValidateYandexInput(f) = "nil" <=>
              \A x \in Rpc(p)!FieldsOf("CompleteYandexLogin") : ~Rpc(p)!Blank(f, x)
         /\ Rpc(p)!FieldsOf("GetYandexAuthURL") = {}
  <1>1. /\ Rpc(p)!FieldsOf("Register") =
             {"Login", "Email", "Password", "FirstName", "LastName"}
        /\ Rpc(p)!FieldsOf("Login") = {"Identifier", "Password"}
        /\ Rpc(p)!FieldsOf("CompleteYandexLogin") = {"Code", "State"}
        /\ Rpc(p)!FieldsOf("GetYandexAuthURL") = {}
    BY DEF Rpc!FieldsOf, Rpc!Good
  <1>2. /\ Rpc(p)!ValidateRegisterInput(f) \in Rpc(p)!Required \cup {"nil"}
        /\ Rpc(p)!ValidateRegisterInput(f) = "nil" <=>
             \A x \in {"Login", "Email", "Password", "FirstName", "LastName"} : ~Rpc(p)!Blank(f, x)
    <2> DEFINE checks == <<<<"Login", "ErrLoginRequired">>, <<"Email", "ErrEmailRequired">>,
                  <<"Password", "ErrPasswordRequired">>, <<"FirstName", "ErrFirstNameRequired">>,
                  <<"LastName", "ErrLastNameRequired">>>>
    <2>1. /\ DOMAIN checks = 1..5
          /\ \A i \in 1..5 : checks[i][2] \in Rpc(p)!Required
          /\ {checks[i][1] : i \in 1..5} = {"Login", "Email", "Password", "FirstName", "LastName"}
      BY DEF Rpc!Required
    <2>2. Rpc(p)!ValidateRegisterInput(f) = Rpc(p)!FirstBlank(f, checks)
      BY DEF Rpc!ValidateRegisterInput
    <2> HIDE DEF checks
    <2>3. QED
      BY <2>1, <2>2, FirstBlankOf
  <1>3. /\ Rpc(p)!ValidateLoginInput(f) \in Rpc(p)!Required \cup {"nil"}
        /\ Rpc(p)!ValidateLoginInput(f) = "nil" <=>
             \A x \in {"Identifier", "Password"} : ~Rpc(p)!Blank(f, x)
    <2> DEFINE checks == <<<<"Identifier", "ErrIdentifierRequired">>,
                           <<"Password", "ErrPasswordRequired">>>>
    <2>1. /\ DOMAIN checks = 1..2
          /\ \A i \in 1..2 : checks[i][2] \in Rpc(p)!Required
          /\ {checks[i][1] : i \in 1..2} = {"Identifier", "Password"}
      BY DEF Rpc!Required
    <2>2. Rpc(p)!ValidateLoginInput(f) = Rpc(p)!FirstBlank(f, checks)
      BY DEF Rpc!ValidateLoginInput
    <2> HIDE DEF checks
    <2>3. QED
      BY <2>1, <2>2, FirstBlankOf
  <1>4. /\ Rpc(p)!ValidateYandexInput(f) \in Rpc(p)!Required \cup {"nil"}
        /\ Rpc(p)!ValidateYandexInput(f) = "nil" <=>
             \A x \in {"Code", "State"} : ~Rpc(p)!Blank(f, x)
    <2> DEFINE checks == <<<<"Code", "ErrYandexCodeRequired">>,
                           <<"State", "ErrYandexStateRequired">>>>
    <2>1. /\ DOMAIN checks = 1..2
          /\ \A i \in 1..2 : checks[i][2] \in Rpc(p)!Required
          /\ {checks[i][1] : i \in 1..2} = {"Code", "State"}
      BY DEF Rpc!Required
    <2>2. Rpc(p)!ValidateYandexInput(f) = Rpc(p)!FirstBlank(f, checks)
      BY DEF Rpc!ValidateYandexInput
    <2> HIDE DEF checks
    <2>3. QED
      BY <2>1, <2>2, FirstBlankOf
  <1>5. QED
    BY <1>1, <1>2, <1>3, <1>4

\* What Receive takes is a request whose fields are good or odd, and a text of
\* any of them is padded wholly or not at all.
LEMMA Requested ==
  ASSUME NEW p \in Rpcs, NEW m \in RpcMethods(p), NEW f \in Rpc(p)!RequestsOf(m)
  PROVE  \A x \in Rpc(p)!FieldsOf(m) :
           f[x] \in Rpc(p)!OddValues(x) \cup {Rpc(p)!Good[m][x]}
  <1>1. PICK odd \in SUBSET Rpc(p)!FieldsOf(m) :
          \E v \in [odd -> UNION {Rpc(p)!OddValues(x) : x \in odd}] :
            /\ \A x \in odd : v[x] \in Rpc(p)!OddValues(x)
            /\ f = [x \in Rpc(p)!FieldsOf(m) |-> IF x \in odd THEN v[x] ELSE Rpc(p)!Good[m][x]]
    BY DEF Rpc!RequestsOf
  <1>2. QED
    BY <1>1

LEMMA RegisterTexts ==
  ASSUME NEW p \in Rpcs, NEW f, NEW x \in {"Login", "Password", "FirstName", "LastName"},
         f[x] \in Rpc(p)!OddValues(x) \cup {Rpc(p)!Good["Register"][x]}
  PROVE  f[x].runes \in Nat /\ f[x].pad \in {0, f[x].runes}
  <1>1. RpcLengths(p) \subseteq Nat
    BY RpcAssumption DEF Rpc!AuthRpcAssumption
  <1>2. Rpc(p)!Good["Register"][x] \in {Rpc(p)!Text(5, 1, 0), Rpc(p)!Text(12, 1, 0)}
    BY DEF Rpc!Good
  <1>3. Rpc(p)!OddValues(x) = Rpc(p)!Texts
    BY DEF Rpc!OddValues
  <1>4. ASSUME NEW n \in Nat, NEW w \in Nat, NEW k \in Nat, f[x] = Rpc(p)!Text(n, w, k)
        PROVE  f[x].runes = n /\ f[x].pad = k
    BY <1>4 DEF Rpc!Text
  <1>5. CASE f[x] \in Rpc(p)!Texts
    <2>1. PICK n \in Nat : f[x] \in {Rpc(p)!Text(n, 1, 0), Rpc(p)!Text(n, 2, 0), Rpc(p)!Text(n, 1, n)}
      BY <1>1, <1>5 DEF Rpc!Texts
    <2>2. QED
      BY <2>1, <1>4
  <1>6. CASE f[x] = Rpc(p)!Good["Register"][x]
    <2>1. f[x] \in {Rpc(p)!Text(5, 1, 0), Rpc(p)!Text(12, 1, 0)}
      BY <1>2, <1>6
    <2>2. QED
      BY <2>1 DEF Rpc!Text
  <1>7. QED
    BY <1>3, <1>5, <1>6

\* A registration that passed both checks stores texts that fit.
LEMMA Fits ==
  ASSUME NEW p \in Rpcs, NEW f,
         \A x \in Rpc(p)!FieldsOf("Register") :
           f[x] \in Rpc(p)!OddValues(x) \cup {Rpc(p)!Good["Register"][x]},
         Rpc(p)!ValidateAll("Register", f) = {}, Rpc(p)!ValidateRegisterInput(f) = "nil"
  PROVE  LET a == Rpc(p)!Account(f)
         IN /\ a.Login \in 1..64 /\ a.Email \in 1..254
            /\ a.FirstName \in 1..128 /\ a.LastName \in 1..128
            /\ f.Password.runes \in 8..128
  <1>1. Rpc(p)!FieldsOf("Register") = {"Login", "Email", "Password", "FirstName", "LastName"}
    BY DEF Rpc!FieldsOf, Rpc!Good
  <1>2. \A rule \in Rpc(p)!RegisterRules : Rpc(p)!Holds(rule, f)
    BY DEF Rpc!ValidateAll, Rpc!Rules
  <1>3. /\ Rpc(p)!RunesOf(f, "Login") \in 1..64 /\ Rpc(p)!RunesOf(f, "Email") \in 1..254
        /\ Rpc(p)!RunesOf(f, "Password") \in 8..128
        /\ Rpc(p)!RunesOf(f, "FirstName") \in 1..128 /\ Rpc(p)!RunesOf(f, "LastName") \in 1..128
    <2>1. /\ Rpc(p)!Between("Login", 1, 64) \in Rpc(p)!RegisterRules
          /\ Rpc(p)!Between("Email", 1, 254) \in Rpc(p)!RegisterRules
          /\ Rpc(p)!Between("Password", 8, 128) \in Rpc(p)!RegisterRules
          /\ Rpc(p)!Between("FirstName", 1, 128) \in Rpc(p)!RegisterRules
          /\ Rpc(p)!Between("LastName", 1, 128) \in Rpc(p)!RegisterRules
      BY DEF Rpc!RegisterRules
    <2>2. /\ Rpc(p)!Holds(Rpc(p)!Between("Login", 1, 64), f)
          /\ Rpc(p)!Holds(Rpc(p)!Between("Email", 1, 254), f)
          /\ Rpc(p)!Holds(Rpc(p)!Between("Password", 8, 128), f)
          /\ Rpc(p)!Holds(Rpc(p)!Between("FirstName", 1, 128), f)
          /\ Rpc(p)!Holds(Rpc(p)!Between("LastName", 1, 128), f)
      BY <1>2, <2>1
    <2>3. QED
      BY <2>2 DEF Rpc!Holds, Rpc!Between
  <1>4. ASSUME NEW x \in {"Login", "FirstName", "LastName"}
        PROVE  /\ Rpc(p)!RunesOf(f, x) \in Nat /\ Rpc(p)!Trimmed(f[x]) \in Nat
               /\ 1 <= Rpc(p)!Trimmed(f[x]) /\ Rpc(p)!Trimmed(f[x]) <= Rpc(p)!RunesOf(f, x)
    <2>1. f[x].runes = Rpc(p)!RunesOf(f, x)
      BY DEF Rpc!RunesOf
    <2>2. f[x].runes \in Nat /\ f[x].pad \in {0, f[x].runes}
      BY <1>1, RegisterTexts
    <2>3. Rpc(p)!Trimmed(f[x]) # 0
      BY <1>1, InputChecks DEF Rpc!Blank
    <2>4. QED
      BY <2>1, <2>2, <2>3 DEF Rpc!Trimmed
  <1>5. /\ Rpc(p)!Trimmed(f["Login"]) \in 1..64
        /\ Rpc(p)!Trimmed(f["FirstName"]) \in 1..128 /\ Rpc(p)!Trimmed(f["LastName"]) \in 1..128
    BY <1>3, <1>4
  <1>6. /\ Rpc(p)!Account(f).Login = Rpc(p)!Trimmed(f["Login"])
        /\ Rpc(p)!Account(f).FirstName = Rpc(p)!Trimmed(f["FirstName"])
        /\ Rpc(p)!Account(f).LastName = Rpc(p)!Trimmed(f["LastName"])
        /\ Rpc(p)!Account(f).Email = Rpc(p)!RunesOf(f, "Email")
    BY DEF Rpc!Account, Rpc!RunesOf
  <1>7. f.Password.runes = Rpc(p)!RunesOf(f, "Password")
    BY DEF Rpc!RunesOf
  <1>8. QED
    BY <1>3, <1>5, <1>6, <1>7

RpcInv(p) ==
  /\ Rpc(p)!TypeOK /\ Rpc(p)!CallInv /\ Rpc(p)!CountInv
  /\ Rpc(p)!CodeTellsOfAccount /\ Rpc(p)!InvalidMeansInvalid

\* Sets are counted as everywhere.
LEMMA SameCount ==
  ASSUME NEW p \in Rpcs, NEW S
  PROVE  /\ Rpc(p)!IsFiniteSet(S) <=> IsFiniteSet(S)
         /\ Rpc(p)!Cardinality(S) = Cardinality(S)
  <1>1. Rpc(p)!IsFiniteSet(S) <=> IsFiniteSet(S)
    BY Zenon DEF Rpc!IsFiniteSet, IsFiniteSet
  <1>2. Rpc(p)!Cardinality(S) = Cardinality(S)
    BY Zenon DEF Rpc!Cardinality, Cardinality
  <1>3. QED
    BY <1>1, <1>2

\* The calls a collector has counted are a finite set.
LEMMA CallSets ==
  ASSUME NEW p \in Rpcs, NEW S \in SUBSET RpcCalls(p)
  PROVE  IsFiniteSet(S) /\ Cardinality(S) \in 0..Cardinality(RpcCalls(p))
  <1>1. IsFiniteSet(RpcCalls(p))
    <2>1. Rpc(p)!IsFiniteSet(RpcCalls(p))
      BY RpcAssumption DEF Rpc!AuthRpcAssumption
    <2>2. QED
      BY <2>1, SameCount
  <1>2. IsFiniteSet(S) /\ Cardinality(S) <= Cardinality(RpcCalls(p))
    BY <1>1, FS_Subset
  <1>3. Cardinality(S) \in Nat /\ Cardinality(RpcCalls(p)) \in Nat
    BY <1>1, <1>2, FS_CardinalityType
  <1>4. QED
    BY <1>2, <1>3

\* A call that ends is counted once, by its code, in the registered collector.
LEMMA FinishCounts ==
  ASSUME NEW p \in Rpcs, RpcInv(p), NEW c \in RpcCalls(p), NEW k \in Rpc(p)!Codes,
         rpcPhase[c] \in {"received", "handler"}, Rpc(p)!Finish(c, k)
  PROVE  /\ Rpc(p)!CountInv'
         /\ count' \in [RpcInterceptors(p) -> [Rpc(p)!Codes -> 0..Cardinality(RpcCalls(p))]]
  <1> DEFINE Told(j) == {d \in RpcCalls(p) : code[d] = j}
             Now(j) == {d \in RpcCalls(p) : code'[d] = j}
  <1>0. count \in [RpcInterceptors(p) -> [Rpc(p)!Codes -> 0..Cardinality(RpcCalls(p))]]
    BY SameCount DEF RpcInv, Rpc!TypeOK
  <1>1. /\ registry \in RpcInterceptors(p) /\ collector[via[c]] = registry
        /\ code[c] = "none" /\ code \in [RpcCalls(p) -> Rpc(p)!Codes \cup {"none"}]
    BY DEF RpcInv, Rpc!TypeOK, Rpc!CallInv, Rpc!CountInv, Rpc!None
  <1>2. /\ count' = [count EXCEPT ![registry][k] = count[registry][k] + 1]
        /\ code' = [code EXCEPT ![c] = k]
        /\ registry' = registry /\ collector' = collector
    BY <1>1 DEF Rpc!Finish
  <1>3. "none" \notin Rpc(p)!Codes
    BY DEF Rpc!Codes
  <1>4. Now(k) = Told(k) \cup {c} /\ c \notin Told(k)
    BY <1>1, <1>2, <1>3
  <1>5. \A j \in Rpc(p)!Codes : j # k => Now(j) = Told(j)
    BY <1>1, <1>2, <1>3
  <1>6. Cardinality(Now(k)) = Cardinality(Told(k)) + 1
    <2>1. Told(k) \in SUBSET RpcCalls(p)
      OBVIOUS
    <2>2. IsFiniteSet(Told(k))
      BY <2>1, CallSets
    <2> HIDE DEF Told, Now
    <2>3. QED
      BY <1>4, <2>2, FS_AddElement
  <1>7. \A j \in Rpc(p)!Codes : Cardinality(Now(j)) \in 0..Cardinality(RpcCalls(p))
    <2>1. \A j \in Rpc(p)!Codes : Now(j) \in SUBSET RpcCalls(p)
      OBVIOUS
    <2> HIDE DEF Now
    <2>2. QED
      BY <2>1, CallSets
  <1>8. \A i \in RpcInterceptors(p), j \in Rpc(p)!Codes :
           count[i][j] = IF i = registry THEN Cardinality(Told(j)) ELSE 0
    BY SameCount DEF RpcInv, Rpc!CountInv
  <1>9. \A i \in RpcInterceptors(p) : collector[i] \in {"none", registry}
    BY DEF RpcInv, Rpc!CountInv, Rpc!None
  <1> HIDE DEF Told, Now
  <1>10. \A i \in RpcInterceptors(p), j \in Rpc(p)!Codes :
            count'[i][j] = IF i = registry THEN Cardinality(Now(j)) ELSE 0
    BY <1>0, <1>1, <1>2, <1>5, <1>6, <1>8
  <1>11. 0 \in 0..Cardinality(RpcCalls(p))
    <2>1. {} \in SUBSET RpcCalls(p) /\ Cardinality({}) = 0
      BY FS_EmptySet
    <2>2. QED
      BY <2>1, CallSets
  <1>12. count' \in [RpcInterceptors(p) -> [Rpc(p)!Codes -> 0..Cardinality(RpcCalls(p))]]
    <2>1. \A i \in RpcInterceptors(p), j \in Rpc(p)!Codes :
             count'[i][j] \in 0..Cardinality(RpcCalls(p))
      BY <1>7, <1>10, <1>11
    <2>2. /\ DOMAIN count' = RpcInterceptors(p)
          /\ \A i \in RpcInterceptors(p) : count'[i] = [j \in Rpc(p)!Codes |-> count'[i][j]]
      BY <1>0, <1>1, <1>2
    <2>3. \A i \in RpcInterceptors(p) :
             count'[i] \in [Rpc(p)!Codes -> 0..Cardinality(RpcCalls(p))]
      BY <2>1, <2>2
    <2>4. count' = [i \in RpcInterceptors(p) |-> count'[i]]
      BY <1>0, <1>1, <1>2
    <2>5. QED
      BY <2>3, <2>4
  <1>13. Rpc(p)!CountInv'
    BY <1>2, <1>9, <1>10, SameCount DEF Rpc!CountInv, Rpc!None, Now
  <1>14. QED
    BY <1>12, <1>13

\* A call that ends, with a code that fits its request and its account.
LEMMA CallEnds ==
  ASSUME NEW p \in Rpcs, RpcInv(p), NEW c \in RpcCalls(p), NEW k \in Rpc(p)!Codes,
         rpcPhase[c] \in {"received", "handler"}, Rpc(p)!Finish(c, k),
         \/ stored' = stored
         \/ /\ stored' = [stored EXCEPT ![c] = Rpc(p)!Account(fields[c])]
            /\ method[c] = "Register" /\ Rpc(p)!ValidateAll("Register", fields[c]) = {}
            /\ Rpc(p)!ValidateRegisterInput(fields[c]) = "nil",
         method[c] = "Register" =>
            /\ k = "OK" => stored' # stored
            /\ k \notin {"OK", "Internal"} => stored' = stored,
         k = "InvalidArgument" <=>
            \/ Rpc(p)!ValidateAll(method[c], fields[c]) # {}
            \/ \E x \in Rpc(p)!FieldsOf(method[c]) : Rpc(p)!Blank(fields[c], x)
  PROVE  RpcInv(p)'
  <1> DEFINE acc == Rpc(p)!Account(fields[c])
  <1>1. Rpc(p)!CountInv' /\ count' \in [RpcInterceptors(p) -> [Rpc(p)!Codes -> 0..Cardinality(RpcCalls(p))]]
    BY FinishCounts
  <1>2. /\ code' = [code EXCEPT ![c] = k] /\ rpcPhase' = [rpcPhase EXCEPT ![c] = "done"]
        /\ UNCHANGED <<via, method, fields, registry, collector>>
    BY DEF Rpc!Finish
  <1>3. k # "none" /\ stored[c] = Rpc(p)!NoAccount
    BY DEF RpcInv, Rpc!CallInv, Rpc!Codes
  <1>4. DOMAIN stored = RpcCalls(p) /\ DOMAIN stored' = RpcCalls(p)
    BY DEF RpcInv, Rpc!TypeOK
  <1>5. DOMAIN acc = {"Login", "Email", "FirstName", "LastName"} /\ DOMAIN Rpc(p)!NoAccount = {}
    BY DEF Rpc!Account, Rpc!NoAccount
  <1>6. acc # Rpc(p)!NoAccount
    BY <1>5
  <1>7. /\ \A d \in RpcCalls(p) \ {c} : stored'[d] = stored[d]
        /\ stored'[c] = stored[c] \/ stored'[c] = acc
        /\ stored'[c] = acc <=> stored' # stored
    BY <1>3, <1>4, <1>6
  <1> HIDE DEF acc
  <1>8. Rpc(p)!TypeOK'
    <2>1. \A d \in RpcCalls(p) :
            DOMAIN stored'[d] \in {{}, {"Login", "Email", "FirstName", "LastName"}}
      BY <1>5, <1>7 DEF RpcInv, Rpc!TypeOK
    <2>2. Rpc(p)!Cardinality(RpcCalls(p)) = Cardinality(RpcCalls(p))
      BY SameCount
    <2>3. QED
      BY <1>1, <1>2, <1>4, <2>1, <2>2 DEF RpcInv, Rpc!TypeOK
  <1>9. Rpc(p)!CallInv'
    <2> SUFFICES ASSUME NEW d \in RpcCalls(p)
                 PROVE  /\ rpcPhase'[d] # "idle" =>
                             /\ method'[d] \in RpcMethods(p)
                             /\ \A x \in Rpc(p)!FieldsOf(method'[d]) :
                                  fields'[d][x] \in Rpc(p)!OddValues(x) \cup {Rpc(p)!Good[method'[d]][x]}
                             /\ via'[d] \in RpcInterceptors(p) /\ collector'[via'[d]] # "none"
                        /\ rpcPhase'[d] = "handler" =>
                             Rpc(p)!ValidateAll(method'[d], fields'[d]) = {}
                        /\ rpcPhase'[d] = "done" <=> code'[d] # "none"
                        /\ stored'[d] = Rpc(p)!NoAccount \/
                             /\ rpcPhase'[d] = "done" /\ method'[d] = "Register"
                             /\ stored'[d] = Rpc(p)!Account(fields'[d])
                             /\ Rpc(p)!ValidateAll("Register", fields'[d]) = {}
                             /\ Rpc(p)!ValidateRegisterInput(fields'[d]) = "nil"
      BY DEF Rpc!CallInv, Rpc!None
    <2>1. CASE d = c
      BY <2>1, <1>2, <1>3, <1>7 DEF RpcInv, Rpc!CallInv, Rpc!TypeOK, Rpc!None, acc
    <2>2. CASE d # c
      BY <2>2, <1>2, <1>7 DEF RpcInv, Rpc!CallInv, Rpc!TypeOK, Rpc!None
    <2>3. QED
      BY <2>1, <2>2
  <1>10. Rpc(p)!CodeTellsOfAccount'
    BY <1>2, <1>3, <1>5, <1>7 DEF RpcInv, Rpc!CodeTellsOfAccount, Rpc!Created, Rpc!TypeOK
  <1>11. Rpc(p)!InvalidMeansInvalid'
    BY <1>2 DEF RpcInv, Rpc!InvalidMeansInvalid, Rpc!TypeOK
  <1>12. QED
    BY <1>1, <1>8, <1>9, <1>10, <1>11 DEF RpcInv

\* The handlers answer with the code of the error they met.
LEMMA HandlersAnswer ==
  ASSUME NEW p \in Rpcs, RpcInv(p), NEW c \in RpcCalls(p),
         \/ Rpc(p)!RegisterFails(c) \/ Rpc(p)!RegisterCommits(c)
         \/ Rpc(p)!Login(c) \/ Rpc(p)!GetYandexAuthURL(c) \/ Rpc(p)!CompleteYandexLogin(c)
  PROVE  RpcInv(p)'
  <1>1. rpcPhase[c] = "handler" /\ Rpc(p)!ValidateAll(method[c], fields[c]) = {}
    BY DEF RpcInv, Rpc!CallInv, Rpc!RegisterFails, Rpc!RegisterCommits, Rpc!Login,
           Rpc!GetYandexAuthURL, Rpc!CompleteYandexLogin, Rpc!Serving
  <1> DEFINE blank == \E x \in Rpc(p)!FieldsOf(method[c]) : Rpc(p)!Blank(fields[c], x)
             acc == Rpc(p)!Account(fields[c])
  <1>2. ASSUME NEW e, Rpc(p)!Answer(c, e), Rpc(p)!MapAppError(e) \in Rpc(p)!Codes,
               \/ stored' = stored
               \/ /\ stored' = [stored EXCEPT ![c] = acc]
                  /\ method[c] = "Register" /\ Rpc(p)!ValidateAll("Register", fields[c]) = {}
                  /\ Rpc(p)!ValidateRegisterInput(fields[c]) = "nil",
               method[c] = "Register" =>
                  /\ Rpc(p)!MapAppError(e) = "OK" => stored' # stored
                  /\ Rpc(p)!MapAppError(e) \notin {"OK", "Internal"} => stored' = stored,
               Rpc(p)!MapAppError(e) = "InvalidArgument" <=> blank
        PROVE  RpcInv(p)'
    <2>1. Rpc(p)!Finish(c, Rpc(p)!MapAppError(e))
      BY <1>2 DEF Rpc!Answer
    <2>2. QED
      BY <1>1, <1>2, <2>1, CallEnds
  <1>3. /\ Rpc(p)!Codes = {"OK", "InvalidArgument", "Unauthenticated", "AlreadyExists",
                           "FailedPrecondition", "NotFound", "Internal"}
        /\ "nil" \notin Rpc(p)!Required
    BY DEF Rpc!Codes, Rpc!Required
  <1>4. CASE Rpc(p)!RegisterFails(c)
    <2> DEFINE err == Rpc(p)!ValidateRegisterInput(fields[c])
    <2>1. stored' = stored /\ method[c] = "Register"
      BY <1>4 DEF Rpc!RegisterFails, Rpc!Serving
    <2>2. err \in Rpc(p)!Required \cup {"nil"} /\ (err = "nil" <=> ~blank)
      BY <2>1, InputChecks
    <2>3. PICK e : /\ Rpc(p)!Answer(c, e)
                   /\ \/ e = err /\ err # "nil"
                      \/ e \in {"ErrUserAlreadyExists", "other", "ErrPasswordTooLong"} /\ err = "nil"
      BY <1>4 DEF Rpc!RegisterFails
    <2> HIDE DEF err, blank, acc
    <2>4. /\ Rpc(p)!MapAppError(e) \in {"InvalidArgument", "AlreadyExists", "Internal"}
          /\ Rpc(p)!MapAppError(e) = "InvalidArgument" <=> err # "nil"
      BY <2>2, <2>3, CodeOf
    <2>5. QED
      BY <1>2, <1>3, <2>1, <2>2, <2>3, <2>4
  <1>5. CASE Rpc(p)!RegisterCommits(c)
    <2>1. /\ method[c] = "Register" /\ Rpc(p)!ValidateRegisterInput(fields[c]) = "nil"
          /\ stored' = [stored EXCEPT ![c] = acc]
      BY <1>5 DEF Rpc!RegisterCommits, Rpc!Serving
    <2>2. ~blank
      BY <2>1, InputChecks
    <2>3. PICK e \in {"nil", "other"} : Rpc(p)!Answer(c, e)
      BY <1>5 DEF Rpc!RegisterCommits
    <2>4. stored' # stored
      <3>1. DOMAIN acc = {"Login", "Email", "FirstName", "LastName"} /\ DOMAIN Rpc(p)!NoAccount = {}
        BY DEF Rpc!Account, Rpc!NoAccount
      <3>2. stored[c] = Rpc(p)!NoAccount /\ DOMAIN stored = RpcCalls(p)
        BY <1>1 DEF RpcInv, Rpc!CallInv, Rpc!TypeOK
      <3> HIDE DEF acc
      <3>3. stored'[c] = acc /\ stored[c] # acc
        BY <2>1, <3>1, <3>2
      <3>4. QED
        BY <3>3
    <2> HIDE DEF blank, acc
    <2>5. Rpc(p)!MapAppError(e) \in {"OK", "Internal"}
      BY <2>3, CodeOf
    <2>6. QED
      BY <1>1, <1>2, <1>3, <2>1, <2>2, <2>3, <2>4, <2>5
  <1>6. CASE Rpc(p)!Login(c)
    <2> DEFINE err == Rpc(p)!ValidateLoginInput(fields[c])
    <2>1. stored' = stored /\ method[c] = "Login"
      BY <1>6 DEF Rpc!Login, Rpc!Serving
    <2>2. err \in Rpc(p)!Required \cup {"nil"} /\ (err = "nil" <=> ~blank)
      BY <2>1, InputChecks
    <2>3. PICK e : /\ Rpc(p)!Answer(c, e)
                   /\ \/ e = err /\ err # "nil"
                      \/ e \in {"nil", "ErrInvalidCredentials", "other"} /\ err = "nil"
      BY <1>6 DEF Rpc!Login
    <2> HIDE DEF err, blank, acc
    <2>4. /\ Rpc(p)!MapAppError(e) \in {"InvalidArgument", "OK", "Unauthenticated", "Internal"}
          /\ Rpc(p)!MapAppError(e) = "InvalidArgument" <=> err # "nil"
      BY <2>2, <2>3, CodeOf
    <2>5. QED
      BY <1>2, <1>3, <2>1, <2>2, <2>3, <2>4
  <1>7. CASE Rpc(p)!GetYandexAuthURL(c)
    <2>1. stored' = stored /\ method[c] = "GetYandexAuthURL"
      BY <1>7 DEF Rpc!GetYandexAuthURL, Rpc!Serving
    <2>2. ~blank
      BY <2>1, InputChecks
    <2>3. PICK e \in {"nil", "ErrUnsupportedAuthState", "other"} : Rpc(p)!Answer(c, e)
      BY <1>7 DEF Rpc!GetYandexAuthURL
    <2> HIDE DEF blank, acc
    <2>4. Rpc(p)!MapAppError(e) \in {"OK", "FailedPrecondition", "Internal"}
      BY <2>3, CodeOf
    <2>5. QED
      BY <1>2, <1>3, <2>1, <2>2, <2>3, <2>4
  <1>8. CASE Rpc(p)!CompleteYandexLogin(c)
    <2> DEFINE err == Rpc(p)!ValidateYandexInput(fields[c])
    <2>1. stored' = stored /\ method[c] = "CompleteYandexLogin"
      BY <1>8 DEF Rpc!CompleteYandexLogin, Rpc!Serving
    <2>2. err \in Rpc(p)!Required \cup {"nil"} /\ (err = "nil" <=> ~blank)
      BY <2>1, InputChecks
    <2>3. PICK e : /\ Rpc(p)!Answer(c, e)
                   /\ \/ e = err /\ err # "nil"
                      \/ /\ err = "nil"
                         /\ e \in {"nil", "ErrYandexProfileIncomplete", "ErrUserAlreadyExists",
                                   "ErrNotFound", "other"}
      BY <1>8 DEF Rpc!CompleteYandexLogin
    <2> HIDE DEF err, blank, acc
    <2>4. /\ Rpc(p)!MapAppError(e) \in {"InvalidArgument", "OK", "FailedPrecondition",
                                        "AlreadyExists", "NotFound", "Internal"}
          /\ Rpc(p)!MapAppError(e) = "InvalidArgument" <=> err # "nil"
      BY <2>2, <2>3, CodeOf
    <2>5. QED
      BY <1>2, <1>3, <2>1, <2>2, <2>3, <2>4
  <1>9. QED
    BY <1>4, <1>5, <1>6, <1>7, <1>8

LEMMA CallsStart ==
  ASSUME NEW p \in Rpcs, Rpc(p)!Init
  PROVE  RpcInv(p)
  <1>1. 0 \in 0..Cardinality(RpcCalls(p)) /\ Cardinality({}) = 0
    <2>1. {} \in SUBSET RpcCalls(p) /\ Cardinality({}) = 0
      BY FS_EmptySet
    <2>2. QED
      BY <2>1, CallSets
  <1>2. Rpc(p)!TypeOK
    <2>1. DOMAIN Rpc(p)!NoAccount = {}
      BY DEF Rpc!NoAccount
    <2>2. \A c \in RpcCalls(p) : stored[c] = Rpc(p)!NoAccount
      BY DEF Rpc!Init
    <2>3. Rpc(p)!Cardinality(RpcCalls(p)) = Cardinality(RpcCalls(p))
      BY SameCount
    <2>4. QED
      BY <1>1, <2>1, <2>2, <2>3 DEF Rpc!Init, Rpc!TypeOK, Rpc!None
  <1>3. Rpc(p)!CallInv
    BY DEF Rpc!Init, Rpc!CallInv, Rpc!None
  <1>4. Rpc(p)!CountInv
    <2>1. registry = "none" /\ "none" \notin RpcInterceptors(p)
      BY RpcAssumption DEF Rpc!Init, Rpc!AuthRpcAssumption, Rpc!None
    <2>2. QED
      BY <2>1 DEF Rpc!Init, Rpc!CountInv, Rpc!None
  <1>5. Rpc(p)!CodeTellsOfAccount /\ Rpc(p)!InvalidMeansInvalid
    BY DEF Rpc!Init, Rpc!CodeTellsOfAccount, Rpc!InvalidMeansInvalid
  <1>6. QED
    BY <1>2, <1>3, <1>4, <1>5 DEF RpcInv

LEMMA CallSteps ==
  ASSUME NEW p \in Rpcs, RpcInv(p), Rpc(p)!Next \/ UNCHANGED Rpc(p)!vars
  PROVE  RpcInv(p)'
  <1>1. ASSUME NEW i \in RpcInterceptors(p), Rpc(p)!NewServerMetrics(i) PROVE RpcInv(p)'
    <2>1. /\ collector[i] = "none" /\ registry' \in RpcInterceptors(p)
          /\ registry # "none" => registry' = registry
          /\ collector' = [collector EXCEPT ![i] = registry']
          /\ UNCHANGED <<rpcPhase, via, method, fields, code, stored, count>>
      BY <1>1 DEF Rpc!NewServerMetrics, Rpc!None, RpcInv, Rpc!TypeOK
    <2>2. Rpc(p)!TypeOK'
      BY <2>1 DEF RpcInv, Rpc!TypeOK
    <2>3. Rpc(p)!CallInv'
      <3>1. ASSUME NEW c \in RpcCalls(p), rpcPhase[c] # "idle"
            PROVE  via[c] \in RpcInterceptors(p) /\ collector'[via[c]] # "none"
        <4>1. via[c] \in RpcInterceptors(p) /\ collector[via[c]] # "none"
          BY <3>1 DEF RpcInv, Rpc!CallInv, Rpc!None
        <4>2. via[c] # i
          BY <2>1, <4>1
        <4>3. QED
          BY <2>1, <4>1, <4>2 DEF RpcInv, Rpc!TypeOK
      <3>2. QED
        BY <2>1, <3>1 DEF RpcInv, Rpc!CallInv, Rpc!None
    <2>4. Rpc(p)!CountInv'
      <3>1. \A j \in RpcInterceptors(p) : collector'[j] \in {"none", registry'}
        BY <2>1 DEF RpcInv, Rpc!CountInv, Rpc!TypeOK, Rpc!None
      <3>2. CASE registry = "none"
        <4>1. \A c \in RpcCalls(p) : code[c] = "none"
          <5>1. \A j \in RpcInterceptors(p) : collector[j] = "none"
            BY <3>2 DEF RpcInv, Rpc!CountInv, Rpc!None
          <5>2. QED
            BY <5>1 DEF RpcInv, Rpc!CallInv, Rpc!None
        <4>2. \A k \in Rpc(p)!Codes : {c \in RpcCalls(p) : code[c] = k} = {}
          BY <4>1 DEF Rpc!Codes
        <4>3. \A k \in Rpc(p)!Codes : Rpc(p)!Cardinality({c \in RpcCalls(p) : code[c] = k}) = 0
          <5>1. Rpc(p)!Cardinality({}) = 0
            BY SameCount, FS_EmptySet
          <5>2. QED
            BY <4>2, <5>1
        <4>4. \A j \in RpcInterceptors(p), k \in Rpc(p)!Codes : count[j][k] = 0
          <5>1. registry \notin RpcInterceptors(p)
            BY <3>2, RpcAssumption DEF Rpc!AuthRpcAssumption, Rpc!None
          <5>2. QED
            BY <5>1 DEF RpcInv, Rpc!CountInv
        <4>5. QED
          BY <2>1, <3>1, <4>3, <4>4 DEF Rpc!CountInv, Rpc!None
      <3>3. CASE registry # "none"
        BY <2>1, <3>1, <3>3 DEF RpcInv, Rpc!CountInv, Rpc!None
      <3>4. QED
        BY <3>2, <3>3
    <2>5. (Rpc(p)!CodeTellsOfAccount /\ Rpc(p)!InvalidMeansInvalid)'
      BY <2>1 DEF RpcInv, Rpc!CodeTellsOfAccount, Rpc!InvalidMeansInvalid, Rpc!Created
    <2>6. QED
      BY <2>2, <2>3, <2>4, <2>5 DEF RpcInv
  <1>2. ASSUME NEW c \in RpcCalls(p), Rpc(p)!Receive(c) PROVE RpcInv(p)'
    <2>1. PICK i \in RpcInterceptors(p), m \in RpcMethods(p) :
            /\ collector[i] # "none"
            /\ via' = [via EXCEPT ![c] = i] /\ method' = [method EXCEPT ![c] = m]
            /\ \E f \in Rpc(p)!RequestsOf(m) : fields' = [fields EXCEPT ![c] = f]
      BY <1>2 DEF Rpc!Receive, Rpc!None
    <2>2. PICK f \in Rpc(p)!RequestsOf(m) : fields' = [fields EXCEPT ![c] = f]
      BY <2>1
    <2>3. /\ rpcPhase[c] = "idle" /\ rpcPhase' = [rpcPhase EXCEPT ![c] = "received"]
          /\ UNCHANGED <<code, stored, registry, collector, count>>
      BY <1>2 DEF Rpc!Receive
    <2>4. \A x \in Rpc(p)!FieldsOf(m) : f[x] \in Rpc(p)!OddValues(x) \cup {Rpc(p)!Good[m][x]}
      BY Requested
    <2>5. Rpc(p)!TypeOK'
      BY <2>1, <2>2, <2>3 DEF RpcInv, Rpc!TypeOK
    <2>6. code[c] = "none" /\ stored[c] = Rpc(p)!NoAccount
      BY <2>3 DEF RpcInv, Rpc!CallInv, Rpc!None
    <2>7. \A d \in RpcCalls(p) \ {c} :
            /\ rpcPhase'[d] = rpcPhase[d] /\ via'[d] = via[d]
            /\ method'[d] = method[d] /\ fields'[d] = fields[d]
      BY <2>1, <2>2, <2>3 DEF RpcInv, Rpc!TypeOK
    <2>8. rpcPhase'[c] = "received" /\ via'[c] = i /\ method'[c] = m /\ fields'[c] = f
      BY <2>1, <2>2, <2>3 DEF RpcInv, Rpc!TypeOK
    <2>9. Rpc(p)!CallInv'
      BY <2>1, <2>3, <2>4, <2>6, <2>7, <2>8 DEF RpcInv, Rpc!CallInv, Rpc!None
    <2>10. Rpc(p)!CountInv'
      BY <2>3 DEF RpcInv, Rpc!CountInv, Rpc!None
    <2>11. (Rpc(p)!CodeTellsOfAccount /\ Rpc(p)!InvalidMeansInvalid)'
      BY <2>3, <2>7, <2>8 DEF RpcInv, Rpc!CodeTellsOfAccount, Rpc!InvalidMeansInvalid, Rpc!Created
    <2>12. QED
      BY <2>5, <2>9, <2>10, <2>11 DEF RpcInv
  <1>3. ASSUME NEW c \in RpcCalls(p), Rpc(p)!Refuse(c) PROVE RpcInv(p)'
    <2>1. /\ rpcPhase[c] = "received" /\ Rpc(p)!ValidateAll(method[c], fields[c]) # {}
          /\ Rpc(p)!Finish(c, "InvalidArgument") /\ stored' = stored
          /\ "InvalidArgument" \in Rpc(p)!Codes
      BY <1>3 DEF Rpc!Refuse, Rpc!Codes
    <2>2. QED
      BY <2>1, CallEnds
  <1>4. ASSUME NEW c \in RpcCalls(p), Rpc(p)!Handle(c) PROVE RpcInv(p)'
    <2>1. /\ rpcPhase[c] = "received" /\ rpcPhase' = [rpcPhase EXCEPT ![c] = "handler"]
          /\ Rpc(p)!ValidateAll(method[c], fields[c]) = {}
          /\ UNCHANGED <<via, method, fields, code, stored, registry, collector, count>>
      BY <1>4 DEF Rpc!Handle
    <2>2. /\ rpcPhase'[c] = "handler"
          /\ \A d \in RpcCalls(p) \ {c} : rpcPhase'[d] = rpcPhase[d]
      BY <2>1 DEF RpcInv, Rpc!TypeOK
    <2>3. Rpc(p)!TypeOK'
      BY <2>1 DEF RpcInv, Rpc!TypeOK
    <2>4. Rpc(p)!CallInv'
      BY <2>1, <2>2 DEF RpcInv, Rpc!CallInv, Rpc!None
    <2>5. Rpc(p)!CountInv'
      BY <2>1 DEF RpcInv, Rpc!CountInv, Rpc!None
    <2>6. (Rpc(p)!CodeTellsOfAccount /\ Rpc(p)!InvalidMeansInvalid)'
      BY <2>1, <2>2 DEF RpcInv, Rpc!CodeTellsOfAccount, Rpc!InvalidMeansInvalid, Rpc!Created
    <2>7. QED
      BY <2>3, <2>4, <2>5, <2>6 DEF RpcInv
  <1>5. CASE UNCHANGED Rpc(p)!vars
    <2>1. UNCHANGED <<rpcPhase, via, method, fields, code, stored, registry, collector, count>>
      BY <1>5 DEF Rpc!vars
    <2>2. (Rpc(p)!TypeOK /\ Rpc(p)!CallInv)'
      BY <2>1 DEF RpcInv, Rpc!TypeOK, Rpc!CallInv
    <2>3. (Rpc(p)!CountInv /\ Rpc(p)!CodeTellsOfAccount /\ Rpc(p)!InvalidMeansInvalid)'
      BY <2>1 DEF RpcInv, Rpc!CountInv, Rpc!CodeTellsOfAccount, Rpc!InvalidMeansInvalid, Rpc!Created
    <2>4. QED
      BY <2>2, <2>3 DEF RpcInv
  <1>6. CASE Rpc(p)!Next
    BY <1>1, <1>2, <1>3, <1>4, <1>5, <1>6, HandlersAnswer DEF Rpc!Next, Rpc!Done
  <1>7. QED
    BY <1>5, <1>6

\* What the runs check of the calls.
LEMMA CallsAnswer ==
  ASSUME NEW p \in Rpcs, RpcInv(p)
  PROVE  Rpc(p)!Answered
  <1>1. ASSUME NEW c \in RpcCalls(p), Rpc(p)!Created(c)
        PROVE  /\ stored[c].Login \in 1..64 /\ stored[c].Email \in 1..254
               /\ stored[c].FirstName \in 1..128 /\ stored[c].LastName \in 1..128
               /\ fields[c].Password.runes \in 8..128
    <2>1. stored[c] # Rpc(p)!NoAccount
      BY <1>1 DEF Rpc!Created, Rpc!NoAccount
    <2>2. /\ rpcPhase[c] = "done" /\ method[c] = "Register"
          /\ stored[c] = Rpc(p)!Account(fields[c])
          /\ Rpc(p)!ValidateAll("Register", fields[c]) = {}
          /\ Rpc(p)!ValidateRegisterInput(fields[c]) = "nil"
      BY <2>1 DEF RpcInv, Rpc!CallInv
    <2>3. \A x \in Rpc(p)!FieldsOf("Register") :
             fields[c][x] \in Rpc(p)!OddValues(x) \cup {Rpc(p)!Good["Register"][x]}
      BY <2>2 DEF RpcInv, Rpc!CallInv
    <2>4. QED
      BY <2>2, <2>3, Fits
  <1>2. Rpc(p)!StoredFieldsFit
    BY <1>1 DEF Rpc!StoredFieldsFit
  <1>3. Rpc(p)!EveryCallIsCounted
    BY DEF RpcInv, Rpc!TypeOK, Rpc!CountInv, Rpc!EveryCallIsCounted, Rpc!None
  <1>4. QED
    BY <1>2, <1>3 DEF Rpc!Answered, RpcInv

RpcsInv == \A p \in Rpcs : part = p => RpcInv(p)

\* Every call of the auth service is answered as its request, its account and
\* the counters of /metrics say: the rules of auth.proto and the checks of the
\* application together store only texts that fit, mapAppError's code tells
\* whether there is an account, and InvalidArgument that a rule was broken.
THEOREM CallsAreAnsweredRight == ProcessSpec => []CallsAreAnswered
  <1>1. ProcessInit => RpcsInv
    <2> SUFFICES ASSUME ProcessInit, NEW p \in Rpcs, part = p PROVE RpcInv(p)
      BY DEF RpcsInv
    <2>1. Rpc(p)!Init
      <3>1. CASE p = "rpc"
        BY <3>1 DEF ProcessInit
      <3>2. CASE p = "rpcs"
        BY <3>2 DEF ProcessInit
      <3>3. QED
        BY <3>1, <3>2 DEF Rpcs
    <2>2. QED
      BY <2>1, CallsStart
  <1>2. RpcsInv /\ [ProcessNext]_<<vars, part, service, rpc, encoder, trace>> => RpcsInv'
    <2> SUFFICES ASSUME RpcsInv, [ProcessNext]_<<vars, part, service, rpc, encoder, trace>>,
                        NEW p \in Rpcs, part = p
                 PROVE  RpcInv(p)'
      BY DEF RpcsInv, ProcessNext
    <2>1. RpcInv(p)
      BY DEF RpcsInv
    <2>2. UNCHANGED rpc => UNCHANGED Rpc(p)!vars
      BY DEF rpc, Rpc!vars
    <2>3. RpcNext \/ UNCHANGED rpc
      BY DEF ProcessNext
    <2>4. RpcNext => Rpc(p)!Next
      BY DEF RpcNext
    <2>5. QED
      BY <2>1, <2>2, <2>3, <2>4, CallSteps
  <1>3. RpcsInv => CallsAreAnswered
    BY CallsAnswer DEF RpcsInv, CallsAreAnswered
  <1>4. QED
    BY <1>1, <1>2, <1>3, PTL DEF ProcessSpec

-----------------------------------------------------------------------------
(* Stack traces (StackTrace): how far Capture doubles a storage.           *)

\* Every set of natural numbers has a least one.
LEMMA LeastElement ==
  ASSUME NEW S \in SUBSET Nat, S # {}
  PROVE  \E m \in S : \A n \in S : m <= n
  <1> DEFINE R == OpToRel(<, Nat)
  <1>1. \E m \in S : \A n \in S : ~(<<n, m>> \in R)
    <2>1. IsWellFoundedOn(R, Nat)
      BY NatLessThanWellFounded, Zenon
    <2> HIDE DEF R
    <2>2. QED
      BY <2>1, WFMin
  <1>2. \A n, m \in Nat : n < m => <<n, m>> \in R
    BY DEF OpToRel
  <1> HIDE DEF R
  <1>3. PICK m \in S : \A n \in S : ~(<<n, m>> \in R)
    BY <1>1
  <1>4. \A n \in S : ~(n < m)
    BY <1>2, <1>3
  <1>5. \A n \in S : m <= n
    BY <1>4
  <1>6. QED
    BY <1>5

\* The lengths a storage of length m has while it doubles up to n.
Lengthen(D, n) == \A x \in D : x <= n => x * 2 \in D
Doublings(m, n) == {r \in Nat : \A D \in SUBSET Nat : m \in D /\ Lengthen(D, n) => r \in D}
Roomy(m, n) == {r \in Doublings(m, n) : r > n}

LEMMA RoomyAtOnce ==
  ASSUME NEW m \in Nat, NEW n \in Nat, m > n
  PROVE  Roomy(m, n) = {m}
  <1>1. {m} \in SUBSET Nat /\ Lengthen({m}, n)
    BY DEF Lengthen
  <1>2. \A r \in Doublings(m, n) : r \in {m}
    BY <1>1 DEF Doublings
  <1>3. m \in Doublings(m, n)
    BY DEF Doublings
  <1>4. QED
    BY <1>2, <1>3 DEF Roomy

LEMMA RoomyLater ==
  ASSUME NEW m \in Nat, NEW n \in Nat, m <= n
  PROVE  Roomy(m, n) = Roomy(m * 2, n)
  <1>1. ASSUME NEW r \in Nat, r > n, r \in Doublings(m, n)
        PROVE  r \in Doublings(m * 2, n)
    <2> SUFFICES ASSUME NEW D \in SUBSET Nat, m * 2 \in D, Lengthen(D, n)
                 PROVE  r \in D
      BY DEF Doublings
    <2>1. m \in D \cup {m} /\ D \cup {m} \in SUBSET Nat
      OBVIOUS
    <2>2. Lengthen(D \cup {m}, n)
      BY DEF Lengthen
    <2>3. r \in D \cup {m}
      BY <1>1, <2>1, <2>2 DEF Doublings
    <2>4. QED
      BY <1>1, <2>3
  <1>2. ASSUME NEW r \in Nat, r \in Doublings(m * 2, n)
        PROVE  r \in Doublings(m, n)
    <2> SUFFICES ASSUME NEW D \in SUBSET Nat, m \in D, Lengthen(D, n)
                 PROVE  r \in D
      BY DEF Doublings
    <2>1. m * 2 \in D
      BY DEF Lengthen
    <2>2. QED
      BY <1>2, <2>1 DEF Doublings
  <1>3. \A k \in Nat : \A r \in Doublings(k, n) : r \in Nat
    BY DEF Doublings
  <1>4. QED
    BY <1>1, <1>2, <1>3 DEF Roomy

\* The loop of Capture has a result.
Loop(n, g) == [a \in Nat |-> IF Trace!Fitting(n, a) = a THEN g[a * 2] ELSE a]
Grown(n) == CHOOSE g : g = Loop(n, g)

LEMMA GrowUnfolds ==
  ASSUME NEW m \in Nat, NEW n \in Nat
  PROVE  Trace!Grow(m, n) = IF m <= n THEN Trace!Grow(m * 2, n) ELSE m
  <1> DEFINE G == [a \in Nat |-> CHOOSE r : r \in Roomy(a, n)]
  <1>1. ASSUME NEW a \in Nat
        PROVE G[a] = IF Trace!Fitting(n, a) = a THEN G[a * 2] ELSE a
    <2>1. G[a] = (CHOOSE r : r \in Roomy(a, n)) /\ G[a * 2] = (CHOOSE r : r \in Roomy(a * 2, n))
      OBVIOUS
    <2> HIDE DEF G
    <2>2. CASE a <= n
      <3>1. Trace!Fitting(n, a) = a
        BY <2>2 DEF Trace!Fitting
      <3>2. Roomy(a, n) = Roomy(a * 2, n)
        BY <2>2, RoomyLater
      <3>3. QED
        BY <2>1, <3>1, <3>2
    <2>3. CASE a > n
      <3>1. Trace!Fitting(n, a) # a
        BY <2>3 DEF Trace!Fitting
      <3>2. Roomy(a, n) = {a}
        BY <2>3, RoomyAtOnce
      <3>3. (CHOOSE r : r \in {a}) = a
        OBVIOUS
      <3>4. QED
        BY <2>1, <3>1, <3>2, <3>3
    <2>4. QED
      BY <2>2, <2>3
  <1>2. \E g : g = Loop(n, g)
    <2>1. G = [a \in Nat |-> G[a]]
      OBVIOUS
    <2> HIDE DEF G
    <2>2. G = Loop(n, G)
      BY <1>1, <2>1 DEF Loop
    <2>3. QED
      BY <2>2
  <1>3. Grown(n) = Loop(n, Grown(n))
    BY <1>2, Zenon DEF Grown
  <1>4. \A a \in Nat : Trace!Grow(a, n) = Grown(n)[a]
    BY Zenon DEF Trace!Grow, Grown, Loop
  <1>5. \A a \in Nat : Loop(n, Grown(n))[a] =
           IF Trace!Fitting(n, a) = a THEN Grown(n)[a * 2] ELSE a
    BY DEF Loop
  <1>6. Grown(n)[m] = IF Trace!Fitting(n, m) = m THEN Grown(n)[m * 2] ELSE m
    BY <1>3, <1>5, Zenon
  <1>7. Trace!Fitting(n, m) = m <=> m <= n
    BY DEF Trace!Fitting
  <1>8. Trace!Grow(m, n) = Grown(n)[m] /\ Trace!Grow(m * 2, n) = Grown(n)[m * 2]
    <2>1. m * 2 \in Nat
      OBVIOUS
    <2>2. QED
      BY <1>4, <2>1
  <1>9. QED
    BY <1>6, <1>7, <1>8

\* It leaves room to spare, and takes none away.
LEMMA GrowsFarEnough ==
  ASSUME NEW m \in Nat \ {0}, NEW n \in Nat
  PROVE  Trace!Grow(m, n) \in Nat /\ Trace!Grow(m, n) >= m /\ Trace!Grow(m, n) > n
  <1> DEFINE Good(a) == /\ Trace!Grow(a, n) \in Nat
                        /\ Trace!Grow(a, n) >= a /\ Trace!Grow(a, n) > n
             Short == {d \in Nat : \E a \in Nat \ {0} : a + d = n /\ ~Good(a)}
  <1>1. \A a \in Nat : a > n => Good(a)
    BY GrowUnfolds
  <1>2. ASSUME NEW a \in Nat \ {0}, a <= n, Good(a * 2)
        PROVE  Good(a)
    <2>1. Trace!Grow(a, n) = Trace!Grow(a * 2, n)
      BY <1>2, GrowUnfolds
    <2>2. QED
      BY <1>2, <2>1
  <1> HIDE DEF Good
  <1>3. ASSUME Short # {}
        PROVE  FALSE
    <2>1. PICK d \in Short : \A e \in Short : d <= e
      BY <1>3, LeastElement
    <2>2. PICK a \in Nat \ {0} : a + d = n /\ ~Good(a)
      OBVIOUS
    <2>3. d \in Nat /\ a * 2 \in Nat \ {0} /\ a <= n
      BY <2>2
    <2>4. ~Good(a * 2)
      BY <1>2, <2>2, <2>3
    <2>5. a * 2 <= n
      BY <1>1, <2>3, <2>4
    <2>6. d - a \in Nat /\ a * 2 + (d - a) = n
      BY <2>2, <2>3, <2>5
    <2>7. d - a \in Short
      BY <2>3, <2>4, <2>6
    <2>8. d <= d - a
      BY <2>1, <2>7
    <2>9. QED
      BY <2>3, <2>8
  <1>4. CASE m > n
    BY <1>1, <1>4 DEF Good
  <1>5. CASE m <= n
    <2>1. n - m \in Nat /\ m + (n - m) = n
      BY <1>5
    <2>2. n - m \notin Short
      BY <1>3
    <2>3. Good(m)
      BY <2>1, <2>2
    <2>4. QED
      BY <2>3 DEF Good
  <1>6. QED
    BY <1>4, <1>5

-----------------------------------------------------------------------------
(* Stack traces: what goroutines hold.                                     *)

\* What a call captures: from which frame on, how many the runtime finds, and
\* how many of them it keeps.
Innermost(c) == IF c.kind \in Trace!FixedSkip THEN 1 ELSE c.skip + 1
Found(c) == Trace!Available(c.deep, Innermost(c))
Captured(c) == IF c.kind = "Take" THEN Found(c) ELSE Trace!Fitting(Found(c), 2)
OwnFrame(g, c, i) == Trace!Frame(g, Innermost(c) + 1 + i)

Frames == [of : Requests, at : Nat]
CallsMade == [kind : Trace!Kinds, skip : Nat, deep : Nat]

\* The storage a goroutine holds is out of the pool, has the frames of its call,
\* and what it has read is the beginning of them.
HolderInv(g) ==
  /\ pc[g] = "idle" => stack[g] = Trace!None /\ out[g] = <<>>
  /\ pc[g] # "idle" =>
       /\ call[g].skip \in Skips /\ call[g].deep \in Depths
       /\ pcs[g] = Captured(call[g])
       /\ Len(out[g]) <= Trace!Wanted(g)
       /\ \A i \in 1 .. Len(out[g]) : out[g][i] = OwnFrame(g, call[g], i)
  /\ pc[g] = "captured" =>
       /\ stack[g] \in Stacks \ free /\ pcs[g] <= size[stack[g]]
       /\ \A i \in 1 .. pcs[g] : cells[stack[g]][i] = OwnFrame(g, call[g], i)
  /\ pc[g] = "done" => stack[g] = Trace!None /\ Len(out[g]) = Trace!Wanted(g)

TraceTypes ==
  /\ free \subseteq Stacks
  /\ size \in [Stacks -> Nat] /\ cells \in [Stacks -> Seq(Frames)]
  /\ pc \in [Requests -> {"idle", "captured", "done"}]
  /\ stack \in [Requests -> Stacks \cup {Trace!None}]
  /\ call \in [Requests -> CallsMade]
  /\ pcs \in [Requests -> Nat] /\ out \in [Requests -> Seq(Frames)]

\* No storage has two holders; an old one has at least the length of a new one.
TraceInv ==
  /\ TraceTypes
  /\ \A s \in Stacks : size[s] = 0 \/ size[s] >= Full
  /\ \A s \in free : size[s] >= Full
  /\ \A g \in Requests : HolderInv(g)
  /\ \A g, h \in Requests : g # h /\ pc[g] = "captured" /\ pc[h] = "captured" =>
       stack[g] # stack[h]


LEMMA TraceConstants ==
  /\ Full \in Nat /\ Full >= 2 /\ Skips \subseteq Nat /\ Depths \subseteq Nat
  /\ \A d \in Depths, s \in Skips : d > s + 3
  /\ Trace!None \notin Stacks
  BY TraceAssumption DEF Trace!StackTraceAssumption, Trace!None

LEMMA FixedKinds == Trace!FixedSkip \subseteq Trace!Kinds /\ "Take" \notin Trace!FixedSkip
  BY DEF Trace!FixedSkip, Trace!Kinds

\* At least one frame is found, and at least one is kept; a full trace keeps all.
LEMMA CapturedShape ==
  ASSUME NEW c \in CallsMade, c.skip \in Skips, c.deep \in Depths
  PROVE  /\ Innermost(c) \in Nat /\ Innermost(c) >= 1
         /\ Found(c) \in Nat /\ Found(c) >= 1 /\ Captured(c) \in Nat /\ Captured(c) >= 1
         /\ c.kind = "Take" => Captured(c) = c.deep - (c.skip + 3)
         /\ c.kind # "Take" => Captured(c) <= 2
         /\ c.kind # "Take" => Captured(c) = Trace!Fitting(Found(c), 2)
         /\ c.kind = "Take" => Captured(c) = Found(c)
  <1>1. c.skip \in Nat /\ c.deep \in Nat /\ c.deep > c.skip + 3 /\ c.kind \in Trace!Kinds
    BY TraceConstants DEF CallsMade
  <1>2. /\ Innermost(c) \in Nat /\ Innermost(c) >= 1 /\ Innermost(c) <= c.skip + 1
        /\ c.kind = "Take" => Innermost(c) = c.skip + 1
    BY <1>1, FixedKinds DEF Innermost
  <1>3. /\ Found(c) \in Nat /\ Found(c) >= 1
        /\ c.kind = "Take" => Found(c) = c.deep - (c.skip + 3)
    BY <1>1, <1>2 DEF Found, Trace!Available
  <1>4. QED
    BY <1>2, <1>3 DEF Captured, Trace!Fitting

LEMMA FunctionIsSeq ==
  ASSUME NEW S, NEW n \in Nat, NEW f \in [1 .. n -> S]
  PROVE  f \in Seq(S)
  OBVIOUS

\* What Capture leaves behind.
LEMMA CaptureShape ==
  ASSUME TraceTypes, NEW g \in Requests, NEW s \in Stacks,
         size[s] = 0 \/ size[s] >= Full,
         NEW c \in CallsMade, c.skip \in Skips, c.deep \in Depths,
         Trace!Capture(g, s, Innermost(c), Trace!DepthOf(c.kind), c.deep)
  PROVE  /\ size' \in [Stacks -> Nat] /\ cells' \in [Stacks -> Seq(Frames)]
         /\ \A x \in Stacks \ {s} : size'[x] = size[x] /\ cells'[x] = cells[x]
         /\ size'[s] >= Full /\ Captured(c) <= size'[s]
         /\ \A i \in 1 .. Captured(c) : cells'[s][i] = OwnFrame(g, c, i)
         /\ pcs' = [pcs EXCEPT ![g] = Captured(c)]
         /\ stack' = [stack EXCEPT ![g] = s]
  <1> DEFINE had == IF size[s] = 0 THEN Full ELSE size[s]
             n == Found(c)
             first == Trace!DepthOf(c.kind) = "First"
             room == IF first THEN 2 ELSE Trace!Grow(had, n)
             length == IF first THEN had ELSE room
             frames == [i \in 1 .. Captured(c) |-> Trace!Frame(g, Innermost(c) + 1 + i)]
  <1>1. had \in Nat /\ had >= Full /\ had >= 2 /\ had # 0
    BY TraceConstants DEF TraceTypes
  <1>2. /\ Innermost(c) \in Nat /\ n \in Nat /\ Captured(c) \in Nat
        /\ c.kind # "Take" => Captured(c) <= 2
        /\ c.kind # "Take" => Captured(c) = Trace!Fitting(n, 2)
        /\ c.kind = "Take" => Captured(c) = n
    BY CapturedShape
  <1>3. first <=> c.kind # "Take"
    BY DEF Trace!DepthOf
  <1>4. /\ size' = [size EXCEPT ![s] = length]
        /\ cells' = [cells EXCEPT ![s] =
                       [i \in 1 .. Trace!Fitting(n, room) |-> Trace!Frame(g, Innermost(c) + 1 + i)]]
        /\ pcs' = [pcs EXCEPT ![g] = Trace!Fitting(n, room)]
        /\ stack' = [stack EXCEPT ![g] = s]
    BY DEF Trace!Capture, Found
  <1> HIDE DEF had, n, first
  <1>5. ~first => room \in Nat /\ room >= had /\ room > n
    BY <1>1, <1>2, GrowsFarEnough
  <1>6. Trace!Fitting(n, room) = Captured(c)
    BY <1>2, <1>3, <1>5 DEF Trace!Fitting
  <1>7. length \in Nat /\ length >= Full /\ Captured(c) <= length
    BY <1>1, <1>2, <1>3, <1>5, TraceConstants
  <1>8. frames \in Seq(Frames)
    <2>1. \A i \in 1 .. Captured(c) : Trace!Frame(g, Innermost(c) + 1 + i) \in Frames
      BY <1>2 DEF Trace!Frame, Frames
    <2>2. frames \in [1 .. Captured(c) -> Frames]
      BY <2>1
    <2>3. QED
      BY <1>2, <2>2, FunctionIsSeq
  <1>9. \A i \in 1 .. Captured(c) : frames[i] = OwnFrame(g, c, i)
    BY DEF OwnFrame
  <1>10. cells' = [cells EXCEPT ![s] = frames]
    BY <1>4, <1>6
  <1> HIDE DEF frames, length, room
  <1>11. size' \in [Stacks -> Nat] /\ cells' \in [Stacks -> Seq(Frames)]
    BY <1>4, <1>7, <1>8, <1>10 DEF TraceTypes
  <1>12. /\ \A x \in Stacks \ {s} : size'[x] = size[x] /\ cells'[x] = cells[x]
         /\ size'[s] = length /\ cells'[s] = frames
    BY <1>4, <1>10 DEF TraceTypes
  <1>13. QED
    BY <1>4, <1>6, <1>7, <1>9, <1>11, <1>12

LEMMA TraceStarts == Trace!Init => TraceInv
  <1> SUFFICES ASSUME Trace!Init PROVE TraceInv
    OBVIOUS
  <1>1. TraceTypes
    <2>1. <<>> \in Seq(Frames)
      OBVIOUS
    <2>2. Trace!IdleCall \in CallsMade
      BY DEF Trace!IdleCall, CallsMade, Trace!Kinds
    <2>3. QED
      BY <2>1, <2>2 DEF Trace!Init, TraceTypes
  <1>2. \A g \in Requests : HolderInv(g)
    BY DEF Trace!Init, HolderInv
  <1>3. QED
    BY <1>1, <1>2 DEF Trace!Init, TraceInv

\* A goroutine keeps what it has when neither its variables nor the storage it
\* holds change, and its storage does not go into the pool.
LEMMA HolderKeeps ==
  ASSUME TraceTypes, NEW h \in Requests, HolderInv(h),
         pc'[h] = pc[h], stack'[h] = stack[h], call'[h] = call[h], pcs'[h] = pcs[h],
         out'[h] = out[h],
         pc[h] = "captured" => /\ stack[h] \notin free'
                               /\ size'[stack[h]] = size[stack[h]]
                               /\ cells'[stack[h]] = cells[stack[h]]
  PROVE  HolderInv(h)'
  <1>1. Trace!Wanted(h)' = Trace!Wanted(h)
    BY DEF Trace!Wanted
  <1>2. QED
    BY <1>1 DEF HolderInv, TraceTypes

LEMMA BeginKeeps ==
  ASSUME TraceInv, NEW g \in Requests, Trace!Begin(g)
  PROVE  TraceInv'
  <1>1. PICK s \in Stacks, kind \in Trace!Kinds, skip \in Skips, deep \in Depths :
          /\ Trace!Pooled(s)
          /\ LET inner == IF kind \in Trace!FixedSkip THEN 1 ELSE skip + 1
             IN Trace!Capture(g, s, inner, Trace!DepthOf(kind), deep)
          /\ call' = [call EXCEPT ![g] = [kind |-> kind, skip |-> skip, deep |-> deep]]
          /\ free' = free \ {s}
    BY DEF Trace!Begin
  <1> DEFINE c == [kind |-> kind, skip |-> skip, deep |-> deep]
  <1>3. c \in CallsMade /\ c.kind = kind /\ c.skip = skip /\ c.deep = deep
    BY TraceConstants DEF CallsMade
  <1>4. Trace!Capture(g, s, Innermost(c), Trace!DepthOf(c.kind), c.deep)
    BY <1>1, <1>3 DEF Innermost
  <1>5. TraceTypes /\ (size[s] = 0 \/ size[s] >= Full)
    BY DEF TraceInv
  <1>6. call' = [call EXCEPT ![g] = c] /\ free' = free \ {s}
    BY <1>1
  <1> HIDE DEF c
  <1>7. /\ size' \in [Stacks -> Nat] /\ cells' \in [Stacks -> Seq(Frames)]
        /\ \A x \in Stacks \ {s} : size'[x] = size[x] /\ cells'[x] = cells[x]
        /\ size'[s] >= Full /\ Captured(c) <= size'[s]
        /\ \A i \in 1 .. Captured(c) : cells'[s][i] = OwnFrame(g, c, i)
        /\ pcs' = [pcs EXCEPT ![g] = Captured(c)]
        /\ stack' = [stack EXCEPT ![g] = s]
    BY <1>3, <1>4, <1>5, CaptureShape
  <1>8. Captured(c) \in Nat /\ Captured(c) >= 1
    BY <1>3, CapturedShape
  <1>9. /\ pc' = [pc EXCEPT ![g] = "captured"] /\ out' = [out EXCEPT ![g] = <<>>]
        /\ pc[g] = "idle"
    BY DEF Trace!Begin
  <1>10. TraceTypes'
    <2>1. <<>> \in Seq(Frames)
      OBVIOUS
    <2>2. QED
      BY <1>3, <1>5, <1>6, <1>7, <1>8, <1>9, <2>1 DEF TraceTypes
  <1>11. /\ pc'[g] = "captured" /\ out'[g] = <<>> /\ call'[g] = c
         /\ stack'[g] = s /\ pcs'[g] = Captured(c)
         /\ \A h \in Requests \ {g} : /\ pc'[h] = pc[h] /\ out'[h] = out[h] /\ call'[h] = call[h]
                                      /\ stack'[h] = stack[h] /\ pcs'[h] = pcs[h]
    BY <1>5, <1>6, <1>7, <1>9 DEF TraceTypes
  <1>12. \A h \in Requests : pc[h] = "captured" => stack[h] # s /\ stack[h] \in Stacks \ free
    BY <1>1 DEF TraceInv, HolderInv, Trace!Pooled, Trace!Taken
  <1>13. HolderInv(g)'
    <2>1. Trace!Wanted(g)' \in Nat
      BY <1>8, <1>11 DEF Trace!Wanted
    <2>2. Len(out'[g]) = 0 /\ Len(out'[g]) <= Trace!Wanted(g)'
      BY <1>11, <2>1
    <2>3. s \notin free' /\ pcs'[g] <= size'[s]
      BY <1>6, <1>7, <1>11
    <2>4. \A i \in 1 .. pcs'[g] : cells'[s][i] = OwnFrame(g, c, i)
      BY <1>7, <1>11
    <2>5. QED
      BY <1>3, <1>11, <2>2, <2>3, <2>4 DEF HolderInv
  <1>14. \A h \in Requests \ {g} : HolderInv(h)'
    <2> SUFFICES ASSUME NEW h \in Requests \ {g} PROVE HolderInv(h)'
      OBVIOUS
    <2>1. HolderInv(h)
      BY DEF TraceInv
    <2>2. QED
      BY <1>5, <1>6, <1>7, <1>11, <1>12, <2>1, HolderKeeps
  <1>15. \A x \in Stacks : size'[x] = 0 \/ size'[x] >= Full
    BY <1>7 DEF TraceInv
  <1>16. \A x \in free' : size'[x] >= Full
    BY <1>5, <1>6, <1>7 DEF TraceInv, TraceTypes
  <1>17. \A h, k \in Requests : h # k /\ pc'[h] = "captured" /\ pc'[k] = "captured" =>
            stack'[h] # stack'[k]
    BY <1>11, <1>12 DEF TraceInv
  <1>18. QED
    BY <1>10, <1>13, <1>14, <1>15, <1>16, <1>17 DEF TraceInv

\* A frame is read from the storage of the goroutine that reads it.
LEMMA NextFrameKeeps ==
  ASSUME TraceInv, NEW g \in Requests, Trace!NextFrame(g)
  PROVE  TraceInv'
  <1> DEFINE k == Len(out[g]) + 1
             frame == cells[stack[g]][k]
  <1>1. /\ pc[g] = "captured" /\ Len(out[g]) < Trace!Wanted(g)
        /\ out' = [out EXCEPT ![g] = Append(out[g], frame)]
        /\ UNCHANGED <<free, size, cells, pc, call, stack, pcs>>
    BY DEF Trace!NextFrame
  <1>2. TraceTypes /\ HolderInv(g)
    BY DEF TraceInv
  <1>3. call[g] \in CallsMade /\ call[g].skip \in Skips /\ call[g].deep \in Depths
    BY <1>1, <1>2 DEF TraceTypes, HolderInv
  <1>4. /\ Innermost(call[g]) \in Nat
        /\ Captured(call[g]) \in Nat /\ Captured(call[g]) >= 1 /\ pcs[g] = Captured(call[g])
    BY <1>1, <1>2, <1>3, CapturedShape DEF HolderInv
  <1>5. Trace!Wanted(g) \in Nat /\ Trace!Wanted(g) <= pcs[g]
    BY <1>4 DEF Trace!Wanted
  <1>6. out[g] \in Seq(Frames) /\ Len(out[g]) \in Nat
    BY <1>2 DEF TraceTypes
  <1>7. k \in 1 .. pcs[g] /\ k <= Trace!Wanted(g)
    BY <1>1, <1>4, <1>5, <1>6
  <1>8. frame = OwnFrame(g, call[g], k)
    BY <1>1, <1>2, <1>7 DEF HolderInv
  <1>9. frame \in Frames
    BY <1>4, <1>6, <1>8 DEF OwnFrame, Trace!Frame, Frames
  <1> HIDE DEF frame
  <1>10. out'[g] = Append(out[g], frame) /\ \A h \in Requests \ {g} : out'[h] = out[h]
    BY <1>1, <1>2 DEF TraceTypes
  <1>11. /\ out'[g] \in Seq(Frames) /\ Len(out'[g]) = k /\ out'[g][k] = frame
         /\ \A i \in 1 .. Len(out[g]) : out'[g][i] = out[g][i]
    BY <1>6, <1>9, <1>10
  <1>12. TraceTypes'
    BY <1>1, <1>2, <1>10, <1>11 DEF TraceTypes
  <1>13. HolderInv(g)'
    <2>1. Trace!Wanted(g)' = Trace!Wanted(g)
      BY <1>1 DEF Trace!Wanted
    <2>2. \A i \in 1 .. Len(out[g]) : out[g][i] = OwnFrame(g, call[g], i)
      BY <1>1, <1>2 DEF HolderInv
    <2>3. \A i \in 1 .. k : i \in 1 .. Len(out[g]) \/ i = k
      BY <1>6
    <2>4. \A i \in 1 .. k : out'[g][i] = OwnFrame(g, call[g], i)
      BY <1>8, <1>11, <2>2, <2>3
    <2>5. QED
      BY <1>1, <1>2, <1>7, <1>11, <2>1, <2>4 DEF HolderInv
  <1>14. \A h \in Requests \ {g} : HolderInv(h)'
    <2> SUFFICES ASSUME NEW h \in Requests \ {g} PROVE HolderInv(h)'
      OBVIOUS
    <2>1. HolderInv(h)
      BY DEF TraceInv
    <2>2. pc[h] = "captured" => stack[h] \notin free
      BY <2>1 DEF HolderInv
    <2>3. QED
      BY <1>1, <1>2, <1>10, <2>1, <2>2, HolderKeeps
  <1>15. QED
    BY <1>1, <1>12, <1>13, <1>14 DEF TraceInv

\* A storage goes back when its frames are read, and nobody else holds it.
LEMMA FreeKeeps ==
  ASSUME TraceInv, NEW g \in Requests, Trace!Free(g)
  PROVE  TraceInv'
  <1>1. /\ pc[g] = "captured" /\ Len(out[g]) = Trace!Wanted(g)
        /\ free' = free \cup {stack[g]}
        /\ stack' = [stack EXCEPT ![g] = Trace!None]
        /\ pc' = [pc EXCEPT ![g] = "done"]
        /\ UNCHANGED <<size, cells, call, pcs, out>>
    BY DEF Trace!Free
  <1>2. TraceTypes /\ HolderInv(g)
    BY DEF TraceInv
  <1>3. stack[g] \in Stacks /\ pcs[g] <= size[stack[g]] /\ pcs[g] >= 1 /\ pcs[g] \in Nat
    <2>1. call[g] \in CallsMade /\ call[g].skip \in Skips /\ call[g].deep \in Depths
      BY <1>1, <1>2 DEF TraceTypes, HolderInv
    <2>2. QED
      BY <1>1, <1>2, <2>1, CapturedShape DEF HolderInv
  <1>4. size[stack[g]] >= Full
    <2>1. size[stack[g]] \in Nat /\ size[stack[g]] # 0
      BY <1>2, <1>3 DEF TraceTypes
    <2>2. QED
      BY <1>3, <2>1 DEF TraceInv
  <1>5. TraceTypes'
    BY <1>1, <1>2, <1>3 DEF TraceTypes
  <1>6. /\ pc'[g] = "done" /\ stack'[g] = Trace!None
        /\ \A h \in Requests \ {g} : pc'[h] = pc[h] /\ stack'[h] = stack[h]
    BY <1>1, <1>2 DEF TraceTypes
  <1>7. HolderInv(g)'
    <2>1. Trace!Wanted(g)' = Trace!Wanted(g)
      BY <1>1 DEF Trace!Wanted
    <2>2. QED
      BY <1>1, <1>2, <1>6, <2>1 DEF HolderInv
  <1>8. \A h \in Requests \ {g} : HolderInv(h)'
    <2> SUFFICES ASSUME NEW h \in Requests \ {g} PROVE HolderInv(h)'
      OBVIOUS
    <2>1. HolderInv(h)
      BY DEF TraceInv
    <2>2. pc[h] = "captured" => stack[h] \notin free'
      BY <1>1, <2>1 DEF HolderInv, TraceInv
    <2>3. QED
      BY <1>1, <1>2, <1>6, <2>1, <2>2, HolderKeeps
  <1>9. \A x \in free' : size'[x] >= Full
    BY <1>1, <1>4 DEF TraceInv
  <1>10. \A h, k \in Requests : h # k /\ pc'[h] = "captured" /\ pc'[k] = "captured" =>
            stack'[h] # stack'[k]
    BY <1>6 DEF TraceInv
  <1>11. QED
    BY <1>1, <1>5, <1>7, <1>8, <1>9, <1>10 DEF TraceInv

LEMMA ReturnKeeps ==
  ASSUME TraceInv, NEW g \in Requests, Trace!Return(g)
  PROVE  TraceInv'
  <1>1. /\ pc[g] = "done"
        /\ pc' = [pc EXCEPT ![g] = "idle"] /\ out' = [out EXCEPT ![g] = <<>>]
        /\ call' = [call EXCEPT ![g] = Trace!IdleCall] /\ pcs' = [pcs EXCEPT ![g] = 0]
        /\ UNCHANGED <<free, size, cells, stack>>
    BY DEF Trace!Return
  <1>2. TraceTypes /\ HolderInv(g)
    BY DEF TraceInv
  <1>3. TraceTypes'
    <2>1. <<>> \in Seq(Frames)
      OBVIOUS
    <2>2. Trace!IdleCall \in CallsMade
      BY DEF Trace!IdleCall, CallsMade, Trace!Kinds
    <2>3. QED
      BY <1>1, <1>2, <2>1, <2>2 DEF TraceTypes
  <1>4. /\ pc'[g] = "idle" /\ out'[g] = <<>>
        /\ \A h \in Requests \ {g} : /\ pc'[h] = pc[h] /\ out'[h] = out[h]
                                     /\ call'[h] = call[h] /\ pcs'[h] = pcs[h]
    BY <1>1, <1>2 DEF TraceTypes
  <1>5. HolderInv(g)'
    BY <1>1, <1>2, <1>4 DEF HolderInv
  <1>6. \A h \in Requests \ {g} : HolderInv(h)'
    <2> SUFFICES ASSUME NEW h \in Requests \ {g} PROVE HolderInv(h)'
      OBVIOUS
    <2>1. HolderInv(h)
      BY DEF TraceInv
    <2>2. pc[h] = "captured" => stack[h] \notin free
      BY <2>1 DEF HolderInv
    <2>3. QED
      BY <1>1, <1>2, <1>4, <2>1, <2>2, HolderKeeps
  <1>7. QED
    BY <1>1, <1>3, <1>4, <1>5, <1>6 DEF TraceInv

LEMMA DropKeeps ==
  ASSUME TraceInv, NEW s \in Stacks, Trace!Drop(s)
  PROVE  TraceInv'
  <1>1. /\ s \in free /\ free' = free \ {s}
        /\ size' = [size EXCEPT ![s] = 0] /\ cells' = [cells EXCEPT ![s] = <<>>]
        /\ UNCHANGED <<pc, call, stack, pcs, out>>
    BY DEF Trace!Drop
  <1>2. TraceTypes
    BY DEF TraceInv
  <1>3. TraceTypes'
    <2>1. <<>> \in Seq(Frames)
      OBVIOUS
    <2>2. QED
      BY <1>1, <1>2, <2>1 DEF TraceTypes
  <1>4. /\ size'[s] = 0
        /\ \A x \in Stacks \ {s} : size'[x] = size[x] /\ cells'[x] = cells[x]
    BY <1>1, <1>2 DEF TraceTypes
  <1>5. \A h \in Requests : HolderInv(h)'
    <2> SUFFICES ASSUME NEW h \in Requests PROVE HolderInv(h)'
      OBVIOUS
    <2>1. HolderInv(h)
      BY DEF TraceInv
    <2>2. pc[h] = "captured" => stack[h] \in Stacks \ {s} /\ stack[h] \notin free'
      BY <1>1, <2>1 DEF HolderInv
    <2>3. QED
      BY <1>1, <1>2, <1>4, <2>1, <2>2, HolderKeeps
  <1>6. \A x \in Stacks : size'[x] = 0 \/ size'[x] >= Full
    BY <1>4 DEF TraceInv
  <1>7. \A x \in free' : size'[x] >= Full
    BY <1>1, <1>2, <1>4 DEF TraceInv, TraceTypes
  <1>8. QED
    BY <1>1, <1>3, <1>5, <1>6, <1>7 DEF TraceInv

LEMMA TraceSteps ==
  ASSUME TraceInv, Trace!Next \/ UNCHANGED Trace!vars
  PROVE  TraceInv'
  <1>1. ASSUME NEW g \in Requests,
               Trace!Begin(g) \/ Trace!NextFrame(g) \/ Trace!Free(g) \/ Trace!Return(g)
        PROVE  TraceInv'
    BY <1>1, BeginKeeps, NextFrameKeeps, FreeKeeps, ReturnKeeps
  <1>2. ASSUME NEW s \in Stacks, Trace!Drop(s)
        PROVE  TraceInv'
    BY <1>2, DropKeeps
  <1>3. ASSUME UNCHANGED Trace!vars
        PROVE  TraceInv'
    <2>1. /\ free' = free /\ size' = size /\ cells' = cells /\ pc' = pc
          /\ call' = call /\ stack' = stack /\ pcs' = pcs /\ out' = out
      BY <1>3 DEF Trace!vars
    <2>2. TraceTypes' /\ \A h \in Requests : HolderInv(h)'
      BY <2>1 DEF TraceInv, TraceTypes, HolderInv, Trace!Wanted
    <2>3. QED
      BY <2>1, <2>2 DEF TraceInv
  <1>4. QED
    BY <1>1, <1>2, <1>3 DEF Trace!Next

LEMMA TracesHold == TraceInv => TracesAreOwn
  <1> SUFFICES ASSUME TraceInv PROVE TracesAreOwn
    OBVIOUS
  <1>1. TraceTypes
    BY DEF TraceInv
  <1>2. Trace!TypeOK
    <2>1. ASSUME NEW g \in Requests, stack[g] # Trace!None
          PROVE  stack[g] \notin free /\ pcs[g] <= size[stack[g]]
      BY <1>1, <2>1 DEF TraceInv, TraceTypes, HolderInv
    <2>2. QED
      BY <1>1, <2>1 DEF TraceInv, TraceTypes, Trace!TypeOK
  <1>3. Trace!ReadsOwnFrames
    <2> SUFFICES ASSUME NEW g \in Requests, NEW i \in DOMAIN out[g]
                 PROVE  out[g][i] = Trace!Frame(g,
                          (IF call[g].kind \in Trace!FixedSkip THEN 3 ELSE call[g].skip + 3) + i - 1)
      BY DEF Trace!ReadsOwnFrames
    <2>1. out[g] \in Seq(Frames) /\ DOMAIN out[g] = 1 .. Len(out[g]) /\ i \in Nat
      BY <1>1 DEF TraceTypes
    <2>2. pc[g] # "idle"
      BY <2>1 DEF TraceInv, HolderInv
    <2>3. out[g][i] = OwnFrame(g, call[g], i)
      BY <2>1, <2>2 DEF TraceInv, HolderInv
    <2>4. call[g].skip \in Nat
      BY <1>1 DEF TraceTypes, CallsMade
    <2>5. Innermost(call[g]) + 1 + i =
            (IF call[g].kind \in Trace!FixedSkip THEN 3 ELSE call[g].skip + 3) + i - 1
      BY <2>1, <2>4 DEF Innermost
    <2>6. QED
      BY <2>3, <2>5 DEF OwnFrame
  <1>4. Trace!FullTraceIsComplete
    <2> SUFFICES ASSUME NEW g \in Requests, pc[g] = "done", call[g].kind = "Take"
                 PROVE  Len(out[g]) = call[g].deep - (call[g].skip + 3)
      BY DEF Trace!FullTraceIsComplete
    <2>1. call[g] \in CallsMade /\ call[g].skip \in Skips /\ call[g].deep \in Depths
      BY <1>1 DEF TraceInv, TraceTypes, HolderInv
    <2>2. pcs[g] = call[g].deep - (call[g].skip + 3)
      BY <2>1, CapturedShape DEF TraceInv, HolderInv
    <2>3. Trace!Wanted(g) = pcs[g]
      BY DEF Trace!Wanted
    <2>4. QED
      BY <2>2, <2>3 DEF TraceInv, HolderInv
  <1>5. QED
    BY <1>2, <1>3, <1>4 DEF TracesAreOwn

\* A goroutine reads the frames of its own capture, whichever storage it got from
\* the pool and whoever had it before, and a full trace is complete however deep
\* the goroutine was: Capture doubles the storage until it has room to spare.
THEOREM TracesStayOwn == ProcessSpec => []TracesAreOwn
  <1>1. ProcessInit => TraceInv
    BY TraceStarts DEF ProcessInit
  <1>2. TraceInv /\ [ProcessNext]_<<vars, part, service, rpc, encoder, trace>> => TraceInv'
    <2> SUFFICES ASSUME TraceInv, [ProcessNext]_<<vars, part, service, rpc, encoder, trace>>
                 PROVE  TraceInv'
      OBVIOUS
    <2>1. UNCHANGED trace => UNCHANGED Trace!vars
      BY DEF trace, Trace!vars
    <2>2. Trace!Next \/ UNCHANGED trace
      BY DEF ProcessNext
    <2>3. QED
      BY <2>1, <2>2, TraceSteps
  <1>3. TraceInv => TracesAreOwn
    BY TracesHold
  <1>4. QED
    BY <1>1, <1>2, <1>3, PTL DEF ProcessSpec

-----------------------------------------------------------------------------
(* The encoder (AvroEncoder): what a recursive function computes.          *)

\* A recursion over D: it stops at the elements of stop with the value of base,
\* and combines an element with the value of the next one, of less weight.
Recursion(D, V, stop, next, weight, base, combine) ==
  /\ V # {} /\ stop \subseteq D /\ next \in [D \ stop -> D] /\ weight \in [D -> Nat]
  /\ base \in [stop -> V] /\ combine \in [D -> [V -> V]]
  /\ \A x \in D \ stop : weight[next[x]] < weight[x]

\* What it makes of the values f.
Unfold(stop, next, base, combine, f, x) ==
  IF x \in stop THEN base[x] ELSE combine[x][f[next[x]]]

\* f computes it for the elements lighter than n.
Computes(D, V, stop, next, weight, base, combine, f, n) ==
  /\ f \in [D -> V]
  /\ \A x \in D : weight[x] < n => f[x] = Unfold(stop, next, base, combine, f, x)

LEMMA UnfoldType ==
  ASSUME NEW D, NEW V, NEW stop, NEW next, NEW m, NEW base, NEW combine,
         Recursion(D, V, stop, next, m, base, combine),
         NEW f \in [D -> V], NEW x \in D
  PROVE  Unfold(stop, next, base, combine, f, x) \in V
  <1>1. CASE x \in stop
    BY <1>1 DEF Recursion, Unfold
  <1>2. CASE x \notin stop
    <2>1. next[x] \in D /\ combine[x] \in [V -> V]
      BY <1>2 DEF Recursion
    <2>2. f[next[x]] \in V
      BY <2>1
    <2>3. QED
      BY <1>2, <2>1, <2>2 DEF Unfold
  <1>3. QED
    BY <1>1, <1>2

\* It has one value where it is computed.
LEMMA ComputesOnce ==
  ASSUME NEW D, NEW V, NEW stop, NEW next, NEW m, NEW base, NEW combine,
         Recursion(D, V, stop, next, m, base, combine),
         NEW f, NEW g, NEW n \in Nat,
         Computes(D, V, stop, next, m, base, combine, f, n),
         Computes(D, V, stop, next, m, base, combine, g, n)
  PROVE  \A x \in D : m[x] < n => f[x] = g[x]
  <1> DEFINE Differ == {k \in Nat : \E x \in D : m[x] = k /\ k < n /\ f[x] # g[x]}
  <1>1. \A x \in D : m[x] \in Nat
    BY DEF Recursion
  <1>2. ASSUME Differ # {}
        PROVE  FALSE
    <2>1. PICK k \in Differ : \A j \in Differ : k <= j
      BY <1>2, LeastElement
    <2>2. PICK x \in D : m[x] = k /\ k < n /\ f[x] # g[x]
      OBVIOUS
    <2>3. /\ f[x] = Unfold(stop, next, base, combine, f, x)
          /\ g[x] = Unfold(stop, next, base, combine, g, x)
      BY <2>2 DEF Computes
    <2>4. x \notin stop
      BY <2>2, <2>3 DEF Unfold
    <2>5. next[x] \in D /\ m[next[x]] < k
      BY <2>2, <2>4 DEF Recursion
    <2>6. m[next[x]] \in Nat /\ k \in Nat
      BY <1>1, <2>5
    <2>7. m[next[x]] < n
      BY <2>2, <2>5, <2>6
    <2>8. m[next[x]] \notin Differ
      BY <2>1, <2>5, <2>6
    <2>9. f[next[x]] = g[next[x]]
      BY <2>5, <2>6, <2>7, <2>8
    <2>10. QED
      BY <2>2, <2>3, <2>4, <2>9 DEF Unfold
  <1>3. QED
    BY <1>1, <1>2

LEMMA ComputesFurther ==
  ASSUME NEW D, NEW V, NEW stop, NEW next, NEW m, NEW base, NEW combine,
         Recursion(D, V, stop, next, m, base, combine),
         NEW f, NEW n \in Nat,
         Computes(D, V, stop, next, m, base, combine, f, n)
  PROVE  \E g : Computes(D, V, stop, next, m, base, combine, g, n + 1)
  <1> DEFINE g == [x \in D |-> Unfold(stop, next, base, combine, f, x)]
  <1>1. f \in [D -> V]
    BY DEF Computes
  <1>2. \A x \in D : g[x] = Unfold(stop, next, base, combine, f, x)
    OBVIOUS
  <1>3. g \in [D -> V]
    BY <1>1, UnfoldType
  <1> HIDE DEF g
  <1>4. ASSUME NEW x \in D, m[x] < n + 1
        PROVE  g[x] = Unfold(stop, next, base, combine, g, x)
    <2>1. CASE x \in stop
      BY <1>2, <2>1 DEF Unfold
    <2>2. CASE x \notin stop
      <3>1. next[x] \in D /\ m[next[x]] < m[x] /\ m[next[x]] \in Nat /\ m[x] \in Nat
        BY <2>2 DEF Recursion
      <3>2. m[next[x]] < n
        BY <1>4, <3>1
      <3>3. g[next[x]] = Unfold(stop, next, base, combine, f, next[x])
        BY <1>2, <3>1
      <3>4. f[next[x]] = Unfold(stop, next, base, combine, f, next[x])
        BY <3>1, <3>2 DEF Computes
      <3>5. g[next[x]] = f[next[x]]
        BY <3>3, <3>4
      <3>6. QED
        BY <1>2, <2>2, <3>5 DEF Unfold
    <2>3. QED
      BY <2>1, <2>2
  <1>5. Computes(D, V, stop, next, m, base, combine, g, n + 1)
    BY <1>3, <1>4 DEF Computes
  <1>6. QED
    BY <1>5

LEMMA ComputesFar ==
  ASSUME NEW D, NEW V, NEW stop, NEW next, NEW m, NEW base, NEW combine,
         Recursion(D, V, stop, next, m, base, combine)
  PROVE  \A n \in Nat : \E f : Computes(D, V, stop, next, m, base, combine, f, n)
  <1> DEFINE C(n) == \E f : Computes(D, V, stop, next, m, base, combine, f, n)
             Never == {n \in Nat : ~C(n)}
  <1>1. C(0)
    <2>1. PICK v \in V : TRUE
      BY DEF Recursion
    <2>2. [x \in D |-> v] \in [D -> V]
      BY <2>1
    <2>3. \A x \in D : ~(m[x] < 0)
      BY DEF Recursion
    <2>4. Computes(D, V, stop, next, m, base, combine, [x \in D |-> v], 0)
      BY <2>2, <2>3 DEF Computes
    <2>5. QED
      BY <2>4
  <1>2. ASSUME NEW n \in Nat, C(n) PROVE C(n + 1)
    BY <1>2, ComputesFurther
  <1> HIDE DEF C
  <1>3. ASSUME Never # {}
        PROVE  FALSE
    <2>1. PICK n \in Never : \A k \in Never : n <= k
      BY <1>3, LeastElement
    <2>2. n \in Nat /\ n # 0 /\ ~C(n)
      BY <1>1
    <2>3. n - 1 \in Nat /\ n - 1 \notin Never
      BY <2>1, <2>2
    <2>4. C(n - 1) /\ (n - 1) + 1 = n
      BY <2>2, <2>3
    <2>5. QED
      BY <1>2, <2>2, <2>3, <2>4
  <1>4. \A n \in Nat : C(n)
    BY <1>3
  <1>5. QED
    BY <1>4 DEF C

\* Every recursion has its function.
LEMMA RecursionWorks ==
  ASSUME NEW D, NEW V, NEW stop, NEW next, NEW m, NEW base, NEW combine,
         Recursion(D, V, stop, next, m, base, combine)
  PROVE  \E f \in [D -> V] : \A x \in D : f[x] = Unfold(stop, next, base, combine, f, x)
  <1> DEFINE Known(f, n) == Computes(D, V, stop, next, m, base, combine, f, n)
             upTo == [n \in Nat |-> CHOOSE f : Known(f, n)]
             F == [x \in D |-> upTo[m[x] + 1][x]]
  <1>1. \A n \in Nat : Known(upTo[n], n)
    <2>1. \A n \in Nat : \E f : Known(f, n)
      BY ComputesFar
    <2> HIDE DEF Known
    <2>2. \A n \in Nat : upTo[n] = CHOOSE f : Known(f, n)
      OBVIOUS
    <2>3. QED
      BY <2>1, <2>2, Zenon
  <1> HIDE DEF upTo
  <1>2. \A x \in D : m[x] \in Nat
    BY DEF Recursion
  <1>3. \A n \in Nat : upTo[n] \in [D -> V]
    BY <1>1 DEF Computes
  <1>4. F \in [D -> V] /\ \A x \in D : F[x] = upTo[m[x] + 1][x]
    BY <1>2, <1>3
  <1> HIDE DEF F
  <1>5. ASSUME NEW x \in D
        PROVE  F[x] = Unfold(stop, next, base, combine, F, x)
    <2>1. m[x] + 1 \in Nat /\ m[x] < m[x] + 1
      BY <1>2
    <2>2. F[x] = Unfold(stop, next, base, combine, upTo[m[x] + 1], x)
      BY <1>1, <1>4, <2>1 DEF Computes
    <2>3. CASE x \in stop
      BY <2>2, <2>3 DEF Unfold
    <2>4. CASE x \notin stop
      <3> DEFINE y == next[x]
      <3>1. y \in D /\ m[y] < m[x] /\ m[y] \in Nat /\ m[x] \in Nat
        BY <2>4 DEF Recursion
      <3> HIDE DEF y
      <3>2. Known(upTo[m[y] + 1], m[y] + 1) /\ Known(upTo[m[x] + 1], m[x] + 1)
        BY <1>1, <2>1, <3>1
      <3>3. Known(upTo[m[x] + 1], m[y] + 1)
        <4>1. \A z \in D : m[z] \in Nat /\ (m[z] < m[y] + 1 => m[z] < m[x] + 1)
          BY <1>2, <3>1
        <4>2. QED
          BY <3>2, <4>1 DEF Computes
      <3>4. m[y] + 1 \in Nat /\ m[y] < m[y] + 1
        BY <3>1
      <3>5. upTo[m[y] + 1][y] = upTo[m[x] + 1][y]
        BY <3>1, <3>2, <3>3, <3>4, ComputesOnce
      <3>6. F[y] = upTo[m[x] + 1][y]
        BY <1>4, <3>1, <3>5
      <3>7. QED
        BY <2>2, <2>4, <3>6 DEF Unfold, y
    <2>5. QED
      BY <2>3, <2>4
  <1>6. QED
    BY <1>4, <1>5

-----------------------------------------------------------------------------
(* The encoder: varints.                                                   *)

Octets == 0 .. 255
Varints == CHOOSE f : f = [n \in Nat |->
  IF n >= 128 THEN <<(n % 128) + 128>> \o f[n \div 128] ELSE <<n>>]
VarintValues == CHOOSE f : f = [s \in Seq(0 .. 255) |->
  IF s = <<>> THEN 0 ELSE (Head(s) % 128) + 128 * f[Tail(s)]]

\* They do not depend on the constants of the encoder.
LEMMA VarintsOfEncoder ==
  ASSUME NEW p
  PROVE  Encoder(p)!Varint = Varints /\ Encoder(p)!VarintValue = VarintValues
  BY Zenon DEF Encoder!Varint, Varints, Encoder!VarintValue, VarintValues

LEMMA Divides ==
  ASSUME NEW n \in Nat, n >= 128
  PROVE  /\ n \div 128 \in Nat /\ n \div 128 >= 1 /\ n \div 128 < n
         /\ n % 128 \in 0 .. 127 /\ n = (n % 128) + 128 * (n \div 128)
  OBVIOUS

LEMMA VarintsUnfold ==
  /\ Varints \in [Nat -> Seq(Octets)]
  /\ \A n \in Nat : n >= 128 => Varints[n] = <<(n % 128) + 128>> \o Varints[n \div 128]
  /\ \A n \in Nat : n < 128 => Varints[n] = <<n>>
  <1> DEFINE V == Seq(Octets)
             stop == {n \in Nat : n < 128}
             next == [n \in Nat \ stop |-> n \div 128]
             m == [n \in Nat |-> n]
             base == [n \in stop |-> <<n>>]
             combine == [n \in Nat |-> [s \in V |-> <<(n % 128) + 128>> \o s]]
  <1>1. Recursion(Nat, V, stop, next, m, base, combine)
    <2>1. V # {} /\ stop \subseteq Nat /\ m \in [Nat -> Nat]
      <3>1. <<>> \in V
        OBVIOUS
      <3>2. QED
        BY <3>1
    <2>2. next \in [Nat \ stop -> Nat]
      BY Divides
    <2>3. base \in [stop -> V]
      <3>1. \A n \in stop : <<n>> \in Seq(Octets)
        BY DEF Octets
      <3>2. QED
        BY <3>1
    <2>4. combine \in [Nat -> [V -> V]]
      <3>1. \A n \in Nat : <<(n % 128) + 128>> \in V
        <4>1. \A n \in Nat : (n % 128) + 128 \in Octets
          BY DEF Octets
        <4>2. QED
          BY <4>1
      <3>2. \A n \in Nat : \A s \in V : <<(n % 128) + 128>> \o s \in V
        BY <3>1
      <3>3. QED
        BY <3>2
    <2>5. \A n \in Nat \ stop : m[next[n]] < m[n]
      BY Divides
    <2>6. QED
      BY <2>1, <2>2, <2>3, <2>4, <2>5 DEF Recursion
  <1> HIDE DEF V, stop, next, m, base, combine
  <1>2. PICK f \in [Nat -> V] : \A n \in Nat : f[n] = Unfold(stop, next, base, combine, f, n)
    BY <1>1, RecursionWorks
  <1> USE DEF V, stop, next, m, base, combine
  <1>3. \A n \in Nat :
           f[n] = IF n >= 128 THEN <<(n % 128) + 128>> \o f[n \div 128] ELSE <<n>>
    <2> SUFFICES ASSUME NEW n \in Nat
                 PROVE  f[n] = IF n >= 128 THEN <<(n % 128) + 128>> \o f[n \div 128] ELSE <<n>>
      OBVIOUS
    <2>1. CASE n >= 128
      <3>1. n \notin stop /\ next[n] = n \div 128 /\ n \div 128 \in Nat
        BY <2>1, Divides
      <3>2. f[n \div 128] \in V
        BY <3>1
      <3>3. combine[n][f[n \div 128]] = <<(n % 128) + 128>> \o f[n \div 128]
        BY <3>2
      <3> HIDE DEF stop, next, base, combine
      <3>4. f[n] = combine[n][f[n \div 128]]
        BY <1>2, <3>1 DEF Unfold
      <3>5. QED
        BY <2>1, <3>3, <3>4
    <2>2. CASE n < 128
      <3>1. n \in stop /\ base[n] = <<n>>
        BY <2>2
      <3> HIDE DEF stop, next, base, combine
      <3>2. f[n] = base[n]
        BY <1>2, <3>1 DEF Unfold
      <3>3. QED
        BY <2>2, <3>1, <3>2
    <2>3. n >= 128 \/ (n < 128 /\ ~(n >= 128))
      OBVIOUS
    <2>4. QED
      BY <2>1, <2>2, <2>3, Zenon
  <1> HIDE DEF V, stop, next, m, base, combine
  <1> DEFINE Body(g) == [n \in Nat |->
               IF n >= 128 THEN <<(n % 128) + 128>> \o g[n \div 128] ELSE <<n>>]
  <1>4. f = Body(f)
    <2>1. f = [n \in Nat |-> f[n]]
      BY <1>2
    <2>2. QED
      BY <1>3, <2>1
  <1>5. Varints = Body(Varints)
    <2>1. \E g : g = Body(g)
      BY <1>4
    <2>2. Varints = CHOOSE g : g = Body(g)
      BY DEF Varints
    <2> HIDE DEF Body
    <2>3. QED
      BY <2>1, <2>2, Zenon
  <1>6. /\ \A n \in Nat : n >= 128 => Varints[n] = <<(n % 128) + 128>> \o Varints[n \div 128]
        /\ \A n \in Nat : n < 128 => Varints[n] = <<n>>
    <2>1. \A n \in Nat : Varints[n] =
             IF n >= 128 THEN <<(n % 128) + 128>> \o Varints[n \div 128] ELSE <<n>>
      BY <1>5, Zenon
    <2>2. \A n \in Nat : n < 128 => ~(n >= 128)
      OBVIOUS
    <2>3. QED
      BY <2>1, <2>2, Zenon
  <1>7. DOMAIN Varints = Nat
    BY <1>5, Zenon
  <1>8. \A n \in Nat : Varints[n] \in Seq(Octets)
    <2> DEFINE Bad == {n \in Nat : Varints[n] \notin Seq(Octets)}
    <2>1. ASSUME Bad # {}
          PROVE  FALSE
      <3>1. PICK n \in Bad : \A k \in Bad : n <= k
        BY <2>1, LeastElement
      <3>2. CASE n >= 128
        <4>1. n \div 128 \in Nat /\ n \div 128 < n /\ (n % 128) + 128 \in Octets
          BY <3>2 DEF Octets
        <4>2. n \div 128 \notin Bad
          BY <3>1, <4>1
        <4>3. Varints[n \div 128] \in Seq(Octets)
          BY <4>1, <4>2
        <4>4. <<(n % 128) + 128>> \in Seq(Octets)
          BY <4>1
        <4>5. <<(n % 128) + 128>> \o Varints[n \div 128] \in Seq(Octets)
          BY <4>3, <4>4
        <4>6. QED
          BY <1>6, <3>2, <4>5
      <3>3. CASE n < 128
        <4>1. n \in Octets
          BY <3>3 DEF Octets
        <4>2. <<n>> \in Seq(Octets)
          BY <4>1
        <4>3. Varints[n] = <<n>>
          BY <1>6, <3>3
        <4>4. QED
          BY <4>2, <4>3
      <3>4. QED
        BY <3>2, <3>3
    <2>2. QED
      BY <2>1
  <1>9. Varints \in [Nat -> Seq(Octets)]
    <2>1. Varints = [n \in Nat |-> Varints[n]]
      BY <1>5, <1>7, Zenon
    <2>2. QED
      BY <1>8, <2>1
  <1>10. QED
    BY <1>6, <1>9

LEMMA ConsShape ==
  ASSUME NEW S, NEW b \in S, NEW t \in Seq(S)
  PROVE  /\ <<b>> \o t \in Seq(S) /\ <<b>> \o t # <<>>
         /\ Head(<<b>> \o t) = b /\ Tail(<<b>> \o t) = t
         /\ Len(<<b>> \o t) = Len(t) + 1
         /\ (<<b>> \o t)[1] = b /\ \A i \in 1 .. Len(t) : (<<b>> \o t)[i + 1] = t[i]
  <1> DEFINE q == <<b>> \o t
  <1>1. <<b>> \in Seq(S) /\ Len(<<b>>) = 1 /\ <<b>>[1] = b
    OBVIOUS
  <1>2. /\ q \in Seq(S) /\ Len(q) = 1 + Len(t)
        /\ \A i \in 1 .. 1 + Len(t) : q[i] = IF i <= 1 THEN <<b>>[i] ELSE t[i - 1]
    BY <1>1, ConcatProperties
  <1>3. Len(t) \in Nat
    OBVIOUS
  <1> HIDE DEF q
  <1>4. q[1] = b /\ \A i \in 1 .. Len(t) : q[i + 1] = t[i]
    BY <1>1, <1>2, <1>3
  <1>5. q # <<>> /\ Head(q) = b
    BY <1>2, <1>3, <1>4
  <1>6. /\ Tail(q) \in Seq(S) /\ Len(Tail(q)) = Len(q) - 1
        /\ \A i \in 1 .. Len(Tail(q)) : Tail(q)[i] = q[i + 1]
    BY <1>2, <1>5, HeadTailProperties
  <1>7. Len(Tail(q)) = Len(t)
    BY <1>2, <1>3, <1>6
  <1>8. \A i \in 1 .. Len(t) : Tail(q)[i] = t[i]
    BY <1>4, <1>6, <1>7
  <1>9. Tail(q) = t
    BY <1>6, <1>7, <1>8, SeqEqual
  <1>10. QED
    BY <1>2, <1>3, <1>4, <1>5, <1>9 DEF q

LEMMA ValuesUnfold ==
  /\ VarintValues[<<>>] = 0
  /\ \A s \in Seq(Octets) : s # <<>> =>
       VarintValues[s] = (Head(s) % 128) + 128 * VarintValues[Tail(s)]
  <1> DEFINE D == Seq(Octets)
             stop == {s \in D : s = <<>>}
             next == [s \in D \ stop |-> Tail(s)]
             m == [s \in D |-> Len(s)]
             base == [s \in stop |-> 0]
             combine == [s \in D |-> [v \in Int |->
                           IF s = <<>> THEN 0 ELSE (Head(s) % 128) + 128 * v]]
  <1>0. \A s \in D : s # <<>> =>
          /\ Tail(s) \in D /\ Len(Tail(s)) < Len(s) /\ Head(s) \in Octets
    <2>1. ASSUME NEW s \in D, s # <<>>
          PROVE  Tail(s) \in D /\ Len(Tail(s)) < Len(s) /\ Head(s) \in Octets
      <3>1. Tail(s) \in D /\ Len(Tail(s)) = Len(s) - 1 /\ Head(s) \in Octets
        BY <2>1, HeadTailProperties
      <3>2. Len(s) \in Nat
        OBVIOUS
      <3>3. QED
        BY <3>1, <3>2
    <2>2. QED
      BY <2>1
  <1>1. Recursion(D, Int, stop, next, m, base, combine)
    <2>1. Int # {} /\ stop \subseteq D /\ m \in [D -> Nat] /\ base \in [stop -> Int]
      OBVIOUS
    <2>2. next \in [D \ stop -> D]
      BY <1>0
    <2>3. combine \in [D -> [Int -> Int]]
      <3>1. \A s \in D : s # <<>> => Head(s) % 128 \in Int
        <4>1. \A b \in Octets : b % 128 \in Int
          BY DEF Octets
        <4>2. QED
          BY <1>0, <4>1, Zenon
      <3>2. \A s \in D : \A v \in Int :
               (IF s = <<>> THEN 0 ELSE (Head(s) % 128) + 128 * v) \in Int
        BY <3>1
      <3>3. QED
        BY <3>2
    <2>4. \A s \in D \ stop : m[next[s]] < m[s]
      <3>1. \A s \in D \ stop : next[s] = Tail(s) /\ s # <<>>
        OBVIOUS
      <3>2. \A s \in D : m[s] = Len(s)
        OBVIOUS
      <3>3. QED
        BY <1>0, <3>1, <3>2
    <2>5. QED
      BY <2>1, <2>2, <2>3, <2>4 DEF Recursion
  <1> HIDE DEF D, stop, next, m, base, combine
  <1>2. PICK f \in [D -> Int] : \A s \in D : f[s] = Unfold(stop, next, base, combine, f, s)
    BY <1>1, RecursionWorks
  <1> USE DEF D, stop, next, m, base, combine
  <1>3. ASSUME NEW s \in D
        PROVE  f[s] = IF s = <<>> THEN 0 ELSE (Head(s) % 128) + 128 * f[Tail(s)]
    <2>1. CASE s # <<>>
      <3>1. s \notin stop /\ next[s] = Tail(s) /\ Tail(s) \in D
        BY <1>0, <2>1
      <3>2. f[Tail(s)] \in Int
        BY <3>1
      <3>3. combine[s][f[Tail(s)]] = (Head(s) % 128) + 128 * f[Tail(s)]
        BY <2>1, <3>2
      <3> HIDE DEF D, stop, next, base, combine
      <3>4. f[s] = combine[s][f[Tail(s)]]
        BY <1>2, <3>1 DEF Unfold
      <3>5. QED
        BY <2>1, <3>3, <3>4
    <2>2. CASE s = <<>>
      <3>1. s \in stop /\ base[s] = 0
        BY <2>2
      <3> HIDE DEF D, stop, next, base, combine
      <3>2. f[s] = base[s]
        BY <1>2, <3>1 DEF Unfold
      <3>3. QED
        BY <2>2, <3>1, <3>2
    <2>3. QED
      BY <2>1, <2>2, Zenon
  <1> HIDE DEF stop, next, m, base, combine
  <1> DEFINE Body(g) == [s \in Seq(0 .. 255) |->
               IF s = <<>> THEN 0 ELSE (Head(s) % 128) + 128 * g[Tail(s)]]
  <1>4. f = Body(f)
    <2>1. f = [s \in D |-> f[s]]
      BY <1>2
    <2>2. D = Seq(0 .. 255)
      BY DEF Octets
    <2>3. QED
      BY <1>3, <2>1, <2>2
  <1>5. VarintValues = Body(VarintValues)
    <2>1. \E g : g = Body(g)
      BY <1>4
    <2>2. VarintValues = CHOOSE g : g = Body(g)
      BY DEF VarintValues
    <2> HIDE DEF Body
    <2>3. QED
      BY <2>1, <2>2, Zenon
  <1>6. \A s \in Seq(Octets) : VarintValues[s] =
           IF s = <<>> THEN 0 ELSE (Head(s) % 128) + 128 * VarintValues[Tail(s)]
    BY <1>5, Zenon DEF Octets
  <1>7. <<>> \in Seq(Octets)
    OBVIOUS
  <1>8. QED
    BY <1>6, <1>7, Zenon

\* A varint: all its octets but the last have the high bit, and it is read as the
\* number it was made of.
IsVarint(e) ==
  /\ e \in Seq(Octets) /\ Len(e) >= 1 /\ e[Len(e)] < 128
  /\ \A i \in 1 .. Len(e) - 1 : e[i] >= 128

LEMMA VarintsReadBack ==
  \A n \in Nat : IsVarint(Varints[n]) /\ VarintValues[Varints[n]] = n
  <1> DEFINE Good(n) == IsVarint(Varints[n]) /\ VarintValues[Varints[n]] = n
             Bad == {n \in Nat : ~Good(n)}
  <1>1. ASSUME NEW n \in Nat, n < 128
        PROVE  Good(n)
    <2>1. Varints[n] = <<n>> /\ n \in Octets /\ n % 128 = n
      BY <1>1, VarintsUnfold DEF Octets
    <2>2. IsVarint(<<n>>)
      <3>1. <<n>> \in Seq(Octets) /\ Len(<<n>>) = 1 /\ <<n>>[1] = n
        BY <2>1
      <3>2. QED
        BY <1>1, <3>1 DEF IsVarint
    <2>3. Head(<<n>>) = n /\ Tail(<<n>>) = <<>> /\ <<n>> # <<>>
      OBVIOUS
    <2>4. VarintValues[<<n>>] = (n % 128) + 128 * VarintValues[<<>>]
      BY <2>1, <2>2, <2>3, ValuesUnfold DEF IsVarint
    <2>5. VarintValues[<<n>>] = n
      BY <2>1, <2>4, ValuesUnfold
    <2>6. QED
      BY <2>1, <2>2, <2>5
  <1>2. ASSUME NEW n \in Nat, n >= 128, Good(n \div 128)
        PROVE  Good(n)
    <2> DEFINE b == (n % 128) + 128
               t == Varints[n \div 128]
               q == <<b>> \o t
    <2>1. b \in Octets /\ b >= 128 /\ b % 128 = n % 128 /\ n = (n % 128) + 128 * (n \div 128)
      BY <1>2, Divides DEF Octets
    <2>2. /\ t \in Seq(Octets) /\ Len(t) \in Nat /\ Len(t) >= 1 /\ t[Len(t)] < 128
          /\ \A i \in 1 .. Len(t) - 1 : t[i] >= 128
          /\ VarintValues[t] = n \div 128
      BY <1>2 DEF IsVarint
    <2>3. Varints[n] = q
      BY <1>2, VarintsUnfold
    <2> HIDE DEF b, t
    <2>4. /\ q \in Seq(Octets) /\ q # <<>> /\ Head(q) = b /\ Tail(q) = t
          /\ Len(q) = Len(t) + 1
          /\ q[1] = b /\ \A i \in 1 .. Len(t) : q[i + 1] = t[i]
      BY <2>1, <2>2, ConsShape
    <2> HIDE DEF q
    <2>5. q[Len(q)] < 128
      <3>1. Len(t) \in 1 .. Len(t)
        BY <2>2
      <3>2. QED
        BY <2>2, <2>4, <3>1
    <2>6. \A i \in 1 .. Len(q) - 1 : q[i] >= 128
      <3> SUFFICES ASSUME NEW i \in 1 .. Len(q) - 1 PROVE q[i] >= 128
        OBVIOUS
      <3>1. CASE i = 1
        BY <2>1, <2>4, <3>1
      <3>2. CASE i # 1
        <4>1. i - 1 \in 1 .. Len(t) - 1 /\ i - 1 \in 1 .. Len(t) /\ (i - 1) + 1 = i
          BY <2>2, <2>4, <3>2
        <4>2. q[i] = t[i - 1]
          BY <2>4, <4>1
        <4>3. QED
          BY <2>2, <4>1, <4>2
      <3>3. QED
        BY <3>1, <3>2
    <2>7. VarintValues[q] = (b % 128) + 128 * (n \div 128)
      <3>1. VarintValues[q] = (Head(q) % 128) + 128 * VarintValues[Tail(q)]
        BY <2>4, ValuesUnfold, Zenon
      <3>2. QED
        BY <2>2, <2>4, <3>1, Zenon
    <2>8. VarintValues[q] = n
      BY <2>1, <2>7
    <2>9. Len(q) >= 1
      BY <2>2, <2>4
    <2>10. QED
      BY <2>3, <2>4, <2>5, <2>6, <2>8, <2>9 DEF IsVarint
  <1> HIDE DEF Good
  <1>3. ASSUME Bad # {}
        PROVE  FALSE
    <2>1. PICK n \in Bad : \A k \in Bad : n <= k
      BY <1>3, LeastElement
    <2>2. n \in Nat /\ ~Good(n) /\ n >= 128
      BY <1>1
    <2>3. n \div 128 \in Nat /\ n \div 128 < n
      BY <2>2, Divides
    <2>4. n \div 128 \notin Bad
      BY <2>1, <2>2, <2>3
    <2>5. QED
      BY <1>2, <2>2, <2>3, <2>4
  <1>4. \A n \in Nat : Good(n)
    BY <1>3
  <1>5. QED
    BY <1>4 DEF Good

-----------------------------------------------------------------------------
(* The encoder: what is written reads back.                                *)

LEMMA SplitShape ==
  ASSUME NEW S, NEW e \in Seq(S), NEW r \in Seq(S)
  PROVE  /\ e \o r \in Seq(S) /\ Len(e \o r) = Len(e) + Len(r)
         /\ \A i \in 1 .. Len(e) : (e \o r)[i] = e[i]
         /\ SubSeq(e \o r, 1, Len(e)) = e
         /\ SubSeq(e \o r, Len(e) + 1, Len(e \o r)) = r
  <1> DEFINE q == e \o r
             a == SubSeq(q, 1, Len(e))
             b == SubSeq(q, Len(e) + 1, Len(q))
  <1>1. /\ q \in Seq(S) /\ Len(q) = Len(e) + Len(r)
        /\ \A i \in 1 .. Len(e) + Len(r) : q[i] = IF i <= Len(e) THEN e[i] ELSE r[i - Len(e)]
    BY ConcatProperties
  <1>2. Len(e) \in Nat /\ Len(r) \in Nat
    OBVIOUS
  <1> HIDE DEF q
  <1>3. \A i \in 1 .. Len(q) : q[i] \in S
    BY <1>1
  <1>4. /\ a \in Seq(S) /\ Len(a) = Len(e) /\ \A i \in 1 .. Len(e) : a[i] = q[i]
    <2>1. \A i \in 1 .. Len(e) : q[i] \in S
      BY <1>1, <1>2, <1>3
    <2>2. /\ a \in Seq(S)
          /\ Len(a) = IF 1 <= Len(e) THEN Len(e) - 1 + 1 ELSE 0
          /\ \A i \in 1 .. Len(e) - 1 + 1 : a[i] = q[1 + i - 1]
      BY <1>2, <2>1, SubSeqProperties
    <2> HIDE DEF a
    <2>3. Len(a) = Len(e)
      BY <1>2, <2>2
    <2>4. \A i \in 1 .. Len(e) : a[i] = q[i]
      <3>1. \A i \in 1 .. Len(e) : i \in 1 .. Len(e) - 1 + 1 /\ 1 + i - 1 = i
        BY <1>2
      <3>2. QED
        BY <2>2, <3>1
    <2>5. QED
      BY <2>2, <2>3, <2>4
  <1>5. /\ b \in Seq(S) /\ Len(b) = Len(r) /\ \A i \in 1 .. Len(r) : b[i] = q[Len(e) + i]
    <2>1. \A i \in Len(e) + 1 .. Len(q) : q[i] \in S
      BY <1>1, <1>2, <1>3
    <2>2. Len(e) + 1 \in Int /\ Len(q) \in Int
      BY <1>1, <1>2
    <2>3. /\ b \in Seq(S)
          /\ Len(b) = IF Len(e) + 1 <= Len(q) THEN Len(q) - (Len(e) + 1) + 1 ELSE 0
          /\ \A i \in 1 .. Len(q) - (Len(e) + 1) + 1 : b[i] = q[(Len(e) + 1) + i - 1]
      BY <2>1, <2>2, SubSeqProperties
    <2> HIDE DEF b
    <2>4. Len(b) = Len(r)
      BY <1>1, <1>2, <2>3
    <2>5. \A i \in 1 .. Len(r) : b[i] = q[Len(e) + i]
      <3>1. \A i \in 1 .. Len(r) : /\ i \in 1 .. Len(q) - (Len(e) + 1) + 1
                                   /\ (Len(e) + 1) + i - 1 = Len(e) + i
        BY <1>1, <1>2
      <3>2. QED
        BY <2>3, <3>1
    <2>6. QED
      BY <2>3, <2>4, <2>5
  <1> HIDE DEF a, b
  <1>6. \A i \in 1 .. Len(e) : q[i] = e[i]
    BY <1>1, <1>2
  <1>7. \A i \in 1 .. Len(r) : q[Len(e) + i] = r[i]
    <2> SUFFICES ASSUME NEW i \in 1 .. Len(r) PROVE q[Len(e) + i] = r[i]
      OBVIOUS
    <2>1. /\ Len(e) + i \in 1 .. Len(e) + Len(r) /\ ~(Len(e) + i <= Len(e))
          /\ (Len(e) + i) - Len(e) = i
      BY <1>2
    <2>2. QED
      BY <1>1, <2>1
  <1>8. a = e
    BY <1>4, <1>6, SeqEqual
  <1>9. b = r
    BY <1>5, <1>7, SeqEqual
  <1>10. QED
    BY <1>1, <1>6, <1>8, <1>9 DEF a, b, q

\* The consumer sees where a varint ends.
LEMMA VarintEnds ==
  ASSUME NEW p, NEW e, IsVarint(e), NEW r \in Seq(Octets)
  PROVE  Encoder(p)!VarintLen(e \o r) = Len(e)
  <1> DEFINE q == e \o r
             Ends(n) == q[n] < 128 /\ \A i \in 1 .. n - 1 : q[i] >= 128
  <1>0. \A x \in Octets : ~(x < 128 /\ x >= 128)
    BY DEF Octets
  <1>1. e \in Seq(Octets) /\ Len(e) \in Nat /\ Len(e) >= 1
    BY DEF IsVarint
  <1>2. /\ q \in Seq(Octets) /\ Len(q) = Len(e) + Len(r)
        /\ \A i \in 1 .. Len(e) : q[i] = e[i]
    BY <1>1, SplitShape
  <1>3. Len(r) \in Nat
    OBVIOUS
  <1> HIDE DEF q
  <1>4. DOMAIN q = 1 .. Len(q) /\ Len(e) \in DOMAIN q /\ Len(e) \in 1 .. Len(e)
    BY <1>1, <1>2, <1>3
  <1>5. Ends(Len(e))
    <2>1. \A i \in 1 .. Len(e) - 1 : i \in 1 .. Len(e)
      BY <1>1
    <2>2. QED
      BY <1>2, <1>4, <2>1 DEF IsVarint
  <1>6. ASSUME NEW n \in DOMAIN q, Ends(n)
        PROVE  n = Len(e)
    <2>1. n \in Nat /\ n >= 1
      BY <1>4
    <2>2. CASE n < Len(e)
      <3>1. n \in 1 .. Len(e) - 1 /\ n \in 1 .. Len(e)
        BY <1>1, <2>1, <2>2
      <3>2. e[n] >= 128 /\ e[n] \in Octets /\ q[n] = e[n]
        BY <1>1, <1>2, <3>1 DEF IsVarint
      <3>3. QED
        BY <1>0, <1>6, <3>2, Zenon DEF Ends
    <2>3. CASE n > Len(e)
      <3>1. Len(e) \in 1 .. n - 1
        BY <1>1, <2>1, <2>3
      <3>2. q[Len(e)] >= 128 /\ q[Len(e)] < 128 /\ q[Len(e)] \in Octets
        BY <1>1, <1>2, <1>4, <1>5, <1>6, <3>1
      <3>3. QED
        BY <1>0, <3>2, Zenon
    <2>4. QED
      BY <1>1, <2>1, <2>2, <2>3
  <1>7. Encoder(p)!VarintLen(q) = CHOOSE n \in DOMAIN q : Ends(n)
    BY Zenon DEF Encoder!VarintLen
  <1> HIDE DEF Ends
  <1>8. QED
    BY <1>4, <1>5, <1>6, <1>7 DEF q

LEMMA SpanShape == Span \in Nat
  <1>1. "bytes" \in Encoders
    BY DEF Encoders
  <1>2. Encoder("bytes")!AvroEncoderAssumption
    BY <1>1, EncoderAssumption
  <1>3. QED
    BY <1>2 DEF Encoder!AvroEncoderAssumption

\* Zig-zag keeps every long, the smallest one too.
LEMMA ZigZagReadsBack ==
  ASSUME NEW p, NEW v, Encoder(p)!IsLong(v)
  PROVE  /\ Encoder(p)!ZigZag(v) \in Nat
         /\ Encoder(p)!UnZigZag(Encoder(p)!ZigZag(v)) = v
  <1>1. v \in Int /\ -Span <= 2 * v /\ 2 * v < Span /\ Span \in Nat
    BY SpanShape DEF Encoder!IsLong
  <1>2. CASE v >= 0
    <2>1. (2 * v) % Span = 2 * v
      BY <1>1, <1>2
    <2>2. Encoder(p)!ZigZag(v) = 2 * v
      BY <1>1, <1>2, <2>1 DEF Encoder!ZigZag, Encoder!Unsigned
    <2>3. QED
      BY <1>1, <1>2, <2>2 DEF Encoder!UnZigZag
  <1>3. CASE v < 0
    <2>1. (2 * v) % Span = 2 * v + Span
      BY <1>1, <1>3
    <2>2. Encoder(p)!ZigZag(v) = -(2 * v) - 1
      BY <1>1, <1>3, <2>1 DEF Encoder!ZigZag, Encoder!Unsigned
    <2>3. QED
      BY <1>1, <1>3, <2>2 DEF Encoder!UnZigZag
  <1>4. QED
    BY <1>1, <1>2, <1>3

LEMMA LongReadsBack ==
  ASSUME NEW p, NEW v, Encoder(p)!IsLong(v), NEW r \in Seq(Octets)
  PROVE  /\ Encoder(p)!WriteAvroLong(v) \in Seq(Octets)
         /\ Encoder(p)!ReadLong(Encoder(p)!WriteAvroLong(v) \o r) = v
         /\ Encoder(p)!AfterLong(Encoder(p)!WriteAvroLong(v) \o r) = r
  <1> DEFINE n == Encoder(p)!ZigZag(v)
             e == Varints[n]
  <1>1. n \in Nat /\ Encoder(p)!UnZigZag(n) = v
    BY ZigZagReadsBack
  <1>2. Encoder(p)!WriteAvroLong(v) = e
    BY VarintsOfEncoder, Zenon DEF Encoder!WriteAvroLong
  <1> HIDE DEF n
  <1>3. IsVarint(e) /\ VarintValues[e] = n
    BY <1>1, VarintsReadBack
  <1> HIDE DEF e
  <1>4. e \in Seq(Octets) /\ Encoder(p)!VarintLen(e \o r) = Len(e)
    BY <1>3, VarintEnds DEF IsVarint
  <1>5. /\ SubSeq(e \o r, 1, Len(e)) = e
        /\ SubSeq(e \o r, Len(e) + 1, Len(e \o r)) = r
    BY <1>4, SplitShape
  <1>6. Encoder(p)!VarintValue[e] = n
    BY <1>3, VarintsOfEncoder, Zenon
  <1>7. Encoder(p)!ReadLong(e \o r) = v
    BY <1>1, <1>4, <1>5, <1>6, Zenon DEF Encoder!ReadLong
  <1>8. Encoder(p)!AfterLong(e \o r) = r
    BY <1>4, <1>5, Zenon DEF Encoder!AfterLong, Encoder!Rest
  <1>9. QED
    BY <1>2, <1>4, <1>7, <1>8, Zenon

LEMMA StringReadsBack ==
  ASSUME NEW p, NEW len \in Nat, Encoder(p)!IsLong(len), NEW r \in Seq(Octets)
  PROVE  /\ Encoder(p)!WriteAvroString(len) \in Seq(Octets)
         /\ Encoder(p)!ReadLong(Encoder(p)!WriteAvroString(len) \o r) = len
         /\ Encoder(p)!AfterString(Encoder(p)!WriteAvroString(len) \o r) = r
  <1> DEFINE e == Encoder(p)!WriteAvroLong(len)
             text == [i \in 1 .. len |-> 97]
             q == Encoder(p)!WriteAvroString(len) \o r
  <1>1. e \in Seq(Octets)
    <2>1. <<>> \in Seq(Octets)
      OBVIOUS
    <2>2. QED
      BY <2>1, LongReadsBack
  <1>2. text \in Seq(Octets) /\ Len(text) = len
    <2>1. text \in [1 .. len -> Octets]
      BY DEF Octets
    <2>2. text \in Seq(Octets)
      BY <2>1, FunctionIsSeq
    <2>3. Len(text) = len
      OBVIOUS
    <2>4. QED
      BY <2>2, <2>3
  <1>3. Encoder(p)!WriteAvroString(len) = e \o text
    BY Zenon DEF Encoder!WriteAvroString, Encoder!Letter
  <1> HIDE DEF e, text
  <1>4. e \o text \in Seq(Octets) /\ text \o r \in Seq(Octets) /\ (e \o text) \o r = e \o (text \o r)
    BY <1>1, <1>2, ConcatProperties, ConcatAssociative
  <1>5. q = e \o (text \o r)
    BY <1>3, <1>4, Zenon
  <1> HIDE DEF q
  <1>6. Encoder(p)!ReadLong(q) = len /\ Encoder(p)!AfterLong(q) = text \o r
    <2> DEFINE rest == text \o r
    <2>1. rest \in Seq(Octets)
      BY <1>4
    <2> HIDE DEF rest
    <2>2. /\ Encoder(p)!ReadLong(Encoder(p)!WriteAvroLong(len) \o rest) = len
          /\ Encoder(p)!AfterLong(Encoder(p)!WriteAvroLong(len) \o rest) = rest
      BY <2>1, LongReadsBack
    <2>3. QED
      BY <1>5, <2>2, Zenon DEF e, rest
  <1>7. SubSeq(text \o r, len + 1, Len(text \o r)) = r
    BY <1>2, SplitShape
  <1>8. Encoder(p)!AfterString(q) = r
    BY <1>6, <1>7, Zenon DEF Encoder!AfterString, Encoder!Rest
  <1>9. QED
    BY <1>3, <1>4, <1>6, <1>8 DEF q

LEMMA HeaderShape ==
  ASSUME NEW p, NEW i \in Nat
  PROVE  Encoder(p)!BigEndian(i) \in Seq(Octets) /\ Len(Encoder(p)!BigEndian(i)) = 4
  <1> DEFINE a == (i \div 16777216) % 256
             b == (i \div 65536) % 256
             c == (i \div 256) % 256
             d == i % 256
  <1>1. a \in Octets /\ b \in Octets /\ c \in Octets /\ d \in Octets
    BY DEF Octets
  <1>2. Encoder(p)!BigEndian(i) = <<a, b, c, d>>
    BY DEF Encoder!BigEndian
  <1> HIDE DEF a, b, c, d
  <1>3. <<a, b, c, d>> \in Seq(Octets) /\ Len(<<a, b, c, d>>) = 4
    BY <1>1
  <1>4. QED
    BY <1>2, <1>3

\* Every event, with strings of any length and any time, reads back as it was.
THEOREM EventReadsBack ==
  ASSUME NEW p, NEW i \in Nat, NEW e, Encoder(p)!IsEvent(e)
  PROVE  Encoder(p)!ReadsAs(Encoder(p)!EncodeEvent(i, e), i, e)
  <1> DEFINE B == Encoder(p)!BigEndian(i)
             U == Encoder(p)!WriteAvroString(e.userId)
             P == Encoder(p)!WriteAvroString(e.provider)
             T == Encoder(p)!WriteAvroLong(e.occurredAt)
             H == <<0>> \o B
             s == Encoder(p)!EncodeEvent(i, e)
  <1>1. /\ e.userId \in Nat /\ e.provider \in Nat /\ Encoder(p)!IsLong(e.userId)
        /\ Encoder(p)!IsLong(e.provider) /\ Encoder(p)!IsLong(e.occurredAt)
    BY DEF Encoder!IsEvent
  <1>2. <<>> \in Seq(Octets) /\ 0 \in Octets
    BY DEF Octets
  <1>3. /\ T \in Seq(Octets) /\ Encoder(p)!ReadLong(T \o <<>>) = e.occurredAt
        /\ Encoder(p)!AfterLong(T \o <<>>) = <<>>
    BY <1>1, <1>2, LongReadsBack
  <1>4. P \in Seq(Octets) /\ U \in Seq(Octets)
    BY <1>1, <1>2, StringReadsBack
  <1>5. /\ Encoder(p)!ReadLong(P \o T) = e.provider
        /\ Encoder(p)!AfterString(P \o T) = T
    BY <1>1, <1>3, StringReadsBack
  <1>6. B \in Seq(Octets) /\ Len(B) = 4
    BY HeaderShape
  <1>7. s = (((<<0>> \o B) \o U) \o P) \o T
    BY Zenon DEF Encoder!EncodeEvent
  <1>8. P \o T \in Seq(Octets)
    BY <1>3, <1>4, ConcatProperties
  <1>9. /\ Encoder(p)!ReadLong(U \o (P \o T)) = e.userId
        /\ Encoder(p)!AfterString(U \o (P \o T)) = P \o T
    BY <1>1, <1>8, StringReadsBack
  <1> HIDE DEF B, U, P, T, s
  <1>10. /\ H \in Seq(Octets) /\ Len(H) = 5 /\ H[1] = 0
         /\ \A k \in 1 .. 4 : H[k + 1] = B[k]
    <2>1. ASSUME NEW z \in Octets
          PROVE  /\ <<z>> \o B \in Seq(Octets) /\ Len(<<z>> \o B) = 4 + 1
                 /\ (<<z>> \o B)[1] = z /\ \A k \in 1 .. 4 : (<<z>> \o B)[k + 1] = B[k]
      <3> DEFINE q == <<z>> \o B
      <3>1. /\ q \in Seq(Octets) /\ Len(q) = Len(B) + 1
            /\ q[1] = z /\ \A k \in 1 .. Len(B) : q[k + 1] = B[k]
        <4>1. B \in Seq(Octets)
          BY <1>6
        <4>2. QED
          BY <4>1, ConsShape
      <3> HIDE DEF q
      <3>2. QED
        BY <1>6, <3>1 DEF q
    <2>2. /\ H \in Seq(Octets) /\ Len(H) = 4 + 1
          /\ H[1] = 0 /\ \A k \in 1 .. 4 : H[k + 1] = B[k]
      BY <1>2, <2>1, Zenon
    <2> HIDE DEF H
    <2>3. QED
      BY <2>2
  <1> HIDE DEF H
  <1>11. s = H \o (U \o (P \o T))
    <2>1. s = ((H \o U) \o P) \o T
      BY <1>7, Zenon DEF H
    <2>2. (H \o U) \o P = H \o (U \o P)
      BY <1>4, <1>10, ConcatAssociative
    <2>3. U \o P \in Seq(Octets)
      BY <1>4, ConcatProperties
    <2>4. ASSUME NEW X \in Seq(Octets)
          PROVE  (H \o X) \o T = H \o (X \o T)
      BY <1>3, <1>10, ConcatAssociative
    <2>5. (U \o P) \o T = U \o (P \o T)
      BY <1>3, <1>4, ConcatAssociative
    <2>6. QED
      BY <2>1, <2>2, <2>3, <2>4, <2>5, Zenon
  <1>12. U \o (P \o T) \in Seq(Octets)
    BY <1>4, <1>8, ConcatProperties
  <1>13. /\ s \in Seq(Octets) /\ \A k \in 1 .. 5 : s[k] = H[k]
         /\ SubSeq(s, 5 + 1, Len(s)) = U \o (P \o T)
    <2>1. ASSUME NEW X \in Seq(Octets)
          PROVE  /\ H \o X \in Seq(Octets) /\ \A k \in 1 .. 5 : (H \o X)[k] = H[k]
                 /\ SubSeq(H \o X, 5 + 1, Len(H \o X)) = X
      <3> DEFINE q == H \o X
      <3>1. /\ q \in Seq(Octets) /\ \A k \in 1 .. Len(H) : q[k] = H[k]
            /\ SubSeq(q, Len(H) + 1, Len(q)) = X
        <4>1. H \in Seq(Octets)
          BY <1>10
        <4>2. QED
          BY <4>1, SplitShape
      <3>2. Len(H) = 5
        BY <1>10
      <3> HIDE DEF q
      <3>3. QED
        BY <3>1, <3>2, Zenon DEF q
    <2>2. QED
      BY <1>11, <1>12, <2>1, Zenon
  <1>14. s[1] = 0
    BY <1>10, <1>13
  <1>15. SubSeq(s, 2, 5) = B
    <2> DEFINE h == SubSeq(s, 2, 5)
    <2>1. \A k \in 2 .. 5 : s[k] \in Octets
      <3>1. \A k \in 2 .. 5 : k \in 1 .. 5 /\ k \in 1 .. Len(H)
        BY <1>10
      <3>2. QED
        BY <1>10, <1>13, <3>1, ElementOfSeq
    <2>2. h \in Seq(Octets) /\ Len(h) = 4 /\ \A k \in 1 .. 4 : h[k] = s[2 + k - 1]
      BY <2>1, SubSeqProperties
    <2> HIDE DEF h
    <2>3. \A k \in 1 .. 4 : h[k] = B[k]
      <3>1. \A k \in 1 .. 4 : 2 + k - 1 = k + 1 /\ k + 1 \in 1 .. 5
        OBVIOUS
      <3>2. QED
        BY <1>10, <1>13, <2>2, <3>1
    <2>4. h = B
      BY <1>6, <2>2, <2>3, SeqEqual
    <2>5. QED
      BY <2>4 DEF h
  <1>16. T \o <<>> = T
    BY <1>3, ConcatEmptySeq
  <1>17. Encoder(p)!ReadLong(T) = e.occurredAt /\ Encoder(p)!AfterLong(T) = <<>>
    BY <1>3, <1>16, Zenon
  <1>18. Encoder(p)!Rest(s, 5) = U \o (P \o T)
    BY <1>13, Zenon DEF Encoder!Rest
  <1>19. Encoder(p)!ReadsAs(s, i, e)
    BY <1>5, <1>9, <1>14, <1>15, <1>17, <1>18, Zenon DEF Encoder!ReadsAs, B
  <1>20. QED
    BY <1>19 DEF s

-----------------------------------------------------------------------------
(* The encoder: the schema id its publishers share.                        *)

EncoderConstants(p) ==
  /\ "none" \notin EncoderWorkers(p) /\ SchemaIds \subseteq Nat \ {0}
  /\ \A e \in EncoderEvents(p) : Encoder(p)!IsEvent(e)

LEMMA EncoderShape == ASSUME NEW p \in Encoders PROVE EncoderConstants(p)
  <1>1. Encoder(p)!AvroEncoderAssumption
    BY EncoderAssumption
  <1>2. QED
    BY <1>1, Zenon DEF Encoder!AvroEncoderAssumption, EncoderConstants

\* A record holds the bytes of its event with the cached id.
RecordInv(p, r) ==
  /\ r.id = schemaID /\ schemaID # 0 /\ r.event \in EncoderEvents(p)
  /\ r.bytes = Encoder(p)!EncodeEvent(r.id, r.event)

\* A worker that encodes has the cached id; the one that asks holds the mutex, and
\* there is no id yet.
WorkerInv(w) ==
  /\ encoderPc[w] = "encode" => id[w] = schemaID /\ schemaID # 0
  /\ encoderPc[w] = "post" => mu = w /\ schemaID = 0

EncoderTypes(p) ==
  /\ encoderPc \in [EncoderWorkers(p) -> {"idle", "lock", "post", "encode"}]
  /\ given \in [EncoderWorkers(p) -> EncoderEvents(p)]
  /\ id \in [EncoderWorkers(p) -> SchemaIds \cup {0}]
  /\ result \in [EncoderWorkers(p) -> {"none", "ok", "error"}]
  /\ mu \in EncoderWorkers(p) \cup {"none"}
  /\ schemaID \in SchemaIds \cup {0} /\ registered \in SchemaIds \cup {0}

\* The id that is cached is the one that the registry has, and was asked for once.
EncoderInv(p) ==
  /\ EncoderTypes(p)
  /\ schemaID # 0 => schemaID = registered
  /\ posts = IF schemaID = 0 THEN 0 ELSE 1
  /\ \A w \in EncoderWorkers(p) : WorkerInv(w)
  /\ \A r \in produced : RecordInv(p, r)

LEMMA EncoderStarts ==
  ASSUME NEW p \in Encoders, Encoder(p)!Init
  PROVE  EncoderInv(p)
  <1>1. EncoderTypes(p)
    BY DEF Encoder!Init, EncoderTypes, Encoder!None
  <1>2. \A w \in EncoderWorkers(p) : WorkerInv(w)
    BY DEF Encoder!Init, WorkerInv
  <1>3. schemaID = 0 /\ posts = 0 /\ produced = {}
    BY DEF Encoder!Init
  <1>4. QED
    BY <1>1, <1>2, <1>3 DEF EncoderInv

\* A step of one worker that leaves the mutex, the id and the topic alone.
LEMMA OthersKeep ==
  ASSUME NEW p \in Encoders, EncoderInv(p), NEW w \in EncoderWorkers(p), EncoderTypes(p)',
         UNCHANGED <<mu, schemaID, registered, posts, produced>>,
         \A v \in EncoderWorkers(p) \ {w} : encoderPc'[v] = encoderPc[v] /\ id'[v] = id[v],
         WorkerInv(w)'
  PROVE  EncoderInv(p)'
  <1>1. \A v \in EncoderWorkers(p) \ {w} : WorkerInv(v)'
    BY DEF EncoderInv, WorkerInv
  <1>2. \A r \in produced' : RecordInv(p, r)'
    BY DEF EncoderInv, RecordInv
  <1>3. QED
    BY <1>1, <1>2 DEF EncoderInv

LEMMA EncoderSteps ==
  ASSUME NEW p \in Encoders, EncoderInv(p), Encoder(p)!Next
  PROVE  EncoderInv(p)'
  <1>0. PICK w \in EncoderWorkers(p) :
          \/ \E e \in EncoderEvents(p) : Encoder(p)!Serialize(w, e)
          \/ Encoder(p)!DecodeFails(w) \/ Encoder(p)!Cached(w) \/ Encoder(p)!Post(w)
          \/ Encoder(p)!PostSucceeds(w) \/ Encoder(p)!PostFails(w) \/ Encoder(p)!Encode(w)
    BY DEF Encoder!Next
  <1>1. EncoderTypes(p) /\ WorkerInv(w) /\ EncoderConstants(p)
    BY EncoderShape DEF EncoderInv
  <1>2. ASSUME NEW e \in EncoderEvents(p), Encoder(p)!Serialize(w, e)
        PROVE  EncoderInv(p)'
    <2>1. EncoderTypes(p)'
      BY <1>1, <1>2 DEF Encoder!Serialize, EncoderTypes
    <2>2. /\ encoderPc'[w] = "lock"
          /\ \A v \in EncoderWorkers(p) \ {w} : encoderPc'[v] = encoderPc[v] /\ id'[v] = id[v]
          /\ UNCHANGED <<mu, schemaID, registered, posts, produced>>
      BY <1>1, <1>2 DEF Encoder!Serialize, EncoderTypes
    <2>3. WorkerInv(w)'
      BY <2>2 DEF WorkerInv
    <2>4. QED
      BY <2>1, <2>2, <2>3, OthersKeep
  <1>3. CASE Encoder(p)!DecodeFails(w)
    <2>1. EncoderTypes(p)'
      BY <1>1, <1>3 DEF Encoder!DecodeFails, EncoderTypes
    <2>2. UNCHANGED <<encoderPc, id, mu, schemaID, registered, posts, produced>>
      BY <1>3 DEF Encoder!DecodeFails
    <2>3. WorkerInv(w)'
      BY <1>1, <2>2 DEF WorkerInv
    <2>4. QED
      BY <2>1, <2>2, <2>3, OthersKeep
  <1>4. CASE Encoder(p)!Cached(w)
    <2>1. EncoderTypes(p)'
      BY <1>1, <1>4 DEF Encoder!Cached, EncoderTypes
    <2>2. /\ encoderPc'[w] = "encode" /\ id'[w] = schemaID /\ schemaID # 0
          /\ \A v \in EncoderWorkers(p) \ {w} : encoderPc'[v] = encoderPc[v] /\ id'[v] = id[v]
          /\ UNCHANGED <<mu, schemaID, registered, posts, produced>>
      BY <1>1, <1>4 DEF Encoder!Cached, EncoderTypes
    <2>3. WorkerInv(w)'
      BY <2>2 DEF WorkerInv
    <2>4. QED
      BY <2>1, <2>2, <2>3, OthersKeep
  <1>5. CASE Encoder(p)!Post(w)
    <2>1. EncoderTypes(p)'
      BY <1>1, <1>5 DEF Encoder!Post, EncoderTypes
    <2>2. /\ encoderPc'[w] = "post" /\ mu = "none" /\ mu' = w /\ schemaID = 0
          /\ \A v \in EncoderWorkers(p) \ {w} : encoderPc'[v] = encoderPc[v]
          /\ UNCHANGED <<id, schemaID, registered, posts, produced>>
      BY <1>1, <1>5 DEF Encoder!Post, EncoderTypes, Encoder!None
    <2>3. \A v \in EncoderWorkers(p) : encoderPc[v] # "post"
      BY <1>1, <2>2 DEF EncoderInv, WorkerInv, EncoderConstants
    <2>4. \A v \in EncoderWorkers(p) : WorkerInv(v)'
      BY <2>2, <2>3 DEF EncoderInv, WorkerInv
    <2>5. \A r \in produced' : RecordInv(p, r)'
      BY <2>2 DEF EncoderInv, RecordInv
    <2>6. QED
      BY <2>1, <2>2, <2>4, <2>5 DEF EncoderInv
  <1>6. CASE Encoder(p)!PostSucceeds(w)
    <2>1. PICK i \in Encoder(p)!RegistryId :
             registered' = i /\ schemaID' = i /\ id' = [id EXCEPT ![w] = i]
      BY <1>6 DEF Encoder!PostSucceeds
    <2>2. i \in SchemaIds /\ i # 0
      BY <1>1, <2>1 DEF Encoder!RegistryId, EncoderTypes, EncoderConstants
    <2>3. /\ encoderPc[w] = "post" /\ encoderPc' = [encoderPc EXCEPT ![w] = "encode"]
          /\ posts' = posts + 1 /\ mu' = "none" /\ UNCHANGED <<given, result, produced>>
      BY <1>6 DEF Encoder!PostSucceeds, Encoder!None
    <2>4. EncoderTypes(p)'
      BY <1>1, <2>1, <2>2, <2>3 DEF EncoderTypes
    <2>5. mu = w /\ schemaID = 0 /\ posts = 0
      BY <1>1, <2>3 DEF EncoderInv, WorkerInv
    <2>6. /\ encoderPc'[w] = "encode" /\ id'[w] = i
          /\ \A v \in EncoderWorkers(p) \ {w} : encoderPc'[v] = encoderPc[v]
      BY <1>1, <2>1, <2>3 DEF EncoderTypes
    <2>7. \A v \in EncoderWorkers(p) \ {w} : encoderPc[v] \notin {"post", "encode"}
      BY <2>5 DEF EncoderInv, WorkerInv
    <2>8. \A v \in EncoderWorkers(p) : WorkerInv(v)'
      BY <2>1, <2>2, <2>6, <2>7 DEF WorkerInv
    <2>9. produced = {}
      BY <2>5 DEF EncoderInv, RecordInv
    <2>10. QED
      BY <2>1, <2>2, <2>3, <2>4, <2>5, <2>8, <2>9 DEF EncoderInv
  <1>7. CASE Encoder(p)!PostFails(w)
    <2>1. PICK i \in {0} \cup Encoder(p)!RegistryId :
             registered' = IF i = 0 THEN registered ELSE i
      BY <1>7 DEF Encoder!PostFails
    <2>2. registered' \in SchemaIds \cup {0}
      BY <1>1, <2>1 DEF Encoder!RegistryId, EncoderTypes
    <2>3. /\ encoderPc[w] = "post" /\ encoderPc' = [encoderPc EXCEPT ![w] = "idle"]
          /\ result' = [result EXCEPT ![w] = "error"]
          /\ mu' = "none" /\ UNCHANGED <<given, id, schemaID, posts, produced>>
      BY <1>7 DEF Encoder!PostFails, Encoder!None
    <2>4. EncoderTypes(p)'
      BY <1>1, <2>2, <2>3 DEF EncoderTypes
    <2>5. mu = w /\ schemaID = 0
      BY <1>1, <2>3 DEF WorkerInv
    <2>6. /\ encoderPc'[w] = "idle"
          /\ \A v \in EncoderWorkers(p) \ {w} : encoderPc'[v] = encoderPc[v]
      BY <1>1, <2>3 DEF EncoderTypes
    <2>7. \A v \in EncoderWorkers(p) \ {w} : encoderPc[v] \notin {"post", "encode"}
      BY <2>5 DEF EncoderInv, WorkerInv
    <2>8. \A v \in EncoderWorkers(p) : WorkerInv(v)'
      BY <2>6, <2>7 DEF WorkerInv
    <2>9. produced = {}
      BY <2>5 DEF EncoderInv, RecordInv
    <2>10. QED
      BY <2>3, <2>4, <2>5, <2>8, <2>9 DEF EncoderInv
  <1>8. CASE Encoder(p)!Encode(w)
    <2>1. /\ encoderPc[w] = "encode" /\ encoderPc' = [encoderPc EXCEPT ![w] = "idle"]
          /\ result' = [result EXCEPT ![w] = "ok"] /\ id' = [id EXCEPT ![w] = 0]
          /\ UNCHANGED <<given, mu, schemaID, registered, posts>>
      BY <1>8 DEF Encoder!Encode
    <2>2. produced' = {[id |-> id[w], event |-> given[w],
                        bytes |-> Encoder(p)!EncodeEvent(id[w], given[w])]}
      BY <1>8 DEF Encoder!Encode
    <2>3. EncoderTypes(p)'
      BY <1>1, <2>1 DEF EncoderTypes
    <2>4. /\ encoderPc'[w] = "idle"
          /\ \A v \in EncoderWorkers(p) \ {w} : encoderPc'[v] = encoderPc[v] /\ id'[v] = id[v]
      BY <1>1, <2>1 DEF EncoderTypes
    <2>5. \A v \in EncoderWorkers(p) : WorkerInv(v)'
      BY <2>1, <2>4 DEF EncoderInv, WorkerInv
    <2>6. id[w] = schemaID /\ schemaID # 0 /\ given[w] \in EncoderEvents(p)
      BY <1>1, <2>1 DEF WorkerInv, EncoderTypes
    <2>7. \A r \in produced' : RecordInv(p, r)'
      BY <2>1, <2>2, <2>6 DEF RecordInv
    <2>8. QED
      BY <2>1, <2>3, <2>5, <2>7 DEF EncoderInv
  <1>9. QED
    BY <1>0, <1>2, <1>3, <1>4, <1>5, <1>6, <1>7, <1>8

LEMMA RecordsHold ==
  ASSUME NEW p \in Encoders, EncoderInv(p)
  PROVE  Encoder(p)!TypeOK /\ Encoder(p)!RecordsReadBack /\ Encoder(p)!OneIdRequest
  <1>1. EncoderTypes(p) /\ EncoderConstants(p) /\ posts \in {0, 1}
    BY EncoderShape DEF EncoderInv
  <1>2. Encoder(p)!TypeOK
    BY <1>1 DEF EncoderTypes, Encoder!TypeOK, Encoder!None
  <1>3. Encoder(p)!RecordsReadBack
    <2> SUFFICES ASSUME NEW r \in produced
                 PROVE  r.id = registered /\ Encoder(p)!ReadsAs(r.bytes, r.id, r.event)
      BY DEF Encoder!RecordsReadBack
    <2>1. RecordInv(p, r)
      BY DEF EncoderInv
    <2>2. r.id = registered /\ r.id \in Nat
      BY <1>1, <2>1 DEF EncoderInv, EncoderTypes, EncoderConstants, RecordInv
    <2>3. Encoder(p)!IsEvent(r.event)
      BY <1>1, <2>1 DEF EncoderConstants, RecordInv
    <2>4. Encoder(p)!ReadsAs(Encoder(p)!EncodeEvent(r.id, r.event), r.id, r.event)
      BY <2>2, <2>3, EventReadsBack
    <2>5. QED
      BY <2>1, <2>2, <2>4 DEF RecordInv
  <1>4. Encoder(p)!OneIdRequest
    BY <1>1 DEF Encoder!OneIdRequest
  <1>5. QED
    BY <1>2, <1>3, <1>4

EncodersInv == \A p \in Encoders : part = p => EncoderInv(p)

\* Every record in the topic reads back as its event, with strings of any length
\* and any time that a long can hold, under the id that the registry has; and
\* workers that share the encoder have asked for that id once.
THEOREM RecordsStayReadable == ProcessSpec => []RecordsAreReadable
  <1>1. ProcessInit => EncodersInv
    <2> SUFFICES ASSUME ProcessInit, NEW p \in Encoders, part = p PROVE EncoderInv(p)
      BY DEF EncodersInv
    <2>1. Encoder(p)!Init
      <3>1. CASE p = "bytes"
        BY <3>1 DEF ProcessInit
      <3>2. CASE p = "shared"
        BY <3>2 DEF ProcessInit
      <3>3. QED
        BY <3>1, <3>2 DEF Encoders
    <2>2. QED
      BY <2>1, EncoderStarts
  <1>2. EncodersInv /\ [ProcessNext]_<<vars, part, service, rpc, encoder, trace>> => EncodersInv'
    <2> SUFFICES ASSUME EncodersInv, [ProcessNext]_<<vars, part, service, rpc, encoder, trace>>,
                        NEW p \in Encoders, part = p
                 PROVE  EncoderInv(p)'
      BY DEF EncodersInv, ProcessNext
    <2>1. EncoderInv(p)
      BY DEF EncodersInv
    <2>2. CASE UNCHANGED encoder
      <3>1. /\ encoderPc' = encoderPc /\ given' = given /\ id' = id /\ result' = result
            /\ mu' = mu /\ schemaID' = schemaID /\ registered' = registered
            /\ posts' = posts /\ produced' = produced
        BY <2>2 DEF encoder
      <3>2. EncoderTypes(p)' /\ (\A w \in EncoderWorkers(p) : WorkerInv(w)')
        BY <2>1, <3>1 DEF EncoderInv, EncoderTypes, WorkerInv
      <3>3. \A r \in produced' : RecordInv(p, r)'
        BY <2>1, <3>1 DEF EncoderInv, RecordInv
      <3>4. QED
        BY <2>1, <3>1, <3>2, <3>3 DEF EncoderInv
    <2>3. EncoderNext \/ UNCHANGED encoder
      BY DEF ProcessNext
    <2>4. EncoderNext => Encoder(p)!Next
      BY DEF EncoderNext
    <2>5. QED
      BY <2>1, <2>2, <2>3, <2>4, EncoderSteps
  <1>3. EncodersInv => RecordsAreReadable
    BY RecordsHold DEF EncodersInv, RecordsAreReadable
  <1>4. QED
    BY <1>1, <1>2, <1>3, PTL DEF ProcessSpec

==============================================================================
