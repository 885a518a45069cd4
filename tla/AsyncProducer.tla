---------------------------- MODULE AsyncProducer ----------------------------
(***************************************************************************)
(* The asynchronous Kafka producer                                         *)
(* (pkg/adapters/kafka/producer/async-producer): goroutines that queue     *)
(* messages, the loop of Run that reads the results, and Close.  sarama is *)
(* external: unbuffered channels, a pipeline that holds a bounded number   *)
(* of unanswered messages, and a shutdown that answers what is in the      *)
(* pipeline before it closes the channels.                                 *)
(***************************************************************************)
EXTENDS Naturals, FiniteSets

CONSTANTS Senders,      \* goroutines that call SendTypedMessages once
          MaxBatch,     \* messages of a call
          Pipe,         \* unanswered messages that sarama holds
          ReturnErrors, ReturnSuccesses,  \* SaveReturningStatus
          OwnerWaits    \* the owner waits for the senders before Close, and
                        \* ends the context only after it

AsyncProducerAssumption ==
  /\ MaxBatch \in Nat /\ Pipe \in Nat \ {0}
  /\ {ReturnErrors, ReturnSuccesses, OwnerWaits} \subseteq BOOLEAN

Messages == Senders \X (1 .. MaxBatch)

VARIABLES
  pc,         \* [Senders -> "idle", "sending", "ok", "error", "panic"]
  size,       \* messages of the call
  bad,        \* the position of a value that cannot be serialized, 0 for none
  msg,        \* what became of each message
  loop,       \* the goroutine of Run
  watched,    \* the channels its select still watches
  cancelled,  \* ctx is done
  closer,     \* how far Close has come
  handled,    \* messages the error handler was called for
  closeErrs   \* messages in the error that Close returns

vars == <<pc, size, bad, msg, loop, watched, cancelled, closer, handled, closeErrs>>

\* One type invariant.
TypeOK ==
  /\ pc \in [Senders -> {"idle", "sending", "ok", "error", "panic"}]
  /\ size \in [Senders -> 0 .. MaxBatch] /\ bad \in [Senders -> 0 .. MaxBatch]
  /\ msg \in [Messages -> {"new", "inflight", "delivered", "failed", "refused", "done"}]
  /\ loop \in {"running", "ended"}
  /\ watched \subseteq {"errors", "successes"}
  /\ cancelled \in BOOLEAN
  /\ closer \in {"no", "shutdown", "waiting", "closed", "returned", "crashed"}
  /\ handled \subseteq Messages /\ closeErrs \subseteq Messages
  /\ handled \cap closeErrs = {}

\* NewTopicProducer and Run: the loop is started before anything is queued.
Init ==
  /\ pc = [s \in Senders |-> "idle"]
  /\ size = [s \in Senders |-> 0] /\ bad = [s \in Senders |-> 0]
  /\ msg = [m \in Messages |-> "new"]
  /\ loop = "running" /\ watched = {"errors", "successes"}
  /\ cancelled = FALSE /\ closer = "no"
  /\ handled = {} /\ closeErrs = {}

InFlight == {m \in Messages : msg[m] \in {"inflight", "delivered", "failed"}}
Refused == {m \in Messages : msg[m] = "refused"}
Finish(m) == msg' = [msg EXCEPT ![m] = "done"]

-----------------------------------------------------------------------------
(* SendTypedMessage and SendTypedMessages.                                 *)

Send(s) ==
  /\ pc[s] = "idle" /\ closer \notin {"closed", "returned", "crashed"}
  /\ OwnerWaits => closer = "no"
  /\ pc' = [pc EXCEPT ![s] = "sending"]
  /\ \E n \in 1 .. MaxBatch, b \in 0 .. MaxBatch :
       /\ b <= n
       /\ size' = [size EXCEPT ![s] = n]
       /\ bad' = [bad EXCEPT ![s] = b]
  /\ UNCHANGED <<msg, loop, watched, cancelled, closer, handled, closeErrs>>

Sent(s) == Cardinality({i \in 1 .. size[s] : msg[<<s, i>>] # "new"})

\* The next value cannot be serialized: the error handler is called and the
\* rest of the batch is not sent; what was queued before stays queued.
SerializeFails(s) ==
  /\ pc[s] = "sending" /\ bad[s] = Sent(s) + 1
  /\ pc' = [pc EXCEPT ![s] = "error"]
  /\ handled' = handled \cup {<<s, bad[s]>>}
  /\ UNCHANGED <<size, bad, msg, loop, watched, cancelled, closer, closeErrs>>

\* t.producer.Input() <- message meets sarama's dispatcher, which is busy
\* while it hands over a refusal and stops reading when the pipeline is full.
Queue(s) ==
  /\ pc[s] = "sending" /\ Sent(s) < size[s] /\ bad[s] # Sent(s) + 1
  /\ closer \in {"no", "shutdown", "waiting"} /\ Refused = {}
  /\ IF closer = "waiting"
       THEN msg' = [msg EXCEPT ![<<s, Sent(s) + 1>>] = IF ReturnErrors THEN "refused" ELSE "done"]
       ELSE Cardinality(InFlight) < Pipe /\ msg' = [msg EXCEPT ![<<s, Sent(s) + 1>>] = "inflight"]
  /\ UNCHANGED <<pc, size, bad, loop, watched, cancelled, closer, handled, closeErrs>>

\* A send on the closed Input channel.
SendPanics(s) ==
  /\ pc[s] = "sending" /\ Sent(s) < size[s] /\ bad[s] # Sent(s) + 1
  /\ closer \in {"closed", "returned"}
  /\ pc' = [pc EXCEPT ![s] = "panic"]
  /\ UNCHANGED <<size, bad, msg, loop, watched, cancelled, closer, handled, closeErrs>>

SendReturns(s) ==
  /\ pc[s] = "sending" /\ Sent(s) = size[s]
  /\ pc' = [pc EXCEPT ![s] = "ok"]
  /\ UNCHANGED <<size, bad, msg, loop, watched, cancelled, closer, handled, closeErrs>>

-----------------------------------------------------------------------------
(* sarama's pipeline: each message is answered; the answer waits for a     *)
(* reader when the configuration returns it.                               *)

Answer(m) ==
  /\ msg[m] = "inflight"
  /\ \/ msg' = [msg EXCEPT ![m] = IF ReturnSuccesses THEN "delivered" ELSE "done"]
     \/ msg' = [msg EXCEPT ![m] = IF ReturnErrors THEN "failed" ELSE "done"]
  /\ UNCHANGED <<pc, size, bad, loop, watched, cancelled, closer, handled, closeErrs>>

-----------------------------------------------------------------------------
(* The loop of Run.                                                        *)

\* A bug: the loop ends with the first failed message.
LoopTakesError_Stops(m) ==
  /\ loop = "running" /\ "errors" \in watched /\ msg[m] \in {"failed", "refused"}
  /\ Finish(m)
  /\ handled' = handled \cup {m}
  /\ loop' = "ended"
  /\ UNCHANGED <<pc, size, bad, watched, cancelled, closer, closeErrs>>

LoopTakesError(m) ==
  /\ loop = "running" /\ "errors" \in watched /\ msg[m] \in {"failed", "refused"}
  /\ Finish(m)
  /\ handled' = handled \cup {m}
  /\ UNCHANGED <<pc, size, bad, loop, watched, cancelled, closer, closeErrs>>

LoopTakesSuccess(m) ==
  /\ loop = "running" /\ "successes" \in watched /\ msg[m] = "delivered"
  /\ Finish(m)
  /\ UNCHANGED <<pc, size, bad, loop, watched, cancelled, closer, handled, closeErrs>>

\* A closed channel is watched no longer; the last one ends the loop.
LoopSeesClosed(ch) ==
  /\ loop = "running" /\ ch \in watched /\ closer \in {"closed", "returned"}
  /\ watched' = watched \ {ch}
  /\ loop' = IF watched' = {} THEN "ended" ELSE loop
  /\ UNCHANGED <<pc, size, bad, msg, cancelled, closer, handled, closeErrs>>

LoopSeesDone ==
  /\ loop = "running" /\ cancelled
  /\ loop' = "ended"
  /\ UNCHANGED <<pc, size, bad, msg, watched, cancelled, closer, handled, closeErrs>>

-----------------------------------------------------------------------------
(* The owner, and Close.                                                   *)

CtxDone ==
  /\ ~cancelled /\ (OwnerWaits => closer \in {"closed", "returned"})
  /\ cancelled' = TRUE
  /\ UNCHANGED <<pc, size, bad, msg, loop, watched, closer, handled, closeErrs>>

Close ==
  /\ closer = "no"
  /\ IF OwnerWaits THEN \A s \in Senders : pc[s] \in {"ok", "error"} ELSE cancelled
  /\ closer' = "shutdown"
  /\ UNCHANGED <<pc, size, bad, msg, loop, watched, cancelled, handled, closeErrs>>

\* shutdown's own message meets the dispatcher like any other.
ShutdownDispatched ==
  /\ closer = "shutdown" /\ Refused = {} /\ Cardinality(InFlight) < Pipe
  /\ closer' = "waiting"
  /\ UNCHANGED <<pc, size, bad, msg, loop, watched, cancelled, handled, closeErrs>>

\* The pipeline is empty: the channels are closed.  A dispatcher that is
\* handing over a refusal at that moment sends on a closed channel.
ShutdownCloses ==
  /\ closer = "waiting" /\ InFlight = {}
  /\ closer' = IF Refused = {} THEN "closed" ELSE "crashed"
  /\ UNCHANGED <<pc, size, bad, msg, loop, watched, cancelled, handled, closeErrs>>

\* Close reads both channels, next to the loop.
CloseDrains(m) ==
  /\ closer \in {"shutdown", "waiting"}
  /\ msg[m] \in {"delivered", "failed", "refused"}
  /\ Finish(m)
  /\ closeErrs' = IF msg[m] = "delivered" THEN closeErrs ELSE closeErrs \cup {m}
  /\ UNCHANGED <<pc, size, bad, loop, watched, cancelled, closer, handled>>

\* A bug: Close asks for the shutdown and does not wait for it.
CloseReturns_Early ==
  /\ closer \in {"waiting", "closed"}
  /\ closer' = "returned"
  /\ UNCHANGED <<pc, size, bad, msg, loop, watched, cancelled, handled, closeErrs>>

CloseReturns ==
  /\ closer = "closed"
  /\ closer' = "returned"
  /\ UNCHANGED <<pc, size, bad, msg, loop, watched, cancelled, handled, closeErrs>>

-----------------------------------------------------------------------------
SenderStep(s) == SerializeFails(s) \/ Queue(s) \/ SendPanics(s) \/ SendReturns(s)
LoopStep ==
  \/ \E m \in Messages : LoopTakesError(m) \/ LoopTakesSuccess(m)
  \/ \E ch \in {"errors", "successes"} : LoopSeesClosed(ch)
  \/ LoopSeesDone
CloseStep ==
  \/ ShutdownDispatched \/ ShutdownCloses \/ CloseReturns
  \/ \E m \in Messages : CloseDrains(m)

Next ==
  \/ \E s \in Senders : Send(s) \/ SenderStep(s)
  \/ \E m \in Messages : Answer(m)
  \/ LoopStep \/ CtxDone \/ Close \/ CloseStep

\* Every goroutine runs; a send that is possible again and again happens (the
\* waiting senders of a channel are served in order); the owner closes.
Fairness ==
  /\ \A s \in Senders : SF_vars(SenderStep(s)) /\ WF_vars(Send(s))
  /\ \A m \in Messages : WF_vars(Answer(m))
  /\ WF_vars(LoopStep) /\ WF_vars(CloseStep) /\ SF_vars(ShutdownDispatched)
  /\ WF_vars(Close) /\ (OwnerWaits \/ WF_vars(CtxDone))

Spec == Init /\ [][Next]_vars /\ Fairness

-----------------------------------------------------------------------------
\* When Close has returned, every message that failed was given to the error
\* handler or is in the error Close returned, and to one of them only.
ReportsFailures ==
  \A m \in Messages :
    msg[m] \in {"failed", "refused"} /\ msg'[m] = "done" =>
      m \in (handled' \cup closeErrs') \ (handled \cup closeErrs)

\* A call that queues messages ends, at the latest when Close ends it.
EverySendEnds ==
  \A s \in Senders :
    pc[s] = "sending" ~> (pc[s] \in {"ok", "error", "panic"} \/ closer = "crashed")

\* Close returns and the goroutine of Run ends, so that group.Wait returns.
ShutdownEnds == <>((closer = "returned" /\ loop = "ended") \/ closer = "crashed")

\* No send meets a closed channel when the owner closes after the senders,
\* and then every accepted message was answered before Close returned.
CleanShutdown ==
  /\ \A s \in Senders : pc[s] # "panic"
  /\ closer # "crashed"
  /\ closer = "returned" => \A m \in Messages : msg[m] \in {"new", "done"}

\* The strengthening behind it: a call queues its messages in order and never one
\* that cannot be serialized; what was handled or is in the error of Close is done
\* or could not be queued.
InOrder(s) ==
  /\ bad[s] <= size[s]
  /\ pc[s] = "idle" => size[s] = 0
  /\ bad[s] > 0 => msg[<<s, bad[s]>>] = "new"
  /\ \E k \in 0 .. size[s] : \A i \in 1 .. MaxBatch : msg[<<s, i>>] # "new" <=> i <= k

QueueInv ==
  /\ \A s \in Senders : InOrder(s)
  /\ \A m \in closeErrs : msg[m] = "done"
  /\ \A m \in handled : msg[m] = "done" \/ m[2] = bad[m[1]]

\* An owner that waits closes when every sender is done, so that sarama refuses
\* nothing and answers all it took before the channels are closed.
OrderlyInv ==
  OwnerWaits =>
    /\ \A s \in Senders : pc[s] # "panic" /\ (closer # "no" => pc[s] \in {"ok", "error"})
    /\ closer # "crashed" /\ Refused = {}
    /\ closer \in {"closed", "returned"} => InFlight = {}
=============================================================================
