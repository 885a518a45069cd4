--------------------------- MODULE ProducerProofs ----------------------------
(***************************************************************************)
(* Theorems about the three producers, for every set of goroutines, every  *)
(* number and size of calls and every capacity, with proofs that TLAPS     *)
(* checks: a batch of the transactional one is a transaction, the          *)
(* asynchronous one closes cleanly and reports its failures, and what the  *)
(* calls of the synchronous one answer is true of the logs.                *)
(***************************************************************************)
EXTENDS MCProducers, FiniteSetTheorems, TLAPS

-----------------------------------------------------------------------------
(* The parts of the type invariant that need no counting, and the shapes   *)
(* of messages.                                                            *)

Pcs == {"idle", "send", "wait", "commit", "commitEnd", "swap",
        "commitFailed", "abort", "abortEnd", "store"}
Results == {"none", "ok", "error"}
Fates == {"new", "inflight", "acked", "failed", "committed", "aborted"}
Coords == {"open", "committed", "aborted", "timedOut"}
Keys == Callers \X (1 .. MaxCalls)

Types ==
  /\ crew \subseteq Callers
  /\ pc \in [Callers -> Pcs]
  /\ calls \in [Callers -> 0 .. MaxCalls]
  /\ size \in [Callers -> 0 .. MaxBatch]
  /\ bad \in [Callers -> BOOLEAN]
  /\ result \in [Keys -> Results]
  /\ pendingTx \in Nat /\ counted \in Nat
  /\ status \in Statuses
  /\ txLock \in Callers \cup {Nobody}
  /\ msg \in [Messages -> Fates]
  /\ offsets \in BOOLEAN /\ joined \in BOOLEAN
  /\ coord \in Coords

\* A message is known by its goroutine, its call and its place.
LEMMA MessageShape ==
  /\ \A m \in Messages : /\ m[1] \in Callers /\ m[2] \in 1 .. MaxCalls
                         /\ m[3] \in 1 .. MaxBatch /\ m = <<m[1], m[2], m[3]>>
  /\ \A c \in Callers, k \in 1 .. MaxCalls, i \in 1 .. MaxBatch :
       <<c, k, i>> \in Messages
  BY DEF Messages

\* The messages of the current call of a goroutine that has made one.
LEMMA CurrentShape ==
  ASSUME Types, NEW c \in Callers
  PROVE  /\ calls[c] > 0 => CurrentCall(c) \subseteq Messages
         /\ \A m \in Messages :
              m \in CurrentCall(c) <=> m[1] = c /\ m[2] = calls[c] /\ m[3] <= size[c]
         /\ \A m \in CurrentCall(c) : m[1] = c /\ m[2] = calls[c] /\ m[3] \in 1 .. size[c]
  <1>1. /\ calls[c] \in 0 .. MaxCalls /\ size[c] \in 0 .. MaxBatch
        /\ MaxCalls \in Nat /\ MaxBatch \in Nat
    BY TxProducerAssumption DEF Types
  <1>2. \A m \in CurrentCall(c) : m[1] = c /\ m[2] = calls[c] /\ m[3] \in 1 .. size[c]
    BY DEF CurrentCall
  <1>3. calls[c] > 0 => CurrentCall(c) \subseteq Messages
    BY <1>1, MessageShape DEF CurrentCall
  <1>4. ASSUME NEW m \in Messages, m[1] = c, m[2] = calls[c], m[3] <= size[c]
        PROVE  m \in CurrentCall(c)
    <2>1. m = <<c, calls[c], m[3]>> /\ m[3] \in 1 .. size[c]
      BY <1>1, <1>4, MessageShape
    <2>2. QED
      BY <2>1 DEF CurrentCall
  <1>5. QED
    BY <1>1, <1>2, <1>3, <1>4

\* What Return does to the results.
LEMMA ReturnShape ==
  ASSUME Types, NEW c \in Callers, NEW r \in Results, Return(c, r)
  PROVE  /\ pc' = [pc EXCEPT ![c] = "idle"]
         /\ result' \in [Keys -> Results]
         /\ calls[c] > 0 => result'[<<c, calls[c]>>] = r
         /\ \A k \in Keys : k # <<c, calls[c]>> => result'[k] = result[k]
  <1>1. CASE calls[c] = 0
    BY <1>1 DEF Types, Return
  <1>2. CASE calls[c] # 0
    <2>1. <<c, calls[c]>> \in Keys
      BY <1>2, TxProducerAssumption DEF Types, Keys
    <2>2. QED
      BY <1>2, <2>1 DEF Types, Return
  <1>3. QED
    BY <1>1, <1>2

LEMMA TypesStep ==
  ASSUME Types, NEW c \in Callers, CallerNext(c), crew' = crew
  PROVE  Types'
  <1> USE DEF Types, Pcs, Coords, Fates, Statuses
  <1>1. CASE SendTypedMessagesTx(c)
    <2>1. <<c, calls'[c]>> \in Keys /\ calls' \in [Callers -> 0 .. MaxCalls]
      BY <1>1, TxProducerAssumption DEF SendTypedMessagesTx, StartBatch, Keys
    <2>2. result' \in [Keys -> Results]
      BY <1>1, <2>1 DEF SendTypedMessagesTx, Results
    <2>3. QED
      BY <1>1, <2>1, <2>2 DEF SendTypedMessagesTx, StartBatch, BeginOk, BeginRefused
  <1>2. CASE BeginTx(c) \/ AddOffsetsToTx(c) \/ CommitTx(c) \/ AbortTx(c) \/ SerializeFails(c)
             \/ AllDispatched(c) \/ CommitStarts(c) \/ AbortStarts(c)
    BY <1>2 DEF BeginTx, AddOffsetsToTx, CommitTx, AbortTx, SerializeFails, AllDispatched,
      CommitStarts, AbortStarts, BeginOk, client, broker
  <1>3. CASE SendTypedMessage(c)
    BY <1>3, TxProducerAssumption DEF SendTypedMessage, broker
  <1>4. CASE Dispatch(c)
    BY <1>4 DEF Dispatch, ErrorStatus, client
  <1>5. CASE SendSucceeds(c)
    <2>1. size[c] \in Nat
      BY TxProducerAssumption
    <2>2. pendingTx' \in Nat
      BY <1>5, <2>1 DEF SendSucceeds
    <2>3. result' \in [Keys -> Results] /\ pc' \in [Callers -> Pcs]
      BY <1>5, ReturnShape DEF SendSucceeds, Results
    <2>4. QED
      BY <1>5, <2>2, <2>3 DEF SendSucceeds, broker
  <1>6. CASE SendFails(c) \/ CommitFailed(c)
    <2>1. result' \in [Keys -> Results] /\ pc' \in [Callers -> Pcs]
      BY <1>6, ReturnShape DEF SendFails, CommitFailed, Results
    <2>2. QED
      BY <1>6, <2>1 DEF SendFails, CommitFailed, broker
  <1>7. CASE CommitSucceeds(c) \/ AbortSucceeds(c)
    BY <1>7 DEF CommitSucceeds, AbortSucceeds, CommitMay, AbortMay, Complete
  <1>8. CASE CommitRefused(c) \/ CommitGivesUp(c) \/ CommitAnswerLost(c)
    BY <1>8 DEF CommitRefused, CommitGivesUp, CommitAnswerLost, CommitMay, CommitError
  <1>9. CASE AbortRefused(c) \/ AbortGivesUp(c) \/ AbortAnswerLost(c)
    <2>1. result' \in [Keys -> Results] /\ pc' \in [Callers -> Pcs]
      BY <1>9, ReturnShape DEF AbortRefused, AbortGivesUp, AbortAnswerLost, AbortError, Results
    <2>2. QED
      BY <1>9, <2>1 DEF AbortRefused, AbortGivesUp, AbortAnswerLost, AbortMay
  <1>10. CASE CommitReturns(c) \/ AbortReturns(c)
    <2>1. result' \in [Keys -> Results] /\ pc' \in [Callers -> Pcs]
      BY <1>10, ReturnShape DEF CommitReturns, AbortReturns, Results
    <2>2. QED
      BY <1>10, <2>1 DEF CommitReturns, AbortReturns, broker
  <1>11. QED
    BY <1>1, <1>2, <1>3, <1>4, <1>5, <1>6, <1>7, <1>8, <1>9, <1>10 DEF CallerNext, Step

LEMMA TypesBroker ==
  ASSUME Types, BrokerNext, crew' = crew
  PROVE  Types'
  BY DEF Types, BrokerNext, BrokerAcks, BrokerFails, CoordinatorTimesOut, ErrorStatus,
    Statuses, Fates, Coords, client

-----------------------------------------------------------------------------
(* What a step of one goroutine leaves alone.                              *)

Starts(c) == SendTypedMessagesTx(c) \/ SendTypedMessage(c)

LEMMA StartShape ==
  ASSUME Types, NEW c \in Callers, Starts(c)
  PROVE  /\ pc[c] = "idle" /\ pc'[c] \in {"idle", "send"}
         /\ \A d \in Callers \ {c} :
              pc'[d] = pc[d] /\ calls'[d] = calls[d] /\ size'[d] = size[d]
         /\ calls'[c] = calls[c] + 1 /\ calls'[c] \in 1 .. MaxCalls
         /\ \A k \in Keys : k # <<c, calls'[c]>> => result'[k] = result[k]
         /\ pc'[c] = "send" => result' = result
         /\ pc'[c] = "idle" => result'[<<c, calls'[c]>>] = "error" /\ status' = status
         /\ UNCHANGED <<pendingTx, counted, msg, joined, coord>>
  <1>1. calls[c] \in Nat /\ calls[c] < MaxCalls /\ MaxCalls \in Nat
    BY TxProducerAssumption DEF Types, Starts, SendTypedMessagesTx, SendTypedMessage, StartBatch
  <1>2. calls'[c] = calls[c] + 1 /\ <<c, calls'[c]>> \in Keys /\ calls'[c] \in 1 .. MaxCalls
    BY <1>1 DEF Types, Starts, SendTypedMessagesTx, SendTypedMessage, StartBatch, Keys
  <1>3. \A d \in Callers \ {c} :
          pc'[d] = pc[d] /\ calls'[d] = calls[d] /\ size'[d] = size[d]
    BY DEF Types, Starts, SendTypedMessagesTx, SendTypedMessage, StartBatch
  <1>4. CASE SendTypedMessagesTx(c)
    <2>1. CASE BeginOk /\ pc' = [pc EXCEPT ![c] = "send"] /\ UNCHANGED result
      BY <1>2, <1>3, <1>4, <2>1 DEF Types, SendTypedMessagesTx, StartBatch
    <2>2. CASE /\ result' = [result EXCEPT ![<<c, calls'[c]>>] = "error"]
               /\ UNCHANGED <<pc, status>>
      BY <1>2, <1>3, <1>4, <2>2 DEF Types, SendTypedMessagesTx, StartBatch
    <2>3. QED
      BY <1>4, <2>1, <2>2 DEF SendTypedMessagesTx
  <1>5. CASE SendTypedMessage(c)
    BY <1>2, <1>3, <1>5 DEF Types, SendTypedMessage, broker
  <1>6. QED
    BY <1>4, <1>5 DEF Starts

\* Every other step of a goroutine belongs to its current call.
LEMMA StepShape ==
  ASSUME Types, NEW c \in Callers, CallerNext(c), ~Starts(c)
  PROVE  /\ UNCHANGED <<calls, size>>
         /\ \A d \in Callers \ {c} : pc'[d] = pc[d]
         /\ \A k \in Keys : k # <<c, calls[c]>> => result'[k] = result[k]
         /\ pc'[c] # "idle" => result' = result
  <1>1. CASE BeginTx(c) \/ AddOffsetsToTx(c) \/ Dispatch(c)
    BY <1>1 DEF BeginTx, AddOffsetsToTx, Dispatch, client
  <1>2. CASE \/ CommitTx(c) \/ AbortTx(c) \/ SerializeFails(c) \/ AllDispatched(c)
             \/ CommitStarts(c) \/ AbortStarts(c) \/ CommitSucceeds(c) \/ AbortSucceeds(c)
             \/ CommitRefused(c) \/ CommitGivesUp(c) \/ CommitAnswerLost(c)
    BY <1>2 DEF Types, CommitTx, AbortTx, SerializeFails, AllDispatched, CommitStarts,
      AbortStarts, CommitSucceeds, AbortSucceeds, CommitRefused, CommitGivesUp,
      CommitAnswerLost, CommitError
  <1>3. CASE \/ SendSucceeds(c) \/ SendFails(c) \/ CommitFailed(c) \/ CommitReturns(c)
             \/ AbortReturns(c) \/ AbortRefused(c) \/ AbortGivesUp(c) \/ AbortAnswerLost(c)
    <2>1. UNCHANGED <<calls, size>>
      BY <1>3 DEF SendSucceeds, SendFails, CommitFailed, CommitReturns, AbortReturns,
        AbortRefused, AbortGivesUp, AbortAnswerLost
    <2>2. \/ \E r \in {"ok", "error"} : Return(c, r)
          \/ UNCHANGED result /\ \E p \in Pcs : pc' = [pc EXCEPT ![c] = p]
      BY <1>3 DEF SendSucceeds, SendFails, CommitFailed, CommitReturns, AbortReturns,
        AbortRefused, AbortGivesUp, AbortAnswerLost, AbortError, Pcs
    <2>3. QED
      BY <2>1, <2>2, ReturnShape DEF Types, Results
  <1>4. QED
    BY <1>1, <1>2, <1>3 DEF CallerNext, Step, Starts

\* Only its beginning makes a call one that sends; it waits when all is sent.
LEMMA SendingGoesOn ==
  ASSUME Types, NEW c \in Callers, CallerNext(c), ~Starts(c), pc'[c] \in {"send", "wait"}
  PROVE  /\ pc[c] = "send" \/ pc'[c] = pc[c]
         /\ pc[c] \in {"send", "wait"}
         /\ pc'[c] = "wait" => AllDispatched(c)
  BY DEF Types, Starts, CallerNext, Step, BeginTx, AddOffsetsToTx, CommitTx, AbortTx,
    SerializeFails, Dispatch, AllDispatched, SendSucceeds, SendFails, CommitStarts,
    CommitSucceeds, CommitRefused, CommitGivesUp, CommitAnswerLost, CommitError,
    CommitReturns, CommitFailed, AbortStarts, AbortSucceeds, AbortRefused, AbortGivesUp,
    AbortAnswerLost, AbortError, AbortReturns, Return, client

\* A message is sent by its own call, and settled when a broker has taken it.
LEMMA MessageSteps ==
  ASSUME Types, NEW c \in Callers, CallerNext(c), NEW m \in Messages, msg'[m] # msg[m]
  PROVE  \/ /\ pc[c] = "send" /\ Dispatch(c) /\ m \in CurrentCall(c)
            /\ msg[m] = "new" /\ msg'[m] \in {"inflight", "failed"}
         \/ /\ CommitSucceeds(c) \/ CommitAnswerLost(c)
            /\ msg[m] = "acked" /\ msg'[m] = "committed"
         \/ /\ AbortSucceeds(c) \/ AbortAnswerLost(c)
            /\ msg[m] = "acked" /\ msg'[m] = "aborted"
  <1>1. CASE Dispatch(c)
    BY <1>1 DEF Types, Dispatch, IsNext
  <1>2. CASE \/ CommitSucceeds(c) \/ CommitAnswerLost(c) \/ AbortSucceeds(c) \/ AbortAnswerLost(c)
    BY <1>2 DEF Types, CommitSucceeds, CommitAnswerLost, AbortSucceeds, AbortAnswerLost
  <1>3. CASE ~Dispatch(c) /\ ~CommitSucceeds(c) /\ ~CommitAnswerLost(c) /\ ~AbortSucceeds(c)
             /\ ~AbortAnswerLost(c)
    <2>1. msg' = msg
      BY <1>3 DEF CallerNext, Step, SendTypedMessagesTx, BeginTx, SendTypedMessage,
        AddOffsetsToTx, CommitTx, AbortTx, SerializeFails, AllDispatched, SendSucceeds, SendFails,
        CommitStarts, CommitRefused, CommitGivesUp, CommitReturns, CommitFailed, AbortStarts,
        AbortRefused, AbortGivesUp, AbortReturns, broker
    <2>2. QED
      BY <2>1
  <1>4. QED
    BY <1>1, <1>2, <1>3

-----------------------------------------------------------------------------
(* Calls are in order.                                                     *)

LEMMA CallsStart ==
  ASSUME Types, CallsInv, NEW c \in crew, Starts(c), crew' = crew
  PROVE  CallsInv'
  <1>1. c \in Callers
    BY DEF Types
  <1>2. Types /\ calls \in [Callers -> 0 .. MaxCalls] /\ MaxCalls \in Nat /\ MaxBatch \in Nat
    BY TxProducerAssumption DEF Types
  <1>s. /\ pc[c] = "idle" /\ pc'[c] \in {"idle", "send"}
        /\ \A d \in Callers \ {c} :
             pc'[d] = pc[d] /\ calls'[d] = calls[d] /\ size'[d] = size[d]
        /\ calls'[c] = calls[c] + 1 /\ calls'[c] \in 1 .. MaxCalls
        /\ \A k \in Keys : k # <<c, calls'[c]>> => result'[k] = result[k]
        /\ UNCHANGED <<msg, joined, coord>>
    BY <1>1, StartShape
  <1>3. \A d \in Callers \ crew : pc'[d] = "idle"
    BY <1>s DEF CallsInv
  <1>4. ASSUME NEW m \in Messages,
               m[2] > calls'[m[1]] \/ (m[2] = calls'[m[1]] /\ m[3] > size'[m[1]])
        PROVE  msg'[m] = "new"
    <2>1. m[1] \in Callers /\ m[2] \in Nat
      BY <1>2, MessageShape
    <2>2. m[1] # c => calls'[m[1]] = calls[m[1]] /\ size'[m[1]] = size[m[1]]
      BY <1>1, <2>1, <1>s
    <2>3. m[1] = c => m[2] > calls[m[1]]
      BY <1>1, <1>2, <1>4, <2>1, <1>s
    <2>4. msg[m] = "new"
      BY <1>4, <2>2, <2>3 DEF CallsInv
    <2>5. QED
      BY <1>1, <2>4, <1>s
  <1>5. ASSUME NEW d \in Callers
        PROVE  /\ pc'[d] \in {"send", "wait"} => calls'[d] > 0
               /\ pc'[d] = "wait" => \A m \in CurrentCall(d)' : msg'[m] # "new"
               /\ \A k \in 1 .. MaxCalls : k > calls'[d] => result'[<<d, k>>] = "none"
    <2>1. CASE d = c
      <3>1. calls'[c] \in Nat /\ calls'[c] = calls[c] + 1 /\ calls[c] \in Nat /\ pc'[c] # "wait"
        BY <1>1, <1>2, <1>s
      <3>2. ASSUME NEW k \in 1 .. MaxCalls, k > calls'[c]
            PROVE  result'[<<c, k>>] = "none"
        <4>1. <<c, k>> \in Keys /\ <<c, k>> # <<c, calls'[c]>> /\ k > calls[c]
          BY <1>1, <1>2, <3>1, <3>2 DEF Keys
        <4>2. result'[<<c, k>>] = result[<<c, k>>] /\ result[<<c, k>>] = "none"
          BY <1>1, <4>1, <1>s DEF CallsInv
        <4>3. QED
          BY <4>2
      <3>3. calls'[c] > 0
        BY <3>1
      <3>4. QED
        BY <2>1, <3>1, <3>2, <3>3
    <2>2. CASE d # c
      <3>1. pc'[d] = pc[d] /\ calls'[d] = calls[d] /\ size'[d] = size[d] /\ msg' = msg
        BY <1>1, <2>2, <1>s
      <3>2. CurrentCall(d)' = CurrentCall(d)
        BY <3>1 DEF CurrentCall
      <3>3. \A k \in 1 .. MaxCalls : result'[<<d, k>>] = result[<<d, k>>]
        BY <1>1, <2>2, <1>s DEF Keys
      <3>4. QED
        BY <3>1, <3>2, <3>3 DEF CallsInv
    <2>3. QED
      BY <2>1, <2>2
  <1>6. coord' # "open" => joined'
    BY <1>1, <1>s DEF CallsInv
  <1>7. crew' = crew
    OBVIOUS
  <1>8. QED
    BY <1>3, <1>4, <1>5, <1>6, <1>7 DEF CallsInv

LEMMA CallsStep ==
  ASSUME Types, CallsInv, NEW c \in crew, CallerNext(c), ~Starts(c), crew' = crew
  PROVE  CallsInv'
  <1>1. c \in Callers
    BY DEF Types
  <1>2. UNCHANGED <<calls, size>> /\ \A d \in Callers \ {c} : pc'[d] = pc[d]
    BY <1>1, StepShape
  <1>3. \A d \in Callers \ crew : pc'[d] = "idle"
    BY <1>1, <1>2 DEF CallsInv
  <1>4. ASSUME NEW m \in Messages,
               m[2] > calls[m[1]] \/ (m[2] = calls[m[1]] /\ m[3] > size[m[1]])
        PROVE  msg'[m] = "new"
    <2>1. msg[m] = "new"
      BY <1>4 DEF CallsInv
    <2>2. m \notin CurrentCall(c)
      <3>1. calls[c] \in Nat /\ size[c] \in Nat
        BY <1>1, TxProducerAssumption DEF Types
      <3>2. SUFFICES ASSUME m \in CurrentCall(c) PROVE FALSE
        OBVIOUS
      <3>3. m[1] = c /\ m[2] = calls[c] /\ m[3] \in 1 .. size[c]
        BY <1>1, <3>2, CurrentShape
      <3>4. QED
        BY <1>4, <3>1, <3>3
    <2>3. QED
      BY <1>1, <2>1, <2>2, MessageSteps
  <1>5. pc'[c] \in {"send", "wait"} => calls[c] > 0
    BY <1>1, SendingGoesOn DEF CallsInv
  <1>6. pc'[c] = "wait" => \A m \in CurrentCall(c) : msg'[m] # "new"
    BY <1>1, SendingGoesOn DEF AllDispatched, broker
  <1>7. ASSUME NEW d \in Callers, d # c, pc[d] = "wait", NEW m \in CurrentCall(d)
        PROVE  msg'[m] # "new"
    <2>1. m \in Messages /\ msg[m] # "new"
      BY <1>7, CurrentShape DEF CallsInv
    <2>2. QED
      BY <1>1, <2>1, MessageSteps
  <1>8. ASSUME NEW d \in Callers, NEW k \in 1 .. MaxCalls, k > calls[d]
        PROVE  result'[<<d, k>>] = "none"
    <2>1. calls[d] \in Nat /\ k \in Nat /\ MaxCalls \in Nat /\ <<d, k>> \in Keys
      BY TxProducerAssumption DEF Types, Keys
    <2>2. <<d, k>> # <<c, calls[c]>>
      BY <1>8, <2>1
    <2>3. QED
      BY <1>1, <1>8, <2>1, <2>2, StepShape DEF CallsInv
  <1>9. coord' # "open" => joined'
    BY DEF CallsInv, Starts, CallerNext, Step, BeginTx, AddOffsetsToTx, CommitTx, AbortTx,
      SerializeFails, Dispatch, AllDispatched, SendSucceeds, SendFails, CommitStarts,
      CommitSucceeds, CommitRefused, CommitGivesUp, CommitAnswerLost, CommitReturns, CommitFailed,
      AbortStarts, AbortSucceeds, AbortRefused, AbortGivesUp, AbortAnswerLost, AbortReturns,
      Complete, broker
  <1>10. ASSUME NEW d \in Callers
         PROVE  /\ pc'[d] \in {"send", "wait"} => calls[d] > 0
                /\ pc'[d] = "wait" => \A m \in CurrentCall(d) : msg'[m] # "new"
                /\ \A k \in 1 .. MaxCalls : k > calls[d] => result'[<<d, k>>] = "none"
    <2>1. CASE d = c
      BY <1>5, <1>6, <1>8, <2>1
    <2>2. CASE d # c
      BY <1>2, <1>7, <1>8, <2>2 DEF CallsInv
    <2>3. QED
      BY <2>1, <2>2
  <1>11. \A d \in Callers : CurrentCall(d)' = CurrentCall(d)
    BY <1>2 DEF CurrentCall
  <1>12. calls' = calls /\ size' = size
    BY <1>2
  <1>13. QED
    BY <1>3, <1>4, <1>9, <1>10, <1>11, <1>12 DEF CallsInv

LEMMA CallsBroker ==
  ASSUME Types, CallsInv, BrokerNext, crew' = crew
  PROVE  CallsInv'
  <1>1. UNCHANGED client
    BY DEF BrokerNext, BrokerAcks, BrokerFails, CoordinatorTimesOut
  <1>2. UNCHANGED <<pc, calls, size, result>>
    BY <1>1 DEF client
  <1>3. \A m \in Messages : (msg'[m] = "new") = (msg[m] = "new")
    BY DEF Types, BrokerNext, BrokerAcks, BrokerFails, CoordinatorTimesOut
  <1>4. coord' # "open" => joined'
    BY DEF CallsInv, BrokerNext, BrokerAcks, BrokerFails, CoordinatorTimesOut
  <1>5. \A d \in Callers : CurrentCall(d)' = CurrentCall(d)
    BY <1>2 DEF CurrentCall
  <1>6. \A d \in Callers : pc[d] = "wait" => \A m \in CurrentCall(d) : msg'[m] # "new"
    BY <1>3, CurrentShape DEF CallsInv
  <1>7. QED
    BY <1>2, <1>3, <1>4, <1>5, <1>6 DEF CallsInv

-----------------------------------------------------------------------------
(* Counting messages.                                                      *)

LEMMA MessagesFinite == IsFiniteSet(Messages)
  <1> DEFINE Pairs == (Callers \X (1 .. MaxCalls)) \X (1 .. MaxBatch)
             flat == [x \in Pairs |-> <<x[1][1], x[1][2], x[2]>>]
  <1>1. IsFiniteSet(1 .. MaxCalls) /\ IsFiniteSet(1 .. MaxBatch)
    BY TxProducerAssumption, FS_Interval
  <1>2. IsFiniteSet(Callers \X (1 .. MaxCalls))
    BY <1>1, TxProducerAssumption, FS_Product DEF Callers
  <1>3. IsFiniteSet(Pairs)
    BY <1>1, <1>2, FS_Product
  <1>4. \A x \in Pairs : x[1][1] \in Callers /\ x[1][2] \in 1 .. MaxCalls /\ x[2] \in 1 .. MaxBatch
    OBVIOUS
  <1>5. \A x \in Pairs : flat[x] \in Messages
    BY <1>4, MessageShape
  <1>6. ASSUME NEW m \in Messages
        PROVE  \E x \in Pairs : flat[x] = m
    <2>1. <<<<m[1], m[2]>>, m[3]>> \in Pairs /\ m = <<m[1], m[2], m[3]>>
      BY MessageShape
    <2>2. flat[<<<<m[1], m[2]>>, m[3]>>] = <<m[1], m[2], m[3]>>
      BY <2>1
    <2>3. QED
      BY <2>1, <2>2
  <1>7. flat \in [Pairs -> Messages]
    BY <1>5
  <1> HIDE DEF Pairs, flat
  <1>8. flat \in Surjection(Pairs, Messages)
    BY <1>6, <1>7 DEF Surjection
  <1>9. QED
    BY <1>3, <1>8, FS_Surjection

LEMMA MessageCounts ==
  ASSUME NEW S, NEW T, S \subseteq T, T \subseteq Messages
  PROVE  /\ IsFiniteSet(S) /\ IsFiniteSet(T)
         /\ Cardinality(S) \in Nat /\ Cardinality(T) \in Nat
         /\ Cardinality(S) <= Cardinality(T)
  <1>1. IsFiniteSet(T)
    BY MessagesFinite, FS_Subset
  <1>2. IsFiniteSet(S) /\ Cardinality(S) <= Cardinality(T)
    BY <1>1, FS_Subset
  <1>3. QED
    BY <1>1, <1>2, FS_CardinalityType

\* A sum that does not grow stays below a bound that does not shrink.
LEMMA SumBelow ==
  \A a, b, x, y, p, q \in Nat : a + b <= x + y /\ x + y <= p /\ p <= q => a + b <= q
  OBVIOUS

\* A call has as many messages as its size says.
LEMMA CurrentCount ==
  ASSUME Types, NEW c \in Callers
  PROVE  IsFiniteSet(CurrentCall(c)) /\ Cardinality(CurrentCall(c)) = size[c]
  <1> DEFINE nth == [i \in 1 .. size[c] |-> <<c, calls[c], i>>]
  <1>1. size[c] \in Nat
    BY TxProducerAssumption DEF Types
  <1>2. IsFiniteSet(1 .. size[c]) /\ Cardinality(1 .. size[c]) = size[c]
    BY <1>1, FS_Interval
  <1>3. nth \in [1 .. size[c] -> CurrentCall(c)]
    BY DEF CurrentCall
  <1>4. \A i, j \in 1 .. size[c] : nth[i] = nth[j] => i = j
    <2> SUFFICES ASSUME NEW i \in 1 .. size[c], NEW j \in 1 .. size[c], nth[i] = nth[j]
                 PROVE  i = j
      OBVIOUS
    <2>1. <<c, calls[c], i>> = <<c, calls[c], j>>
      OBVIOUS
    <2>2. QED
      BY <2>1
  <1>5. \A m \in CurrentCall(c) : \E i \in 1 .. size[c] : nth[i] = m
    BY DEF CurrentCall
  <1> HIDE DEF nth
  <1>6. nth \in Bijection(1 .. size[c], CurrentCall(c))
    BY <1>3, <1>4, <1>5 DEF Bijection, Injection, Surjection, IsInjective
  <1>7. QED
    BY <1>2, <1>6, FS_Bijection DEF ExistsBijection

\* Only SendSucceeds adds to pendingTx, and CommitReturns moves it.
LEMMA CountSteps ==
  ASSUME Types, NEW c \in Callers, CallerNext(c), ~SendSucceeds(c)
  PROVE  /\ counted' + pendingTx' <= counted + pendingTx
         /\ ~CommitReturns(c) => counted' = counted
         /\ ~CommitReturns(c) /\ ~AbortReturns(c) => pendingTx' = pendingTx
  <1>1. pendingTx \in Nat /\ counted \in Nat
    BY DEF Types
  <1>2. CASE CommitReturns(c)
    BY <1>1, <1>2 DEF CommitReturns
  <1>3. CASE AbortReturns(c)
    BY <1>1, <1>3 DEF AbortReturns
  <1>4. CASE ~CommitReturns(c) /\ ~AbortReturns(c)
    <2>1. UNCHANGED <<counted, pendingTx>>
      BY <1>4 DEF CallerNext, Step, SendTypedMessagesTx, StartBatch, BeginTx, SendTypedMessage,
        AddOffsetsToTx, CommitTx, AbortTx, SerializeFails, Dispatch, AllDispatched, SendFails,
        CommitStarts, CommitSucceeds, CommitRefused, CommitGivesUp, CommitAnswerLost,
        CommitFailed, AbortStarts, AbortSucceeds, AbortRefused, AbortGivesUp, AbortAnswerLost,
        client
    <2>2. QED
      BY <1>1, <2>1, <1>4
  <1>5. QED
    BY <1>2, <1>3, <1>4

LEMMA DoneGrows ==
  ASSUME Types, NEW c \in Callers, CallerNext(c)
  PROVE  Done \subseteq Done'
  <1> SUFFICES ASSUME NEW m \in Messages,
                      \/ m[2] < calls[m[1]]
                      \/ m[2] = calls[m[1]] /\ pc[m[1]] \notin {"send", "wait"}
               PROVE  \/ m[2] < calls'[m[1]]
                      \/ m[2] = calls'[m[1]] /\ pc'[m[1]] \notin {"send", "wait"}
    BY DEF Done
  <1>1. m[1] \in Callers /\ m[2] \in Nat /\ calls[m[1]] \in Nat
    BY MessageShape, TxProducerAssumption DEF Types
  <1>2. CASE Starts(c)
    <2>1. /\ calls'[c] = calls[c] + 1
          /\ m[1] # c => calls'[m[1]] = calls[m[1]] /\ pc'[m[1]] = pc[m[1]]
      BY <1>1, <1>2, StartShape
    <2>2. QED
      BY <1>1, <2>1
  <1>3. CASE ~Starts(c)
    <2>1. calls' = calls /\ (m[1] # c => pc'[m[1]] = pc[m[1]])
      BY <1>1, <1>3, StepShape
    <2>2. m[1] = c /\ pc'[c] \in {"send", "wait"} => pc[c] \in {"send", "wait"}
      BY <1>3, SendingGoesOn
    <2>3. QED
      BY <2>1, <2>2
  <1>4. QED
    BY <1>2, <1>3

LEMMA BoundStep ==
  ASSUME Types, CallsInv, BoundInv, NEW c \in Callers, CallerNext(c)
  PROVE  BoundInv'
  <1>1. Done \subseteq Done' /\ Done' \subseteq Messages
    BY DoneGrows DEF Done
  <1>2. /\ pendingTx \in Nat /\ counted \in Nat
        /\ Cardinality(Done) \in Nat /\ Cardinality(Done') \in Nat
        /\ Cardinality(Done) <= Cardinality(Done')
    BY <1>1, MessageCounts DEF Types
  <1>3. CASE SendSucceeds(c)
    <2> DEFINE sent == CurrentCall(c)
    <2>1. pc[c] = "wait" /\ pc' # pc /\ pc'[c] \in {"commit", "idle"} /\ calls' = calls
          /\ counted' = counted /\ pendingTx' = pendingTx + size[c]
      BY <1>3, ReturnShape DEF Types, Results, SendSucceeds
    <2>2. sent \subseteq Messages /\ \A m \in sent : m[1] = c /\ m[2] = calls[c]
      BY <2>1, CurrentShape DEF CallsInv
    <2>3. calls[c] \in Nat /\ size[c] \in Nat
      BY TxProducerAssumption DEF Types
    <2>4. sent \cap Done = {}
      BY <2>1, <2>2, <2>3 DEF Done
    <2>5. sent \subseteq Done'
      BY <2>1, <2>2 DEF Done
    <2>6. IsFiniteSet(sent) /\ Cardinality(sent) = size[c]
      BY CurrentCount
    <2> HIDE DEF sent
    <2>7. IsFiniteSet(Done) /\ Done \cup sent \subseteq Done'
      BY <1>1, <2>5, MessageCounts
    <2>8. Cardinality(Done \cup sent) = Cardinality(Done) + Cardinality(sent) - Cardinality({})
      BY <2>4, <2>6, <2>7, FS_Union
    <2>9. Cardinality(Done \cup sent) <= Cardinality(Done') /\ Cardinality({}) = 0
      BY <1>1, <2>7, MessageCounts, FS_EmptySet
    <2>10. QED
      BY <1>2, <2>1, <2>3, <2>6, <2>8, <2>9 DEF BoundInv
  <1>4. CASE ~SendSucceeds(c)
    <2>1. counted' + pendingTx' <= counted + pendingTx
      BY <1>4, CountSteps
    <2>2. counted' \in Nat
      BY <1>2, <1>4, CountSteps DEF CommitReturns
    <2>3. pendingTx' \in Nat
      <3>1. CASE CommitReturns(c) \/ AbortReturns(c)
        BY <3>1 DEF CommitReturns, AbortReturns
      <3>2. CASE ~CommitReturns(c) /\ ~AbortReturns(c)
        BY <1>2, <1>4, <3>2, CountSteps
      <3>3. QED
        BY <3>1, <3>2
    <2>4. counted + pendingTx <= Cardinality(Done)
      BY DEF BoundInv
    <2>5. counted' + pendingTx' <= Cardinality(Done')
      BY <1>2, <2>1, <2>2, <2>3, <2>4, SumBelow
    <2>6. QED
      BY <2>5 DEF BoundInv
  <1>5. QED
    BY <1>3, <1>4

LEMMA BoundBroker ==
  ASSUME Types, BoundInv, BrokerNext
  PROVE  BoundInv'
  <1>1. UNCHANGED client
    BY DEF BrokerNext, BrokerAcks, BrokerFails, CoordinatorTimesOut
  <1>2. QED
    BY <1>1 DEF BoundInv, Done, client

-----------------------------------------------------------------------------
(* A transaction has one batch.                                            *)

Open == Acked \cup InFlight

\* How a step of a batch that goes on bears on the transaction.
GoesOn(c) == Busy(c) /\ Busy(c)' /\ (status' = "Ready" <=> status = "Ready")
Ends(c) ==
  /\ Busy(c) /\ ~Busy(c)' /\ status' = "Ready" /\ ~joined' /\ coord' = "open"
  /\ InFlight = {} /\ \A m \in Messages : msg'[m] \notin {"acked", "inflight"}
GivesUp(c) == Busy(c) /\ ~Busy(c)' /\ (status' = "Ready" <=> status = "Ready")
HasLeft(c) == ~Busy(c) /\ ~Busy(c)' /\ UNCHANGED broker

LEMMA BatchMoves ==
  ASSUME Types, NEW c \in Batchers, CallerNext(c), ~Starts(c)
  PROVE  GoesOn(c) \/ Ends(c) \/ GivesUp(c) \/ HasLeft(c)
  <1>1. c \in Callers /\ c \notin Drivers
    BY TxProducerAssumption DEF Callers
  <1>2. CASE \/ SerializeFails(c) \/ Dispatch(c) \/ AllDispatched(c) \/ SendSucceeds(c)
             \/ SendFails(c) \/ CommitStarts(c) \/ CommitRefused(c) \/ CommitGivesUp(c)
             \/ CommitAnswerLost(c) \/ AbortStarts(c)
    <2>1. GoesOn(c)
      BY <1>1, <1>2 DEF Types, GoesOn, Busy, SerializeFails, Dispatch, AllDispatched, SendSucceeds,
        SendFails, CommitStarts, CommitRefused, CommitGivesUp, CommitAnswerLost, CommitMay,
        CommitError, AbortStarts, ErrorStatus, Statuses, client, broker
    <2>2. QED
      BY <2>1
  <1>3. CASE CommitSucceeds(c) \/ AbortSucceeds(c)
    <2>1. InFlight = {} /\ \A m \in Messages : msg'[m] \notin {"acked", "inflight"}
      BY <1>3 DEF Types, CommitSucceeds, AbortSucceeds, CommitMay, AbortMay, InFlight
    <2>2. Ends(c)
      BY <1>1, <1>3, <2>1 DEF Types, Ends, Busy, CommitSucceeds, AbortSucceeds, CommitMay, AbortMay,
        Complete
    <2>3. QED
      BY <2>2
  <1>4. CASE CommitFailed(c)
    BY <1>1, <1>4 DEF Types, GoesOn, GivesUp, Busy, CommitFailed, Return, broker
  <1>5. CASE AbortRefused(c) \/ AbortGivesUp(c) \/ AbortAnswerLost(c)
    BY <1>1, <1>5 DEF Types, GivesUp, Busy, AbortRefused, AbortGivesUp, AbortAnswerLost, AbortMay,
      AbortError, Return
  <1>6. CASE CommitReturns(c) \/ AbortReturns(c)
    BY <1>1, <1>6 DEF Types, HasLeft, Busy, CommitReturns, AbortReturns, Return, broker
  <1>7. QED
    BY <1>1, <1>2, <1>3, <1>4, <1>5, <1>6
    DEF CallerNext, Step, Starts, BeginTx, AddOffsetsToTx, CommitTx, AbortTx

\* Only a message of a call that sends joins the open ones.
LEMMA OpenSteps ==
  ASSUME Types, NEW c \in Callers, CallerNext(c), NEW m \in Open'
  PROVE  m \in Messages /\ (m \in Open \/ (m \in CurrentCall(c) /\ pc[c] = "send"))
  <1>1. m \in Messages /\ msg'[m] \in {"acked", "inflight"}
    BY DEF Open, Acked, InFlight
  <1>2. CASE msg'[m] = msg[m]
    BY <1>1, <1>2 DEF Open, Acked, InFlight
  <1>3. CASE msg'[m] # msg[m]
    BY <1>1, <1>3, MessageSteps
  <1>4. QED
    BY <1>1, <1>2, <1>3

\* OwnerInv, with the set of open messages under its name.
LEMMA OwnerShape ==
  OwnerInv <=>
    /\ \A c, d \in Callers : Busy(c) /\ Busy(d) => c = d
    /\ status = "Ready" => (\A c \in Callers : ~Busy(c)) /\ Open = {} /\ ~joined
    /\ \A m, o \in Open : m[1] = o[1] /\ m[2] = o[2]
    /\ \A c \in Callers : Busy(c) => \A m \in Open : m[1] = c /\ m[2] = calls[c]
  BY DEF OwnerInv, Open

LEMMA OwnerStart ==
  ASSUME Types, OwnerInv, NEW c \in Batchers, SendTypedMessagesTx(c)
  PROVE  OwnerInv'
  <1>1. c \in Callers /\ Starts(c)
    BY DEF Callers, Starts
  <1>2. /\ pc[c] = "idle" /\ pc'[c] \in {"idle", "send"} /\ UNCHANGED <<msg, joined>>
        /\ \A d \in Callers \ {c} : pc'[d] = pc[d] /\ calls'[d] = calls[d]
    BY <1>1, StartShape
  <1>3. Open' = Open
    BY <1>2 DEF Open, Acked, InFlight
  <1>4. CASE BeginOk /\ pc' = [pc EXCEPT ![c] = "send"]
    <2>1. (\A d \in Callers : ~Busy(d)) /\ Open = {} /\ status' = "InTransaction"
      BY <1>4, OwnerShape DEF BeginOk
    <2>2. \A d \in Callers : Busy(d)' => d = c
      BY <1>2, <2>1 DEF Busy
    <2>3. QED
      BY <1>3, <2>1, <2>2, OwnerShape DEF OwnerInv, Open
  <1>5. CASE UNCHANGED <<pc, status>>
    <2>1. \A d \in Callers : (Busy(d)' <=> Busy(d)) /\ (Busy(d) => d # c)
      BY <1>2, <1>5 DEF Busy
    <2>2. \A d \in Callers : Busy(d) => calls'[d] = calls[d]
      BY <1>2, <2>1
    <2>3. status' = status /\ joined' = joined
      BY <1>2, <1>5
    <2>4. QED
      BY <1>3, <2>1, <2>2, <2>3, OwnerShape DEF OwnerInv, Open
  <1>6. QED
    BY <1>4, <1>5 DEF SendTypedMessagesTx

LEMMA OwnerStep ==
  ASSUME Types, CallsInv, OwnerInv, NEW c \in Batchers, CallerNext(c), ~Starts(c)
  PROVE  OwnerInv'
  <1>1. c \in Callers
    BY DEF Callers
  <1>2. UNCHANGED calls /\ \A d \in Callers \ {c} : Busy(d)' <=> Busy(d)
    BY <1>1, StepShape DEF Busy
  <1>3. CASE Ends(c)
    <2>1. Open' = {}
      BY <1>3 DEF Ends, Open, Acked, InFlight
    <2>2. \A d \in Callers : ~Busy(d)'
      BY <1>1, <1>2, <1>3 DEF Ends, OwnerInv
    <2>3. ~joined'
      BY <1>3 DEF Ends
    <2>4. QED
      BY <2>1, <2>2, <2>3 DEF OwnerInv, Open
  <1>4. CASE GoesOn(c) \/ GivesUp(c)
    <2>1. /\ Busy(c) /\ status # "Ready" /\ status' # "Ready"
          /\ \A d \in Callers : Busy(d)' => d = c
      BY <1>1, <1>2, <1>4 DEF GoesOn, GivesUp, OwnerInv
    <2>2. \A m \in Open' : m[1] = c /\ m[2] = calls[c]
      BY <1>1, <2>1, OpenSteps, CurrentShape, OwnerShape
    <2>3. QED
      BY <1>2, <2>1, <2>2 DEF OwnerInv, Open
  <1>5. CASE HasLeft(c)
    <2>1. Open' = Open /\ status' = status /\ joined' = joined
      BY <1>5 DEF HasLeft, broker, Open, Acked, InFlight
    <2>2. \A d \in Callers : Busy(d)' <=> Busy(d)
      BY <1>2, <1>5 DEF HasLeft
    <2>3. QED
      BY <1>2, <2>1, <2>2 DEF OwnerInv, Open
  <1>6. QED
    BY <1>3, <1>4, <1>5, BatchMoves

LEMMA OwnerBroker ==
  ASSUME Types, OwnerInv, BrokerNext
  PROVE  OwnerInv'
  <1>1. UNCHANGED client
    BY DEF BrokerNext, BrokerAcks, BrokerFails, CoordinatorTimesOut
  <1>2. UNCHANGED <<pc, calls>> /\ \A d \in Callers : Busy(d)' <=> Busy(d)
    BY <1>1 DEF client, Busy
  <1>3. Open' \subseteq Open
    BY DEF Types, Open, Acked, InFlight, BrokerNext, BrokerAcks, BrokerFails, CoordinatorTimesOut
  <1>4. CASE status = "Ready"
    <2>1. Open = {} /\ ~joined
      BY <1>4 DEF OwnerInv, Open
    <2>2. FALSE
      BY <2>1 DEF BrokerNext, BrokerAcks, BrokerFails, CoordinatorTimesOut, Open, InFlight
    <2>3. QED
      BY <2>2
  <1>5. CASE status # "Ready"
    <2>1. status' # "Ready"
      BY <1>5 DEF Types, Statuses, BrokerNext, BrokerAcks, BrokerFails, CoordinatorTimesOut, ErrorStatus
    <2>2. QED
      BY <1>2, <1>3, <2>1 DEF OwnerInv, Open
  <1>6. QED
    BY <1>4, <1>5

-----------------------------------------------------------------------------
(* What becomes of the messages of a batch.                                *)

\* The part of PhaseInv about one message of the current call of c.
Phase(c, m) ==
  /\ msg[m] = "aborted" /\ pc[c] \in {"send", "wait", "commit", "commitEnd"} =>
       coord # "open"
  /\ pc[c] \in {"commit", "commitEnd"} => msg[m] \notin {"inflight", "failed"}
  /\ pc[c] = "swap" \/ (pc[c] = "commitFailed" /\ coord = "committed") =>
       msg[m] \in {"new", "committed"}
  /\ msg[m] = "committed" => pc[c] \in {"swap", "commitFailed"}
  /\ msg[m] = "committed" /\ pc[c] = "commitFailed" => coord = "committed"

Mine(c) == {m \in Messages : m[1] = c /\ m[2] = calls[c]}

PhaseOk(c) ==
  /\ pc[c] # "idle" => /\ calls[c] > 0 /\ result[<<c, calls[c]>>] = "none"
                       /\ \A m \in Mine(c) : Phase(c, m)
  /\ Busy(c) /\ coord = "committed" =>
       pc[c] = "commitFailed" /\ status \in {"Committing", "Aborting"}

LEMMA PhaseShape == PhaseInv <=> \A c \in Callers : PhaseOk(c)
  BY DEF PhaseInv, PhaseOk, Phase, Mine

\* A step of a batch changes only the messages of its own call.
LEMMA OtherMessages ==
  ASSUME Types, OwnerInv, NEW c \in Batchers, CallerNext(c),
         NEW m \in Messages, m[1] # c \/ m[2] # calls[c]
  PROVE  msg'[m] = msg[m]
  <1>1. c \in Callers
    BY DEF Callers
  <1>2. m \notin CurrentCall(c)
    BY <1>1, CurrentShape
  <1>3. CASE msg[m] # "acked"
    BY <1>1, <1>2, <1>3, MessageSteps
  <1>4. CASE msg[m] = "acked"
    <2>1. ~Busy(c)
      BY <1>1, <1>4 DEF OwnerInv, Acked
    <2>2. ~CommitSucceeds(c) /\ ~CommitAnswerLost(c) /\ ~AbortSucceeds(c) /\ ~AbortAnswerLost(c)
      BY <2>1 DEF Busy, CommitSucceeds, CommitAnswerLost, AbortSucceeds, AbortAnswerLost,
        CommitMay, AbortMay
    <2>3. QED
      BY <1>1, <1>2, <2>2, MessageSteps
  <1>5. QED
    BY <1>3, <1>4

LEMMA PhaseOthers ==
  ASSUME Types, CallsInv, OwnerInv, PhaseInv, NEW c \in Batchers, CallerNext(c),
         NEW d \in Callers, d # c
  PROVE  PhaseOk(d)'
  <1>1. c \in Callers
    BY DEF Callers
  <1>2. pc'[d] = pc[d] /\ calls'[d] = calls[d]
    BY <1>1, StartShape, StepShape
  <1>3. Mine(d)' = Mine(d)
    BY <1>2 DEF Mine
  <1>4. \A m \in Mine(d) : msg'[m] = msg[m]
    BY OtherMessages DEF Mine
  <1>5. pc[d] # "idle" => calls[d] > 0 /\ result'[<<d, calls[d]>>] = "none"
    <2>1. SUFFICES ASSUME pc[d] # "idle"
                   PROVE  calls[d] > 0 /\ result'[<<d, calls[d]>>] = "none"
      OBVIOUS
    <2>2. calls[d] > 0 /\ result[<<d, calls[d]>>] = "none" /\ calls[d] \in 0 .. MaxCalls
      BY <2>1, PhaseShape DEF PhaseOk, Types
    <2>3. <<d, calls[d]>> \in Keys /\ MaxCalls \in Nat
      BY <2>2, TxProducerAssumption DEF Keys
    <2>4. result'[<<d, calls[d]>>] = result[<<d, calls[d]>>]
      BY <1>1, <2>3, StartShape, StepShape
    <2>5. QED
      BY <2>2, <2>4
  <1>6. CASE ~Busy(d)
    BY <1>2, <1>3, <1>4, <1>5, <1>6, PhaseShape DEF PhaseOk, Phase, Busy
  <1>7. CASE Busy(d)
    <2>1. ~Busy(c)
      BY <1>1, <1>7 DEF OwnerInv
    <2>2. status # "Ready"
      BY <1>7 DEF OwnerInv
    <2>3. CASE Starts(c)
      <3>1. UNCHANGED <<coord, status>>
        BY <1>1, <2>2, <2>3, TxProducerAssumption, StartShape
        DEF Starts, SendTypedMessagesTx, SendTypedMessage, BeginOk
      <3>2. QED
        BY <1>2, <1>3, <1>4, <1>5, <3>1, PhaseShape DEF PhaseOk, Phase, Busy
    <2>4. CASE ~Starts(c)
      <3>1. UNCHANGED <<coord, status>>
        BY <2>1, <2>4, BatchMoves DEF GoesOn, Ends, GivesUp, HasLeft, broker
      <3>2. QED
        BY <1>2, <1>3, <1>4, <1>5, <3>1, PhaseShape DEF PhaseOk, Phase, Busy
    <2>5. QED
      BY <2>3, <2>4
  <1>8. QED
    BY <1>6, <1>7

LEMMA PhaseStart ==
  ASSUME Types, CallsInv, OwnerInv, NEW c \in Batchers, SendTypedMessagesTx(c)
  PROVE  PhaseOk(c)'
  <1>1. c \in Callers /\ Starts(c)
    BY DEF Callers, Starts
  <1>2. CASE pc'[c] = "idle"
    BY <1>2 DEF PhaseOk, Busy
  <1>3. CASE pc'[c] # "idle"
    <2>n. calls[c] \in Nat /\ MaxCalls \in Nat
      BY <1>1, TxProducerAssumption DEF Types
    <2>1. /\ pc'[c] = "send" /\ result' = result /\ msg' = msg /\ coord' = coord
          /\ calls'[c] = calls[c] + 1 /\ calls'[c] \in 1 .. MaxCalls /\ calls[c] \in Nat
      BY <1>1, <1>3, <2>n, StartShape
    <2>2. calls'[c] > 0 /\ calls'[c] > calls[c]
      BY <2>1
    <2>3. result[<<c, calls'[c]>>] = "none" /\ \A m \in Mine(c)' : msg[m] = "new"
      BY <1>1, <2>1, <2>2 DEF CallsInv, Mine
    <2>4. coord = "open"
      <3>1. status = "Ready"
        BY <1>1, <1>3 DEF SendTypedMessagesTx, StartBatch, BeginOk
      <3>2. QED
        BY <3>1 DEF OwnerInv, CallsInv
    <2>5. QED
      BY <2>1, <2>2, <2>3, <2>4 DEF PhaseOk, Phase
  <1>4. QED
    BY <1>2, <1>3

\* The step of a batch itself, action by action.
LEMMA PhaseStep ==
  ASSUME Types, CallsInv, OwnerInv, PhaseInv, NEW c \in Batchers, CallerNext(c), ~Starts(c)
  PROVE  PhaseOk(c)'
  <1>1. c \in Callers /\ c \notin Drivers
    BY TxProducerAssumption DEF Callers
  <1>2. PhaseOk(c) /\ calls' = calls /\ Mine(c)' = Mine(c) /\ Mine(c) \subseteq Messages
    BY <1>1, StepShape, PhaseShape DEF Mine
  <1>3. CASE pc'[c] = "idle"
    BY <1>3 DEF PhaseOk, Busy
  <1>4. CASE pc'[c] # "idle"
    <2>1. pc[c] # "idle"
      BY <1>1 DEF Starts, CallerNext, Step, BeginTx, AddOffsetsToTx, CommitTx, AbortTx,
        SerializeFails, Dispatch, AllDispatched, SendSucceeds, SendFails, CommitStarts,
        CommitSucceeds, CommitRefused, CommitGivesUp, CommitAnswerLost, CommitMay, CommitReturns,
        CommitFailed, AbortStarts, AbortSucceeds, AbortRefused, AbortGivesUp, AbortAnswerLost,
        AbortMay, AbortReturns
    <2>2. result' = result /\ calls[c] > 0 /\ result[<<c, calls[c]>>] = "none"
      BY <1>1, <1>2, <1>4, <2>1, StepShape DEF PhaseOk
    <2>3. \A m \in Mine(c) : Phase(c, m) /\ msg[m] \in Fates
      BY <1>2, <2>1 DEF PhaseOk, Types
    <2>4. Busy(c) /\ coord = "committed" =>
            pc[c] = "commitFailed" /\ status \in {"Committing", "Aborting"}
      BY <1>2 DEF PhaseOk
    <2> SUFFICES /\ \A m \in Mine(c) : Phase(c, m)'
                 /\ Busy(c)' /\ coord' = "committed" =>
                      pc'[c] = "commitFailed" /\ status' \in {"Committing", "Aborting"}
      BY <1>2, <2>2 DEF PhaseOk
    <2>5. CASE SerializeFails(c) \/ AllDispatched(c) \/ CommitStarts(c) \/ AbortStarts(c)
      <3>1. msg' = msg /\ coord' = coord /\ coord # "committed"
            /\ \/ pc[c] = "send" /\ pc'[c] \in {"wait", "abort"}
               \/ pc[c] = "commit" /\ pc'[c] = "commitEnd"
               \/ pc[c] = "abort" /\ pc'[c] = "abortEnd"
        BY <1>1, <2>4, <2>5 DEF Types, Busy, SerializeFails, AllDispatched, CommitStarts,
          AbortStarts, broker
      <3>2. QED
        BY <2>3, <3>1 DEF Phase
    <2>6. CASE Dispatch(c)
      <3>1. pc[c] = "send" /\ pc' = pc /\ coord' = coord /\ coord # "committed"
        BY <2>4, <2>6 DEF Busy, Dispatch, client
      <3>2. \A m \in Mine(c) : msg'[m] = msg[m] \/ msg'[m] \in {"inflight", "failed"}
        BY <1>2, <2>6 DEF Types, Dispatch
      <3>3. QED
        BY <2>3, <3>1, <3>2 DEF Phase
    <2>7. CASE SendSucceeds(c)
      <3>1. pc[c] = "wait" /\ pc'[c] = "commit" /\ msg' = msg /\ coord' = coord
            /\ coord # "committed" /\ Answered(c) /\ ~AnyFailed(c)
        BY <1>1, <2>4, <2>7 DEF Types, Busy, SendSucceeds, broker
      <3>2. \A m \in Mine(c) : msg[m] \notin {"inflight", "failed"}
        <4>1. SUFFICES ASSUME NEW m \in Mine(c) PROVE msg[m] \notin {"inflight", "failed"}
          OBVIOUS
        <4>2. CASE m \in CurrentCall(c)
          BY <3>1, <4>2 DEF Answered, AnyFailed
        <4>3. CASE m \notin CurrentCall(c)
          <5>1. m \in Messages /\ m[1] = c /\ m[2] = calls[c] /\ ~(m[3] <= size[c])
            BY <1>1, <4>3, CurrentShape DEF Mine
          <5>2. m[3] \in Nat /\ size[c] \in Nat
            BY <1>1, <5>1, MessageShape, TxProducerAssumption DEF Types
          <5>3. msg[m] = "new"
            BY <5>1, <5>2 DEF CallsInv
          <5>4. QED
            BY <5>3
        <4>4. QED
          BY <4>2, <4>3
      <3>3. QED
        BY <2>3, <3>1, <3>2 DEF Phase
    <2>8. CASE SendFails(c)
      <3>1. pc[c] = "wait" /\ pc'[c] = "abort" /\ msg' = msg /\ coord' = coord
            /\ coord # "committed"
        BY <1>1, <2>4, <2>8 DEF Types, Busy, SendFails, broker
      <3>2. QED
        BY <2>3, <3>1 DEF Phase
    <2>9. CASE CommitSucceeds(c)
      <3>1. pc[c] = "commitEnd" /\ pc'[c] = "swap" /\ coord' = "open"
        BY <1>1, <2>9 DEF Types, CommitSucceeds, CommitMay, Complete
      <3>2. coord = "open"
        BY <2>4, <2>9, <3>1 DEF Busy, CommitSucceeds, CallsInv
      <3>3. \A m \in Mine(c) : msg'[m] = IF msg[m] = "acked" THEN "committed" ELSE msg[m]
        BY <1>2, <2>9 DEF CommitSucceeds
      <3>4. \A m \in Mine(c) : msg'[m] \in {"new", "committed"}
        BY <2>3, <3>1, <3>2, <3>3 DEF Phase, Fates
      <3>5. QED
        BY <3>1, <3>4 DEF Phase
    <2>10. CASE CommitRefused(c) \/ CommitGivesUp(c)
      <3>1. pc[c] = "commitEnd" /\ pc'[c] = "commitFailed" /\ msg' = msg /\ coord' = coord
        BY <1>1, <2>10 DEF Types, CommitRefused, CommitGivesUp, CommitMay, CommitError
      <3>2. coord # "committed"
        BY <2>4, <3>1 DEF Busy
      <3>3. QED
        BY <2>3, <3>1, <3>2 DEF Phase
    <2>11. CASE CommitAnswerLost(c)
      <3>1. pc[c] = "commitEnd" /\ pc'[c] = "commitFailed" /\ coord = "open"
            /\ coord' = "committed" /\ status' = status /\ status \in {"Committing", "Aborting"}
        BY <1>1, <2>11 DEF Types, CommitAnswerLost, CommitMay, CommitError
      <3>2. \A m \in Mine(c) : msg'[m] = IF msg[m] = "acked" THEN "committed" ELSE msg[m]
        BY <1>2, <2>11 DEF CommitAnswerLost
      <3>3. \A m \in Mine(c) : msg'[m] \in {"new", "committed"}
        BY <2>3, <3>1, <3>2 DEF Phase, Fates
      <3>4. QED
        BY <3>1, <3>3 DEF Phase
    <2>12. CASE CommitFailed(c)
      <3>1. pc[c] = "commitFailed" /\ pc'[c] = "abort" /\ msg' = msg /\ coord' = coord
            /\ status = "AbortableError"
        BY <1>1, <1>4, <2>12 DEF Types, CommitFailed, Return, broker
      <3>2. coord # "committed"
        BY <2>4, <3>1 DEF Busy
      <3>3. QED
        BY <2>3, <3>1, <3>2 DEF Phase
    <2>13. CASE AbortSucceeds(c)
      <3>1. pc[c] = "abortEnd" /\ pc'[c] = "store" /\ coord' = "open"
        BY <1>1, <2>13 DEF Types, AbortSucceeds, AbortMay, Complete
      <3>2. \A m \in Mine(c) : msg'[m] \in {msg[m], "aborted"}
        BY <1>2, <2>13 DEF AbortSucceeds
      <3>3. QED
        BY <2>3, <3>1, <3>2 DEF Phase
    <2>14. QED
      BY <1>1, <1>4, <2>5, <2>6, <2>7, <2>8, <2>9, <2>10, <2>11, <2>12, <2>13
      DEF Types, CallerNext, Step, Starts, BeginTx, AddOffsetsToTx, CommitTx, AbortTx,
        CommitReturns, AbortReturns, AbortRefused, AbortGivesUp, AbortAnswerLost, AbortError, Return
  <1>5. QED
    BY <1>3, <1>4

LEMMA PhaseBroker ==
  ASSUME Types, CallsInv, OwnerInv, PhaseInv, BrokerNext
  PROVE  PhaseInv'
  <1>1. UNCHANGED <<pc, calls, result>>
    BY DEF BrokerNext, BrokerAcks, BrokerFails, CoordinatorTimesOut, client
  <1>2. \A c \in Callers : Mine(c)' = Mine(c) /\ (Busy(c)' <=> Busy(c)) /\ Mine(c) \subseteq Messages
    BY <1>1 DEF Mine, Busy
  <1>3. CASE \E o \in Messages : BrokerAcks(o) \/ BrokerFails(o)
    <2>1. PICK o \in Messages : BrokerAcks(o) \/ BrokerFails(o)
      BY <1>3
    <2>2. /\ msg[o] = "inflight" /\ o \in Open /\ coord' = coord
          /\ msg'[o] \in {"acked", "failed"} /\ \A m \in Messages : m # o => msg'[m] = msg[m]
          /\ BrokerAcks(o) => msg'[o] = "acked" /\ status' = status
      BY <2>1 DEF Types, BrokerAcks, BrokerFails, Open, InFlight
    <2> SUFFICES ASSUME NEW c \in Callers PROVE PhaseOk(c)'
      BY DEF PhaseInv, PhaseOk, Phase, Mine
    <2>3. PhaseOk(c)
      BY PhaseShape
    <2>4. pc[c] # "idle" /\ o \in Mine(c) => pc[c] \notin {"commit", "commitEnd", "swap"}
                                             /\ ~(pc[c] = "commitFailed" /\ coord = "committed")
      BY <2>2, <2>3 DEF PhaseOk, Phase
    <2>5. Busy(c) => o \in Mine(c)
      BY <2>2, OwnerShape DEF Mine
    <2>6. ~(Busy(c) /\ coord = "committed")
      BY <2>3, <2>4, <2>5 DEF PhaseOk, Busy
    <2>7. \A m \in Mine(c) : pc[c] # "idle" => Phase(c, m)'
      BY <1>1, <1>2, <2>2, <2>3, <2>4 DEF PhaseOk, Phase
    <2>8. QED
      BY <1>1, <1>2, <2>2, <2>3, <2>6, <2>7 DEF PhaseOk
  <1>4. CASE CoordinatorTimesOut
    <2>1. /\ coord = "open" /\ coord' = "timedOut" /\ status' = status
          /\ \A m \in Messages : msg'[m] = IF msg[m] = "acked" THEN "aborted" ELSE msg[m]
      BY <1>4 DEF CoordinatorTimesOut
    <2> SUFFICES ASSUME NEW c \in Callers PROVE PhaseOk(c)'
      BY DEF PhaseInv, PhaseOk, Phase, Mine
    <2>2. PhaseOk(c)
      BY PhaseShape
    <2>3. \A m \in Mine(c) : pc[c] # "idle" => Phase(c, m)'
      BY <1>1, <1>2, <2>1, <2>2 DEF PhaseOk, Phase
    <2>4. QED
      BY <1>1, <1>2, <2>1, <2>2, <2>3 DEF PhaseOk
  <1>5. QED
    BY <1>3, <1>4 DEF BrokerNext

-----------------------------------------------------------------------------
(* What calls that ended say is so.                                        *)

Batch(c, k) == {m \in Messages : m[1] = c /\ m[2] = k}

ResultOk(c, k) ==
  /\ result[<<c, k>>] # "none" =>
       \/ \A m \in Batch(c, k) : msg[m] \in {"new", "committed"}
       \/ \A m \in Batch(c, k) : msg[m] # "committed"
  /\ result[<<c, k>>] = "ok" => \A m \in Batch(c, k) : msg[m] \in {"new", "committed"}

ResultInv == \A c \in Batchers, k \in 1 .. MaxCalls : ResultOk(c, k)

LEMMA ResultImplies == ResultInv => BatchIsAtomic /\ OkMeansCommitted
  <1> SUFFICES ASSUME ResultInv, NEW c \in Batchers, NEW k \in 1 .. MaxCalls
               PROVE  /\ result[<<c, k>>] # "none" =>
                           LET sent == {i \in 1 .. MaxBatch : msg[<<c, k, i>>] # "new"}
                           IN \/ \A i \in sent : msg[<<c, k, i>>] = "committed"
                              \/ \A i \in sent : msg[<<c, k, i>>] # "committed"
                      /\ result[<<c, k>>] = "ok" =>
                           \A i \in 1 .. MaxBatch : msg[<<c, k, i>>] \in {"new", "committed"}
    BY DEF BatchIsAtomic, OkMeansCommitted
  <1>1. \A i \in 1 .. MaxBatch : <<c, k, i>> \in Batch(c, k)
    BY MessageShape DEF Batch, Callers
  <1>2. ResultOk(c, k)
    BY DEF ResultInv
  <1>3. QED
    BY <1>1, <1>2 DEF ResultOk

LEMMA ResultStep ==
  ASSUME Types, CallsInv, OwnerInv, PhaseInv, ResultInv, NEW c \in Batchers, CallerNext(c)
  PROVE  ResultInv'
  <1>1. c \in Callers /\ c \notin Drivers
    BY TxProducerAssumption DEF Callers
  <1> SUFFICES ASSUME NEW d \in Batchers, NEW k \in 1 .. MaxCalls
               PROVE  ResultOk(d, k)'
    BY DEF ResultInv
  <1>2. d \in Callers /\ <<d, k>> \in Keys /\ ResultOk(d, k)
    BY DEF Callers, Keys, ResultInv
  <1>3. CASE d # c \/ k # calls'[c]
    <2>1. result'[<<d, k>>] = result[<<d, k>>]
      <3>1. <<d, k>> # <<c, calls'[c]>>
        BY <1>3
      <3>2. QED
        <4>1. CASE Starts(c)
          BY <1>1, <1>2, <3>1, <4>1, StartShape
        <4>2. CASE ~Starts(c)
          <5>1. calls' = calls
            BY <1>1, <4>2, StepShape
          <5>2. <<d, k>> # <<c, calls[c]>>
            BY <3>1, <5>1
          <5>3. QED
            BY <1>1, <1>2, <4>2, <5>2, StepShape
        <4>3. QED
          BY <4>1, <4>2
    <2>2. \A m \in Batch(d, k) : msg'[m] = msg[m]
      <3>1. CASE Starts(c)
        BY <1>1, <3>1, StartShape
      <3>2. CASE ~Starts(c)
        <4>1. calls' = calls
          BY <1>1, <3>2, StepShape
        <4>2. QED
          BY <1>3, <4>1, OtherMessages DEF Batch
      <3>3. QED
        BY <3>1, <3>2
    <2>3. QED
      BY <1>2, <2>1, <2>2 DEF ResultOk, Batch
  <1>4. CASE d = c /\ k = calls'[c] /\ Starts(c)
    <2>n. calls[c] \in Nat
      BY <1>1, TxProducerAssumption DEF Types
    <2>1. msg' = msg /\ calls'[c] = calls[c] + 1 /\ calls[c] \in Nat
      BY <1>1, <1>4, <2>n, StartShape
    <2>2. k > calls[c]
      BY <1>4, <2>1
    <2>3. \A m \in Batch(c, k) : msg[m] = "new"
      BY <2>2 DEF Batch, CallsInv
    <2>4. QED
      BY <1>4, <2>1, <2>3 DEF ResultOk, Batch
  <1>5. CASE d = c /\ k = calls'[c] /\ ~Starts(c)
    <2>1. calls' = calls /\ Batch(c, k) = Mine(c)
      BY <1>1, <1>5, StepShape DEF Batch, Mine
    <2>2. pc[c] # "idle"
      BY <1>1, <1>5 DEF Starts, CallerNext, Step, BeginTx, AddOffsetsToTx, CommitTx, AbortTx,
        SerializeFails, Dispatch, AllDispatched, SendSucceeds, SendFails, CommitStarts,
        CommitSucceeds, CommitRefused, CommitGivesUp, CommitAnswerLost, CommitMay, CommitReturns,
        CommitFailed, AbortStarts, AbortSucceeds, AbortRefused, AbortGivesUp, AbortAnswerLost,
        AbortMay, AbortReturns
    <2>3. PhaseOk(c) /\ calls[c] > 0 /\ result[<<c, k>>] = "none"
      BY <1>1, <1>5, <2>1, <2>2, PhaseShape DEF PhaseOk
    <2>4. \A m \in Mine(c) : Phase(c, m)
      BY <2>2, <2>3 DEF PhaseOk
    <2>5. CASE result'[<<c, k>>] = "none"
      BY <1>5, <2>5 DEF ResultOk
    <2>6. CASE result'[<<c, k>>] # "none"
      <3>1. pc'[c] = "idle"
        BY <1>1, <1>5, <2>3, <2>6, StepShape
      <3>2. CASE CommitReturns(c)
        <4>1. pc[c] = "swap" /\ msg' = msg
          BY <3>2 DEF CommitReturns, broker
        <4>2. \A m \in Mine(c) : msg'[m] \in {"new", "committed"}
          BY <2>4, <4>1 DEF Phase
        <4>3. QED
          BY <1>5, <2>1, <4>2 DEF ResultOk, Batch
      <3>3. CASE CommitFailed(c)
        <4>1. pc[c] = "commitFailed" /\ msg' = msg
          BY <3>3 DEF CommitFailed, broker
        <4>2. result'[<<c, k>>] = "error"
          BY <1>1, <1>5, <2>1, <2>3, <2>6, <3>3, ReturnShape DEF CommitFailed, Results
        <4>3. \/ \A m \in Mine(c) : msg'[m] \in {"new", "committed"}
              \/ \A m \in Mine(c) : msg'[m] # "committed"
          BY <2>4, <4>1 DEF Phase
        <4>4. QED
          BY <1>5, <2>1, <4>2, <4>3 DEF ResultOk, Batch
      <3>4. CASE AbortRefused(c) \/ AbortGivesUp(c) \/ AbortAnswerLost(c) \/ AbortReturns(c)
        <4>1. /\ pc[c] \in {"abortEnd", "store"} /\ Return(c, "error")
              /\ \A m \in Messages : msg'[m] \in {msg[m], "aborted"}
          BY <3>4 DEF Types, AbortRefused, AbortGivesUp, AbortAnswerLost, AbortMay, AbortError,
            AbortReturns, broker
        <4>2. result'[<<c, k>>] = "error"
          BY <1>1, <1>5, <2>1, <2>3, <4>1, ReturnShape DEF Results
        <4>3. \A m \in Mine(c) : msg'[m] # "committed"
          BY <2>4, <4>1 DEF Phase, Mine
        <4>4. QED
          BY <1>5, <2>1, <4>2, <4>3 DEF ResultOk, Batch
      <3>5. QED
        BY <1>1, <1>5, <3>1, <3>2, <3>3, <3>4
        DEF Types, CallerNext, Step, Starts, BeginTx, AddOffsetsToTx, CommitTx, AbortTx,
          SerializeFails, Dispatch, AllDispatched, SendSucceeds, SendFails, CommitStarts,
          CommitSucceeds, CommitRefused, CommitGivesUp, CommitAnswerLost, CommitMay, CommitError,
          AbortStarts, AbortSucceeds, AbortMay, client
    <2>7. QED
      BY <2>5, <2>6
  <1>6. QED
    BY <1>3, <1>4, <1>5

LEMMA ResultBroker ==
  ASSUME Types, ResultInv, BrokerNext
  PROVE  ResultInv'
  <1>1. result' = result
    BY DEF BrokerNext, BrokerAcks, BrokerFails, CoordinatorTimesOut, client
  <1>2. \A m \in Messages : /\ (msg'[m] = "committed") <=> (msg[m] = "committed")
                            /\ (msg'[m] = "new") <=> (msg[m] = "new")
    BY DEF Types, BrokerNext, BrokerAcks, BrokerFails, CoordinatorTimesOut
  <1> SUFFICES ASSUME NEW c \in Batchers, NEW k \in 1 .. MaxCalls
               PROVE  ResultOk(c, k)'
    BY DEF ResultInv
  <1>3. ResultOk(c, k)
    BY DEF ResultInv
  <1>4. Batch(c, k) \subseteq Messages
    BY DEF Batch
  <1>5. (\A m \in Batch(c, k) : msg[m] \in {"new", "committed"}) =>
          \A m \in Batch(c, k) : msg'[m] \in {"new", "committed"}
    BY <1>2, <1>4
  <1>6. (\A m \in Batch(c, k) : msg[m] # "committed") =>
          \A m \in Batch(c, k) : msg'[m] # "committed"
    BY <1>2, <1>4
  <1>7. Batch(c, k)' = Batch(c, k)
    BY DEF Batch
  <1>8. QED
    BY <1>1, <1>3, <1>5, <1>6, <1>7 DEF ResultOk

-----------------------------------------------------------------------------
(* The counter of a goroutine that has the producer to itself.             *)

Alone == \A c, d \in crew : c = d

CountOk(c) ==
  /\ counted <= Cardinality(Committed)
  /\ pc[c] = "swap" => counted + pendingTx <= Cardinality(Committed)
  /\ pc[c] \notin {"swap", "store"} /\ coord \in {"open", "committed"} =>
       counted + pendingTx <= Cardinality(Told)
  /\ pc[c] \in {"send", "wait"} /\ coord \in {"open", "committed"} =>
       \A m \in CurrentCall(c) : msg[m] # "aborted"

\* A bound on the counts is kept by a set that loses nothing.
LEMMA CountKept ==
  ASSUME NEW x \in Nat, NEW y \in Nat, NEW S, NEW T, S \subseteq T, T \subseteq Messages
  PROVE  /\ x <= Cardinality(S) => x <= Cardinality(T)
         /\ x + y <= Cardinality(S) => x + y <= Cardinality(T)
  <1>1. Cardinality(S) \in Nat /\ Cardinality(T) \in Nat /\ Cardinality(S) <= Cardinality(T)
    BY MessageCounts
  <1>2. \A p, q, r \in Nat : p <= q /\ q <= r => p <= r
    OBVIOUS
  <1>3. x + y \in Nat
    OBVIOUS
  <1>4. QED
    BY <1>1, <1>2, <1>3

LEMMA CommittedGrows ==
  ASSUME Types, NEW c \in Callers, CallerNext(c)
  PROVE  Committed \subseteq Committed' /\ Committed' \subseteq Messages
  BY MessageSteps DEF Committed

LEMMA ToldGrows ==
  ASSUME Types, CallsInv, NEW c \in Callers, CallerNext(c),
         ~AbortSucceeds(c), ~AbortAnswerLost(c)
  PROVE  Told \subseteq Told' /\ Told' \subseteq Messages
  <1>1. Told' \subseteq Messages
    BY DEF Told
  <1>2. ASSUME NEW m \in Told
        PROVE  m \in Told'
    <2>1. /\ m \in Messages /\ msg[m] \in {"acked", "committed"} /\ m[1] \in Callers
          /\ ~(m[2] = calls[m[1]] /\ pc[m[1]] \in {"send", "wait"})
      BY MessageShape DEF Told
    <2>2. msg'[m] \in {"acked", "committed"}
      BY <2>1, MessageSteps
    <2>3. CASE Starts(c)
      <3>1. /\ calls'[c] = calls[c] + 1
            /\ m[1] # c => calls'[m[1]] = calls[m[1]] /\ pc'[m[1]] = pc[m[1]]
        BY <2>1, <2>3, StartShape
      <3>2. m[1] = c => ~(m[2] > calls[c]) /\ m[2] \in Nat /\ calls[c] \in Nat
        BY <2>1, MessageShape, TxProducerAssumption DEF Types, CallsInv
      <3>3. m[1] = c => m[2] # calls'[c]
        BY <3>1, <3>2
      <3>4. QED
        BY <2>1, <2>2, <3>1, <3>3 DEF Told
    <2>4. CASE ~Starts(c)
      <3>1. calls' = calls /\ (m[1] # c => pc'[m[1]] = pc[m[1]])
        BY <2>1, <2>4, StepShape
      <3>2. m[1] = c /\ pc'[c] \in {"send", "wait"} => pc[c] \in {"send", "wait"}
        BY <2>4, SendingGoesOn
      <3>3. QED
        BY <2>1, <2>2, <3>1, <3>2 DEF Told
    <2>5. QED
      BY <2>3, <2>4
  <1>3. QED
    BY <1>1, <1>2

\* What the messages of a call that was accepted add.
LEMMA ToldAdds ==
  ASSUME Types, CallsInv, NEW c \in Callers, CallerNext(c), SendSucceeds(c),
         \A m \in CurrentCall(c) : msg[m] # "aborted"
  PROVE  Cardinality(Told) + size[c] <= Cardinality(Told')
  <1> DEFINE sent == CurrentCall(c)
  <1>1. /\ pc[c] = "wait" /\ pc'[c] \in {"commit", "idle"} /\ calls' = calls /\ msg' = msg
        /\ Answered(c) /\ ~AnyFailed(c) /\ ~Starts(c)
    BY ReturnShape
    DEF Types, Results, SendSucceeds, broker, Starts, SendTypedMessagesTx, SendTypedMessage, StartBatch
  <1>2. sent \subseteq Messages /\ \A m \in sent : m[1] = c /\ m[2] = calls[c]
    BY <1>1, CurrentShape DEF CallsInv
  <1>3. \A m \in sent : msg[m] \in {"acked", "committed"}
    BY <1>1, <1>2 DEF Types, Fates, CallsInv, Answered, AnyFailed
  <1>4. sent \cap Told = {}
    BY <1>1, <1>2 DEF Told
  <1>5. sent \subseteq Told'
    BY <1>1, <1>2, <1>3 DEF Told
  <1>6. IsFiniteSet(sent) /\ Cardinality(sent) = size[c]
    BY CurrentCount
  <1>7. Told \subseteq Told' /\ Told' \subseteq Messages
    BY <1>1, ToldGrows DEF AbortSucceeds, AbortAnswerLost, AbortMay
  <1> HIDE DEF sent
  <1>8. IsFiniteSet(Told) /\ Told \cup sent \subseteq Told' /\ Cardinality(Told) \in Nat
    BY <1>5, <1>7, MessageCounts
  <1>9. Cardinality(Told \cup sent) = Cardinality(Told) + Cardinality(sent) - Cardinality({})
    BY <1>4, <1>6, <1>8, FS_Union
  <1>10. Cardinality(Told \cup sent) <= Cardinality(Told') /\ Cardinality({}) = 0
    BY <1>7, <1>8, MessageCounts, FS_EmptySet
  <1>11. size[c] \in Nat
    BY TxProducerAssumption DEF Types
  <1>12. Cardinality(Told) + size[c] = Cardinality(Told) + Cardinality(sent) - Cardinality({})
    BY <1>6, <1>8, <1>10, <1>11
  <1>13. QED
    BY <1>9, <1>10, <1>12

LEMMA CountStep ==
  ASSUME Types, CallsInv, Alone, NEW c \in crew, CountOk(c), CallerNext(c)
  PROVE  CountOk(c)'
  <1>1. c \in Callers /\ pendingTx \in Nat /\ counted \in Nat /\ pendingTx' \in Nat
        /\ pc[c] \in Pcs /\ \A d \in Callers \ {c} : pc[d] = "idle"
    <2>1. c \in Callers /\ pendingTx \in Nat /\ counted \in Nat /\ pc[c] \in Pcs
      BY DEF Types
    <2>2. \A d \in Callers \ {c} : pc[d] = "idle"
      BY DEF Alone, CallsInv
    <2>3. pendingTx' \in Nat
      <3>1. CASE SendSucceeds(c)
        <4>1. size[c] \in Nat
          BY <2>1, TxProducerAssumption DEF Types
        <4>2. QED
          BY <2>1, <3>1, <4>1 DEF SendSucceeds
      <3>2. CASE CommitReturns(c) \/ AbortReturns(c)
        BY <3>2 DEF CommitReturns, AbortReturns
      <3>3. CASE ~SendSucceeds(c) /\ ~CommitReturns(c) /\ ~AbortReturns(c)
        BY <2>1, <3>3, CountSteps
      <3>4. QED
        BY <3>1, <3>2, <3>3
    <2>4. QED
      BY <2>1, <2>2, <2>3
  <1>2. Committed \subseteq Committed' /\ Committed' \subseteq Messages
    BY <1>1, CommittedGrows
  <1>3. counted <= Cardinality(Committed')
    BY <1>1, <1>2, CountKept DEF CountOk
  <1>4. CASE CommitReturns(c)
    <2>1. /\ pc[c] = "swap" /\ pc'[c] = "idle" /\ counted' = counted + pendingTx /\ pendingTx' = 0
          /\ \A d \in Callers : pc'[d] = "idle"
      BY <1>1, <1>4 DEF Types, CommitReturns, Return
    <2>2. counted + pendingTx <= Cardinality(Committed')
      BY <1>1, <1>2, <2>1, CountKept DEF CountOk
    <2>3. Committed' \subseteq Told' /\ Told' \subseteq Messages
      BY <2>1, MessageShape DEF Committed, Told
    <2>4. counted + pendingTx <= Cardinality(Told')
      BY <1>1, <2>2, <2>3, CountKept
    <2>5. counted' + pendingTx' = counted + pendingTx
      BY <1>1, <2>1
    <2>6. QED
      BY <2>1, <2>2, <2>4, <2>5 DEF CountOk
  <1>5. CASE AbortReturns(c)
    <2>1. /\ pc'[c] = "idle" /\ counted' = counted /\ pendingTx' = 0
          /\ \A d \in Callers : pc'[d] = "idle"
      BY <1>1, <1>5 DEF Types, AbortReturns, Return
    <2>2. Committed' \subseteq Told' /\ Told' \subseteq Messages
      BY <2>1, MessageShape DEF Committed, Told
    <2>3. counted <= Cardinality(Told') /\ counted' + pendingTx' = counted
      BY <1>1, <1>3, <2>1, <2>2, CountKept
    <2>4. QED
      BY <1>3, <2>1, <2>3 DEF CountOk
  <1>6. CASE CommitSucceeds(c)
    <2>1. /\ pc[c] = "commitEnd" /\ pc'[c] = "swap" /\ UNCHANGED <<counted, pendingTx>>
          /\ coord \in {"open", "committed"}
      BY <1>1, <1>6 DEF Types, CommitSucceeds, CommitMay, CallsInv
    <2>2. Told \subseteq Committed'
      BY <1>6 DEF Told, Committed, CommitSucceeds
    <2>3. counted + pendingTx <= Cardinality(Committed')
      BY <1>1, <1>2, <2>1, <2>2, CountKept DEF CountOk
    <2>4. QED
      BY <1>3, <2>1, <2>3 DEF CountOk
  <1>7. CASE AbortSucceeds(c) \/ AbortAnswerLost(c)
    <2>1. /\ UNCHANGED <<counted, pendingTx>>
          /\ \/ pc'[c] = "store"
             \/ pc'[c] = "idle" /\ coord' = "aborted"
      BY <1>1, <1>7 DEF Types, AbortSucceeds, AbortAnswerLost, AbortError, Return
    <2>2. QED
      BY <1>3, <2>1 DEF CountOk
  <1>8. CASE SendSucceeds(c)
    <2>1. /\ pc[c] = "wait" /\ pc'[c] \in {"commit", "idle"} /\ coord' = coord
          /\ counted' = counted /\ pendingTx' = pendingTx + size[c]
      BY <1>1, <1>8, ReturnShape DEF Types, Results, SendSucceeds, broker
    <2>2. CASE coord \in {"open", "committed"}
      <3>1. Cardinality(Told) + size[c] <= Cardinality(Told')
        BY <1>1, <1>8, <2>1, <2>2, ToldAdds DEF CountOk
      <3>2. counted + pendingTx <= Cardinality(Told)
        BY <2>1, <2>2 DEF CountOk
      <3>3. /\ size[c] \in Nat /\ Cardinality(Told) \in Nat /\ Cardinality(Told') \in Nat
        BY <1>1, TxProducerAssumption, MessageCounts DEF Types, Told
      <3>4. \A x, y, z, p, q \in Nat : x + y <= p /\ p + z <= q => x + (y + z) <= q
        OBVIOUS
      <3>5. counted + (pendingTx + size[c]) <= Cardinality(Told')
        BY <1>1, <3>1, <3>2, <3>3, <3>4
      <3>6. QED
        BY <1>3, <2>1, <3>5 DEF CountOk
    <2>3. CASE coord \notin {"open", "committed"}
      BY <1>3, <2>1, <2>3 DEF CountOk
    <2>4. QED
      BY <2>2, <2>3
  <1>9. CASE /\ ~CommitReturns(c) /\ ~AbortReturns(c) /\ ~CommitSucceeds(c)
             /\ ~AbortSucceeds(c) /\ ~AbortAnswerLost(c) /\ ~SendSucceeds(c)
    <2>1. UNCHANGED <<counted, pendingTx>>
      BY <1>1, <1>9, CountSteps
    <2>2. Told \subseteq Told' /\ Told' \subseteq Messages
      BY <1>1, <1>9, ToldGrows
    <2>3. /\ pc[c] \notin {"swap", "store"} /\ pc'[c] \notin {"swap", "store"}
          /\ coord' \in {"open", "committed"} => coord \in {"open", "committed"}
      BY <1>1, <1>9 DEF Types, CallerNext, Step, SendTypedMessagesTx, StartBatch, BeginTx,
        SendTypedMessage, AddOffsetsToTx, CommitTx, AbortTx, SerializeFails, Dispatch,
        AllDispatched, SendFails, CommitStarts, CommitRefused, CommitGivesUp, CommitAnswerLost,
        CommitMay, CommitError, CommitFailed, AbortStarts, AbortRefused, AbortGivesUp, AbortMay,
        AbortError, Return, client, broker
    <2>4. coord' \in {"open", "committed"} => counted + pendingTx <= Cardinality(Told')
      BY <1>1, <2>2, <2>3, CountKept DEF CountOk
    <2>5. pc'[c] \in {"send", "wait"} /\ coord' \in {"open", "committed"} =>
            \A m \in CurrentCall(c)' : msg'[m] # "aborted"
      <3>1. CASE Starts(c)
        <4>1. /\ msg' = msg /\ calls'[c] = calls[c] + 1 /\ calls[c] \in Nat
          <5>1. calls[c] \in Nat
            BY <1>1, TxProducerAssumption DEF Types
          <5>2. QED
            BY <1>1, <3>1, <5>1, StartShape
        <4>2. size'[c] \in 0 .. MaxBatch /\ MaxBatch \in Nat /\ calls'[c] \in 1 .. MaxCalls
          BY <1>1, <3>1, StartShape, TxProducerAssumption
          DEF Types, Starts, SendTypedMessagesTx, SendTypedMessage, StartBatch
        <4>3. \A m \in CurrentCall(c)' : m \in Messages /\ m[1] = c /\ m[2] = calls'[c]
          BY <1>1, <4>2, MessageShape DEF CurrentCall
        <4>4. \A m \in CurrentCall(c)' : msg[m] = "new"
          BY <4>1, <4>3 DEF CallsInv
        <4>5. QED
          BY <4>1, <4>4
      <3>2. CASE ~Starts(c)
        <4>1. CurrentCall(c)' = CurrentCall(c)
          BY <1>1, <3>2, StepShape DEF CurrentCall
        <4>2. SUFFICES ASSUME pc'[c] \in {"send", "wait"}, coord' \in {"open", "committed"},
                              NEW m \in CurrentCall(c)
                       PROVE  msg'[m] # "aborted"
          BY <4>1
        <4>3. pc[c] \in {"send", "wait"}
          BY <1>1, <3>2, <4>2, SendingGoesOn
        <4>4. m \in Messages
          BY <1>1, <4>2, <4>3, CurrentShape DEF CallsInv
        <4>5. msg[m] # "aborted"
          BY <2>3, <4>2, <4>3 DEF CountOk
        <4>6. QED
          BY <1>1, <1>9, <4>4, <4>5, MessageSteps
      <3>3. QED
        BY <3>1, <3>2
    <2>6. QED
      BY <1>3, <2>1, <2>3, <2>4, <2>5 DEF CountOk
  <1>10. QED
    BY <1>4, <1>5, <1>6, <1>7, <1>8, <1>9

LEMMA CountBroker ==
  ASSUME Types, CallsInv, NEW c \in crew, CountOk(c), BrokerNext
  PROVE  CountOk(c)'
  <1>1. c \in Callers /\ pendingTx \in Nat /\ counted \in Nat
    BY DEF Types
  <1>2. UNCHANGED <<pc, calls, size, counted, pendingTx>>
    BY DEF BrokerNext, BrokerAcks, BrokerFails, CoordinatorTimesOut, client
  <1>3. Committed \subseteq Committed' /\ Committed' \subseteq Messages
    BY DEF Types, Committed, BrokerNext, BrokerAcks, BrokerFails, CoordinatorTimesOut
  <1>4. /\ counted <= Cardinality(Committed')
        /\ pc[c] = "swap" => counted + pendingTx <= Cardinality(Committed')
    BY <1>1, <1>3, CountKept DEF CountOk
  <1>5. CASE CoordinatorTimesOut
    BY <1>2, <1>4, <1>5 DEF CountOk, CoordinatorTimesOut
  <1>6. CASE \E m \in Messages : BrokerAcks(m) \/ BrokerFails(m)
    <2>1. /\ coord' = coord
          /\ \A m \in Messages : \/ msg'[m] = msg[m]
                                 \/ msg[m] = "inflight" /\ msg'[m] \in {"acked", "failed"}
      BY <1>6 DEF Types, BrokerAcks, BrokerFails
    <2>2. Told \subseteq Told' /\ Told' \subseteq Messages
      BY <1>2, <2>1 DEF Told
    <2>3. counted + pendingTx <= Cardinality(Told) => counted + pendingTx <= Cardinality(Told')
      BY <1>1, <2>2, CountKept
    <2>4. CurrentCall(c)' = CurrentCall(c)
      BY <1>2 DEF CurrentCall
    <2>5. pc[c] \in {"send", "wait"} => CurrentCall(c) \subseteq Messages
      BY <1>1, CurrentShape DEF CallsInv
    <2>6. QED
      BY <1>2, <1>4, <2>1, <2>3, <2>4, <2>5 DEF CountOk
  <1>7. QED
    BY <1>5, <1>6 DEF BrokerNext

-----------------------------------------------------------------------------
(* The inductive invariant.                                                *)

IInv ==
  /\ Types /\ CallsInv /\ BoundInv
  /\ crew \subseteq Batchers => OwnerInv /\ PhaseInv /\ ResultInv
  /\ Alone => CountInv

LEMMA CountShape ==
  CountInv <=> counted <= Cardinality(Committed) /\ \A c \in crew : CountOk(c)
  BY DEF CountInv, CountOk

LEMMA InitInv == Init => IInv
  <1> SUFFICES ASSUME Init PROVE IInv
    OBVIOUS
  <1>1. Types
    <2>1. 0 \in 0 .. MaxCalls /\ 0 \in 0 .. MaxBatch
      BY TxProducerAssumption
    <2>2. result \in [Keys -> Results]
      BY DEF Init, Keys, Results
    <2>3. msg \in [Messages -> Fates]
      BY DEF Init, Fates
    <2>4. /\ calls \in [Callers -> 0 .. MaxCalls] /\ size \in [Callers -> 0 .. MaxBatch]
          /\ bad \in [Callers -> BOOLEAN] /\ pc \in [Callers -> Pcs]
      BY <2>1 DEF Init, Pcs
    <2>5. QED
      BY <2>2, <2>3, <2>4 DEF Init, Types, Coords, Statuses
  <1>2. CallsInv
    BY MessageShape DEF Init, CallsInv
  <1>3. /\ Cardinality(Done) \in Nat /\ Cardinality(Committed) \in Nat
        /\ Cardinality(Told) \in Nat
    BY MessageCounts DEF Done, Committed, Told
  <1>4. BoundInv
    BY <1>3 DEF Init, BoundInv
  <1>5. OwnerInv
    BY DEF Init, OwnerInv, Busy, Acked, InFlight
  <1>6. PhaseInv
    BY DEF Init, PhaseInv, Busy
  <1>7. ResultInv
    BY DEF Init, ResultInv, ResultOk, Callers
  <1>8. CountInv
    BY <1>3 DEF Init, CountInv
  <1>9. QED
    BY <1>1, <1>2, <1>4, <1>5, <1>6, <1>7, <1>8 DEF IInv

LEMMA CallerInv ==
  ASSUME IInv, NEW c \in crew, CallerNext(c), crew' = crew
  PROVE  IInv'
  <1>1. Types /\ CallsInv /\ BoundInv /\ c \in Callers
    BY DEF IInv, Types
  <1>2. Types' /\ BoundInv'
    BY <1>1, TypesStep, BoundStep
  <1>3. CallsInv'
    <2>1. CASE Starts(c)
      BY <1>1, <2>1, CallsStart
    <2>2. CASE ~Starts(c)
      BY <1>1, <2>2, CallsStep
    <2>3. QED
      BY <2>1, <2>2
  <1>4. ASSUME crew \subseteq Batchers
        PROVE  OwnerInv' /\ PhaseInv' /\ ResultInv'
    <2>1. OwnerInv /\ PhaseInv /\ ResultInv /\ c \in Batchers
      BY <1>4 DEF IInv
    <2>2. Starts(c) => SendTypedMessagesTx(c)
      BY <2>1, TxProducerAssumption DEF Starts, SendTypedMessage
    <2>3. OwnerInv'
      <3>1. CASE Starts(c)
        BY <1>1, <2>1, <2>2, <3>1, OwnerStart
      <3>2. CASE ~Starts(c)
        BY <1>1, <2>1, <3>2, OwnerStep
      <3>3. QED
        BY <3>1, <3>2
    <2>4. PhaseOk(c)'
      <3>1. CASE Starts(c)
        BY <1>1, <2>1, <2>2, <3>1, PhaseStart
      <3>2. CASE ~Starts(c)
        BY <1>1, <2>1, <3>2, PhaseStep
      <3>3. QED
        BY <3>1, <3>2
    <2>5. \A d \in Callers : d # c => PhaseOk(d)'
      BY <1>1, <2>1, PhaseOthers
    <2>6. \A d \in Callers : PhaseOk(d)'
      BY <2>4, <2>5
    <2>7. PhaseInv'
      BY <2>6 DEF PhaseInv, PhaseOk, Phase, Mine
    <2>8. ResultInv'
      BY <1>1, <2>1, ResultStep
    <2>9. QED
      BY <2>3, <2>7, <2>8
  <1>5. ASSUME Alone
        PROVE  CountInv'
    <2>1. CountOk(c) /\ crew = {c}
      BY <1>5, CountShape DEF IInv, Alone
    <2>2. CountOk(c)'
      BY <1>1, <1>5, <2>1, CountStep
    <2>3. \A d \in crew' : d = c
      BY <2>1
    <2>4. QED
      BY <2>2, <2>3 DEF CountInv, CountOk
  <1>6. Alone' <=> Alone
    BY DEF Alone
  <1>7. QED
    BY <1>2, <1>3, <1>4, <1>5, <1>6 DEF IInv

LEMMA BrokerInv ==
  ASSUME IInv, BrokerNext, crew' = crew
  PROVE  IInv'
  <1>1. Types /\ CallsInv /\ BoundInv
    BY DEF IInv
  <1>2. Types' /\ CallsInv' /\ BoundInv'
    BY <1>1, TypesBroker, CallsBroker, BoundBroker
  <1>3. ASSUME crew \subseteq Batchers
        PROVE  OwnerInv' /\ PhaseInv' /\ ResultInv'
    BY <1>1, <1>3, OwnerBroker, PhaseBroker, ResultBroker DEF IInv
  <1>4. ASSUME Alone
        PROVE  CountInv'
    <2>1. CountInv
      BY <1>4 DEF IInv
    <2>2. counted' = counted /\ counted \in Nat
      BY <1>1 DEF Types, BrokerNext, BrokerAcks, BrokerFails, CoordinatorTimesOut, client
    <2>3. Committed \subseteq Committed' /\ Committed' \subseteq Messages
      BY <1>1 DEF Types, Committed, BrokerNext, BrokerAcks, BrokerFails, CoordinatorTimesOut
    <2>4. counted' <= Cardinality(Committed')
      BY <2>1, <2>2, <2>3, CountKept DEF CountInv
    <2>5. \A c \in crew : CountOk(c)'
      BY <1>1, <2>1, CountShape, CountBroker
    <2>6. QED
      BY <2>4, <2>5 DEF CountInv, CountOk
  <1>5. Alone' <=> Alone
    BY DEF Alone
  <1>6. QED
    BY <1>2, <1>3, <1>4, <1>5 DEF IInv

LEMMA NextInv == IInv /\ [Next]_<<vars, crew>> => IInv'
  <1> SUFFICES ASSUME IInv, [Next]_<<vars, crew>> PROVE IInv'
    OBVIOUS
  <1>1. CASE Next
    BY <1>1, CallerInv, BrokerInv DEF Next
  <1>2. CASE UNCHANGED <<vars, crew>>
    <2>1. UNCHANGED <<crew, pc, calls, size, bad, result, pendingTx, counted, status, txLock, msg,
                      offsets, joined, coord>>
      BY <1>2 DEF vars, client, broker
    <2>2. Types' /\ CallsInv' /\ BoundInv'
      BY <2>1 DEF IInv, Types, CallsInv, CurrentCall, BoundInv, Done
    <2>3. OwnerInv => OwnerInv'
      BY <2>1 DEF OwnerInv, Busy, Acked, InFlight
    <2>4. PhaseInv => PhaseInv'
      BY <2>1 DEF PhaseInv, Busy
    <2>5. ResultInv => ResultInv'
      BY <2>1 DEF ResultInv, ResultOk, Batch
    <2>6. CountInv => CountInv'
      BY <2>1 DEF CountInv, Committed, Told, CurrentCall
    <2>7. Alone' <=> Alone
      BY <2>1 DEF Alone
    <2>8. QED
      BY <2>1, <2>2, <2>3, <2>4, <2>5, <2>6, <2>7 DEF IInv
  <1>3. QED
    BY <1>1, <1>2

LEMMA InvImplies == IInv => BatchesAreTransactions
  <1> SUFFICES ASSUME IInv PROVE BatchesAreTransactions
    OBVIOUS
  <1>1. TypeOK
    <2>1. /\ counted \in Nat /\ pendingTx \in Nat /\ Cardinality(Messages) \in Nat
          /\ counted + pendingTx <= Cardinality(Messages)
      <3>1. counted \in Nat /\ pendingTx \in Nat /\ counted + pendingTx <= Cardinality(Done)
        BY DEF IInv, Types, BoundInv
      <3>2. Done \subseteq Messages
        BY DEF Done
      <3>3. QED
        BY <3>1, <3>2, CountKept, MessageCounts
    <2>2. counted \in 0 .. Cardinality(Messages) /\ pendingTx \in 0 .. Cardinality(Messages)
      BY <2>1
    <2>3. QED
      BY <2>2 DEF IInv, Types, TypeOK, Pcs, Results, Fates, Coords, Keys
  <1>2. crew \subseteq Batchers =>
          BatchIsAtomic /\ OneBatchPerTransaction /\ OkMeansCommitted
    BY ResultImplies DEF IInv, OwnerInv, OneBatchPerTransaction
  <1>3. CountedAlone
    BY DEF IInv, Alone, CountInv, Committed, CountedAlone, CountedIsDelivered
  <1>4. QED
    BY <1>1, <1>2, <1>3 DEF BatchesAreTransactions

\* A batch of SendTypedMessagesTx is visible as a whole or not at all, shares
\* its transaction with no other batch, and is committed when the call returned
\* nil; a goroutine that has the producer to itself counts nothing that was not
\* committed: for any number of goroutines, calls and messages, and whatever
\* brokers and coordinator answer or lose.
THEOREM BatchesAtomic == Spec => []BatchesAreTransactions
  <1>1. Init => IInv
    BY InitInv
  <1>2. IInv /\ [Next]_<<vars, crew>> => IInv'
    BY NextInv
  <1>3. IInv => BatchesAreTransactions
    BY InvImplies
  <1>4. QED
    BY <1>1, <1>2, <1>3, PTL DEF Spec

-----------------------------------------------------------------------------
(* The asynchronous producer, with an owner that waits and one that does   *)
(* not.                                                                    *)

AsyncInv(o) == Async(o)!TypeOK /\ Async(o)!QueueInv /\ Async(o)!OrderlyInv

\* Sets are counted as everywhere.
LEMMA AsyncCount ==
  ASSUME NEW o \in Owners, NEW S
  PROVE  Async(o)!Cardinality(S) = Cardinality(S)
  BY Zenon DEF Async!Cardinality, Cardinality

LEMMA AsyncShape ==
  ASSUME NEW o \in Owners
  PROVE  /\ MaxBatch \in Nat
         /\ Async(o)!Messages = Senders \X (1 .. MaxBatch)
         /\ \A m \in Async(o)!Messages : m[1] \in Senders /\ m[2] \in 1 .. MaxBatch /\ m = <<m[1], m[2]>>
         /\ \A s \in Senders, i \in 1 .. MaxBatch : <<s, i>> \in Async(o)!Messages
  BY TxProducerAssumption DEF Async!Messages

\* What has been sent of a call is a prefix of it.
LEMMA SentCounts ==
  ASSUME NEW o \in Owners, Async(o)!TypeOK, NEW s \in Senders, NEW k \in 0 .. asyncSize[s],
         \A i \in 1 .. MaxBatch : asyncMsg[<<s, i>>] # "new" <=> i <= k
  PROVE  Async(o)!Sent(s) = k
  <1>1. MaxBatch \in Nat /\ asyncSize[s] \in 0 .. MaxBatch /\ k \in Nat /\ asyncSize[s] \in Nat
    BY AsyncShape DEF Async!TypeOK
  <1>2. {i \in 1 .. asyncSize[s] : asyncMsg[<<s, i>>] # "new"} = 1 .. k
    BY <1>1
  <1>3. Cardinality(1 .. k) = k
    BY <1>1, FS_Interval
  <1>4. QED
    BY <1>2, <1>3, AsyncCount DEF Async!Sent

LEMMA AsyncInit ==
  ASSUME NEW o \in Owners, Async("waits")!Init
  PROVE  AsyncInv(o)
  <1>1. /\ asyncPc = [s \in Senders |-> "idle"] /\ asyncSize = [s \in Senders |-> 0]
        /\ asyncBad = [s \in Senders |-> 0] /\ asyncMsg = [m \in Senders \X (1 .. MaxBatch) |-> "new"]
        /\ loop = "running" /\ watched = {"errors", "successes"} /\ cancelled = FALSE /\ closer = "no"
        /\ handled = {} /\ closeErrs = {}
    BY DEF Async!Init, Async!Messages
  <1>2. Async(o)!TypeOK
    <2>1. 0 \in 0 .. MaxBatch /\ Async(o)!Messages = Senders \X (1 .. MaxBatch)
      BY AsyncShape
    <2>2. QED
      BY <1>1, <2>1 DEF Async!TypeOK
  <1>3. Async(o)!QueueInv
    <2>1. \A s \in Senders : 0 \in 0 .. asyncSize[s]
                              /\ \A i \in 1 .. MaxBatch : asyncMsg[<<s, i>>] # "new" <=> i <= 0
      BY <1>1, AsyncShape
    <2>2. QED
      BY <1>1, <2>1 DEF Async!QueueInv, Async!InOrder
  <1>4. Async(o)!OrderlyInv
    BY <1>1, AsyncShape DEF Async!OrderlyInv, Async!Refused
  <1>5. QED
    BY <1>2, <1>3, <1>4 DEF AsyncInv

\* A call starts with nothing sent.
LEMMA SendStep ==
  ASSUME NEW o \in Owners, AsyncInv(o), NEW s \in Senders, Async(o)!Send(s)
  PROVE  AsyncInv(o)'
  <1>1. PICK n \in 1 .. MaxBatch, b \in 0 .. MaxBatch :
          /\ b <= n /\ asyncSize' = [asyncSize EXCEPT ![s] = n] /\ asyncBad' = [asyncBad EXCEPT ![s] = b]
    BY DEF Async!Send
  <1>2. /\ asyncPc[s] = "idle" /\ (o = "waits" => closer = "no")
        /\ asyncPc' = [asyncPc EXCEPT ![s] = "sending"]
        /\ UNCHANGED <<asyncMsg, loop, watched, cancelled, closer, handled, closeErrs>>
    BY DEF Async!Send
  <1>3. Async(o)!TypeOK'
    BY <1>1, <1>2, AsyncShape DEF AsyncInv, Async!TypeOK
  <1>4. \A i \in 1 .. MaxBatch : asyncMsg[<<s, i>>] = "new"
    <2>1. asyncSize[s] = 0
      BY <1>2 DEF AsyncInv, Async!QueueInv, Async!InOrder
    <2>2. PICK k \in 0 .. asyncSize[s] : \A i \in 1 .. MaxBatch : asyncMsg[<<s, i>>] # "new" <=> i <= k
      BY DEF AsyncInv, Async!QueueInv, Async!InOrder
    <2>3. \A i \in 1 .. MaxBatch : ~(i <= k)
      BY <2>1, <2>2, AsyncShape
    <2>4. QED
      BY <2>2, <2>3
  <1>5. /\ asyncPc'[s] = "sending" /\ asyncSize'[s] = n /\ asyncBad'[s] = b
        /\ \A t \in Senders \ {s} : /\ asyncPc'[t] = asyncPc[t] /\ asyncSize'[t] = asyncSize[t]
                                    /\ asyncBad'[t] = asyncBad[t]
    BY <1>1, <1>2 DEF AsyncInv, Async!TypeOK
  <1>6. Async(o)!QueueInv'
    <2>1. \A m \in handled : m[1] # s \/ asyncMsg[m] = "done"
      <3> SUFFICES ASSUME NEW m \in handled, m[1] = s PROVE asyncMsg[m] = "done"
        OBVIOUS
      <3>1. asyncMsg[m] = "done" \/ m[2] = asyncBad[s]
        BY DEF AsyncInv, Async!QueueInv
      <3>2. m[2] \in 1 .. MaxBatch /\ asyncBad[s] \in 0 .. MaxBatch
        BY AsyncShape DEF AsyncInv, Async!TypeOK
      <3>3. asyncBad[s] <= 0
        BY <1>2 DEF AsyncInv, Async!QueueInv, Async!InOrder
      <3>4. QED
        BY <3>1, <3>2, <3>3, AsyncShape
    <2>2. \A m \in handled : asyncMsg'[m] = "done" \/ m[2] = asyncBad'[m[1]]
      <3> SUFFICES ASSUME NEW m \in handled, m[1] # s
                   PROVE  asyncMsg'[m] = "done" \/ m[2] = asyncBad'[m[1]]
        BY <1>2, <2>1
      <3>1. m[1] \in Senders
        BY AsyncShape DEF AsyncInv, Async!TypeOK
      <3>2. QED
        BY <1>2, <1>5, <3>1 DEF AsyncInv, Async!QueueInv
    <2>3. \A i \in 1 .. MaxBatch : asyncMsg[<<s, i>>] # "new" <=> i <= 0
      BY <1>4, AsyncShape
    <2>4. 0 \in 0 .. n /\ (b > 0 => b \in 1 .. MaxBatch)
      BY AsyncShape
    <2>5. ASSUME NEW t \in Senders PROVE Async(o)!InOrder(t)'
      <3>1. CASE t = s
        BY <1>1, <1>2, <1>4, <1>5, <2>3, <2>4, <3>1 DEF Async!InOrder
      <3>2. CASE t # s
        BY <1>2, <1>5, <3>2 DEF AsyncInv, Async!QueueInv, Async!InOrder
      <3>3. QED
        BY <3>1, <3>2
    <2>6. QED
      BY <1>2, <2>2, <2>5 DEF AsyncInv, Async!QueueInv
  <1>7. Async(o)!OrderlyInv'
    BY <1>2, <1>5 DEF AsyncInv, Async!OrderlyInv, Async!Refused, Async!InFlight, Async!Messages
  <1>8. QED
    BY <1>3, <1>6, <1>7 DEF AsyncInv

\* A call ends: with a value that cannot be serialized, which has not been sent,
\* with the last message, or with the panic of a send on the closed channel.
LEMMA SendEnds ==
  ASSUME NEW o \in Owners, AsyncInv(o), NEW s \in Senders,
         Async(o)!SerializeFails(s) \/ Async(o)!SendPanics(s) \/ Async(o)!SendReturns(s)
  PROVE  AsyncInv(o)'
  <1>1. PICK k \in 0 .. asyncSize[s] : \A i \in 1 .. MaxBatch : asyncMsg[<<s, i>>] # "new" <=> i <= k
    BY DEF AsyncInv, Async!QueueInv, Async!InOrder
  <1>2. Async(o)!Sent(s) = k
    BY <1>1, SentCounts DEF AsyncInv
  <1>3. /\ asyncPc[s] = "sending"
        /\ \E p \in {"error", "panic", "ok"} :
             asyncPc' = [asyncPc EXCEPT ![s] = p] /\ (p = "panic" => closer \in {"closed", "returned"})
        /\ \/ handled' = handled
           \/ asyncBad[s] = k + 1 /\ handled' = handled \cup {<<s, asyncBad[s]>>}
        /\ UNCHANGED <<asyncSize, asyncBad, asyncMsg, loop, watched, cancelled, closer, closeErrs>>
    BY <1>2 DEF Async!SerializeFails, Async!SendPanics, Async!SendReturns
  <1>4. asyncBad[s] = k + 1 => /\ <<s, asyncBad[s]>> \in Async(o)!Messages
                               /\ asyncMsg[<<s, asyncBad[s]>>] = "new"
    BY <1>1, AsyncShape DEF AsyncInv, Async!TypeOK
  <1>5. Async(o)!TypeOK'
    BY <1>3, <1>4 DEF AsyncInv, Async!TypeOK, Async!QueueInv
  <1>6. \A t \in Senders : asyncPc'[t] = asyncPc[t] \/ (t = s /\ asyncPc'[t] \in {"error", "panic", "ok"})
    BY <1>3 DEF AsyncInv, Async!TypeOK
  <1>7. Async(o)!QueueInv'
    BY <1>3, <1>6 DEF AsyncInv, Async!QueueInv, Async!InOrder
  <1>8. Async(o)!OrderlyInv'
    BY <1>3, <1>6 DEF AsyncInv, Async!OrderlyInv, Async!Refused, Async!InFlight, Async!Messages
  <1>9. QED
    BY <1>5, <1>7, <1>8 DEF AsyncInv

\* The next message of a call is taken by sarama, or refused by it.
LEMMA QueueStep ==
  ASSUME NEW o \in Owners, AsyncInv(o), NEW s \in Senders, Async(o)!Queue(s)
  PROVE  AsyncInv(o)'
  <1>1. PICK k \in 0 .. asyncSize[s] : \A i \in 1 .. MaxBatch : asyncMsg[<<s, i>>] # "new" <=> i <= k
    BY DEF AsyncInv, Async!QueueInv, Async!InOrder
  <1>2. Async(o)!Sent(s) = k
    BY <1>1, SentCounts DEF AsyncInv
  <1> DEFINE q == <<s, k + 1>>
  <1>3. /\ asyncPc[s] = "sending" /\ k < asyncSize[s] /\ asyncBad[s] # k + 1
        /\ \E v \in {"refused", "done", "inflight"} :
             asyncMsg' = [asyncMsg EXCEPT ![q] = v] /\ (v # "inflight" => closer = "waiting")
        /\ UNCHANGED <<asyncPc, asyncSize, asyncBad, loop, watched, cancelled, closer, handled, closeErrs>>
    BY <1>2 DEF Async!Queue
  <1>4. /\ k + 1 \in 1 .. MaxBatch /\ k \in Nat /\ q \in Async(o)!Messages /\ asyncMsg[q] = "new"
        /\ k + 1 \in 0 .. asyncSize[s]
    <2>1. MaxBatch \in Nat /\ asyncSize[s] \in 0 .. MaxBatch
      BY AsyncShape DEF AsyncInv, Async!TypeOK
    <2>2. k \in Nat /\ k + 1 \in 1 .. MaxBatch /\ k + 1 \in 0 .. asyncSize[s] /\ ~(k + 1 <= k)
      BY <1>3, <2>1
    <2>3. q \in Async(o)!Messages
      BY <2>2, AsyncShape
    <2>4. QED
      BY <1>1, <2>2, <2>3
  <1>5. /\ asyncMsg'[q] \in {"refused", "done", "inflight"}
        /\ asyncMsg'[q] = "inflight" \/ closer = "waiting"
        /\ \A m \in Async(o)!Messages : m # q => asyncMsg'[m] = asyncMsg[m]
    BY <1>3, <1>4 DEF AsyncInv, Async!TypeOK
  <1>6. Async(o)!TypeOK'
    BY <1>3, <1>4, AsyncShape DEF AsyncInv, Async!TypeOK, Async!Messages
  <1>7. Async(o)!QueueInv'
    <2>1. \A m \in closeErrs \cup handled : m \in Async(o)!Messages /\ (asyncMsg[m] = "done" => m # q)
      BY <1>4 DEF AsyncInv, Async!TypeOK
    <2>2. ASSUME NEW t \in Senders, t # s PROVE Async(o)!InOrder(t)'
      <3>1. \A i \in 1 .. MaxBatch : asyncMsg'[<<t, i>>] = asyncMsg[<<t, i>>]
        BY <1>5, <2>2, AsyncShape
      <3>2. asyncBad[t] > 0 => asyncBad[t] \in 1 .. MaxBatch
        BY DEF AsyncInv, Async!TypeOK
      <3>3. QED
        BY <1>3, <3>1, <3>2 DEF AsyncInv, Async!QueueInv, Async!InOrder
    <2>3. Async(o)!InOrder(s)'
      <3>1. \A i \in 1 .. MaxBatch : i # k + 1 => asyncMsg'[<<s, i>>] = asyncMsg[<<s, i>>]
        BY <1>5, AsyncShape
      <3>2. \A i \in 1 .. MaxBatch : asyncMsg'[<<s, i>>] # "new" <=> i <= k + 1
        <4> SUFFICES ASSUME NEW i \in 1 .. MaxBatch
                     PROVE  asyncMsg'[<<s, i>>] # "new" <=> i <= k + 1
          OBVIOUS
        <4>1. CASE i = k + 1
          BY <1>4, <1>5, <4>1
        <4>2. CASE i # k + 1
          BY <1>1, <1>4, <3>1, <4>2
        <4>3. QED
          BY <4>1, <4>2
      <3>3. asyncBad[s] > 0 => asyncBad[s] \in 1 .. MaxBatch
        BY DEF AsyncInv, Async!TypeOK
      <3>4. asyncBad[s] > 0 => asyncMsg'[<<s, asyncBad[s]>>] = "new"
        BY <1>3, <3>1, <3>3 DEF AsyncInv, Async!QueueInv, Async!InOrder
      <3>5. QED
        BY <1>3, <1>4, <3>2, <3>4 DEF AsyncInv, Async!QueueInv, Async!InOrder
    <2>4. QED
      BY <1>3, <1>5, <2>1, <2>2, <2>3 DEF AsyncInv, Async!QueueInv
  <1>8. Async(o)!OrderlyInv'
    <2> SUFFICES ASSUME o = "waits" PROVE Async(o)!OrderlyInv'
      BY DEF Async!OrderlyInv
    <2>1. closer = "no"
      BY <1>3 DEF AsyncInv, Async!OrderlyInv
    <2>2. \A m \in Async(o)!Messages : asyncMsg'[m] = "refused" => asyncMsg[m] = "refused"
      BY <1>5, <2>1
    <2>3. Async(o)!Refused' = {}
      BY <2>2 DEF AsyncInv, Async!OrderlyInv, Async!Refused, Async!Messages
    <2>4. QED
      BY <1>3, <2>1, <2>3 DEF AsyncInv, Async!OrderlyInv
  <1>9. QED
    BY <1>6, <1>7, <1>8 DEF AsyncInv

\* What sarama still holds has not been reported to anybody.
LEMMA Unreported ==
  ASSUME NEW o \in Owners, AsyncInv(o), NEW m \in Async(o)!Messages,
         asyncMsg[m] \notin {"new", "done"}
  PROVE  m \notin handled /\ m \notin closeErrs
  <1>1. asyncBad[m[1]] = m[2] => asyncMsg[m] = "new"
    BY AsyncShape DEF AsyncInv, Async!QueueInv, Async!InOrder
  <1>2. QED
    BY <1>1 DEF AsyncInv, Async!QueueInv

\* An accepted message is answered, or its answer is read by the loop or by Close:
\* a failure goes to the handler or to the error of Close.
LEMMA AnswerStep ==
  ASSUME NEW o \in Owners, AsyncInv(o), NEW m \in Async(o)!Messages,
         Async(o)!Answer(m) \/ Async(o)!LoopTakesError(m) \/ Async(o)!LoopTakesSuccess(m)
         \/ Async(o)!CloseDrains(m)
  PROVE  AsyncInv(o)'
  <1>1. /\ asyncMsg[m] \in {"inflight", "delivered", "failed", "refused"}
        /\ \E v \in {"delivered", "failed", "done"} : asyncMsg' = [asyncMsg EXCEPT ![m] = v]
        /\ \/ handled' = handled /\ closeErrs' = closeErrs
           \/ handled' = handled \cup {m} /\ closeErrs' = closeErrs /\ asyncMsg' = [asyncMsg EXCEPT ![m] = "done"]
           \/ handled' = handled /\ closeErrs' = closeErrs \cup {m} /\ asyncMsg' = [asyncMsg EXCEPT ![m] = "done"]
        /\ UNCHANGED <<asyncPc, asyncSize, asyncBad, loop, watched, cancelled, closer>>
    BY DEF Async!Answer, Async!LoopTakesError, Async!LoopTakesSuccess, Async!CloseDrains, Async!Finish
  <1>2. /\ asyncMsg'[m] \in {"delivered", "failed", "done"}
        /\ handled' # handled \/ closeErrs' # closeErrs => asyncMsg'[m] = "done"
        /\ \A n \in Async(o)!Messages : n # m => asyncMsg'[n] = asyncMsg[n]
    BY <1>1 DEF AsyncInv, Async!TypeOK
  <1>3. m \notin handled /\ m \notin closeErrs
    BY <1>1, Unreported
  <1>5. Async(o)!TypeOK'
    BY <1>1, <1>3 DEF AsyncInv, Async!TypeOK, Async!Messages
  <1>6. Async(o)!QueueInv'
    <2>1. \A n \in Async(o)!Messages : asyncMsg'[n] = "new" <=> asyncMsg[n] = "new"
      BY <1>1, <1>2
    <2>2. \A n \in Async(o)!Messages : asyncMsg[n] = "done" => asyncMsg'[n] = "done"
      BY <1>1, <1>2
    <2>3. ASSUME NEW s \in Senders PROVE Async(o)!InOrder(s)'
      <3>1. \A i \in 1 .. MaxBatch : asyncMsg'[<<s, i>>] = "new" <=> asyncMsg[<<s, i>>] = "new"
        BY <2>1, AsyncShape
      <3>2. asyncBad[s] > 0 => asyncBad[s] \in 1 .. MaxBatch
        BY DEF AsyncInv, Async!TypeOK
      <3>3. QED
        BY <1>1, <3>1, <3>2 DEF AsyncInv, Async!QueueInv, Async!InOrder
    <2>4. \A n \in closeErrs' : asyncMsg'[n] = "done"
      BY <1>1, <1>2, <2>2 DEF AsyncInv, Async!TypeOK, Async!QueueInv
    <2>5. \A n \in handled' : asyncMsg'[n] = "done" \/ n[2] = asyncBad'[n[1]]
      BY <1>1, <1>2, <2>2 DEF AsyncInv, Async!TypeOK, Async!QueueInv
    <2>6. QED
      BY <2>3, <2>4, <2>5 DEF Async!QueueInv
  <1>7. Async(o)!OrderlyInv'
    <2>1. \A n \in Async(o)!Messages :
            /\ asyncMsg'[n] = "refused" => asyncMsg[n] = "refused"
            /\ asyncMsg'[n] \in {"inflight", "delivered", "failed"} =>
                 asyncMsg[n] \in {"inflight", "delivered", "failed", "refused"}
      BY <1>1, <1>2
    <2>2. QED
      BY <1>1, <2>1 DEF AsyncInv, Async!OrderlyInv, Async!Refused, Async!InFlight, Async!Messages
  <1>8. QED
    BY <1>5, <1>6, <1>7 DEF AsyncInv

\* The loop notices a closed channel or the end of its context; the owner closes
\* and the shutdown goes on.
LEMMA ControlStep ==
  ASSUME NEW o \in Owners, AsyncInv(o),
         \/ \E ch \in {"errors", "successes"} : Async(o)!LoopSeesClosed(ch)
         \/ Async(o)!LoopSeesDone \/ Async(o)!CtxDone \/ Async(o)!Close
         \/ Async(o)!ShutdownDispatched \/ Async(o)!ShutdownCloses \/ Async(o)!CloseReturns
  PROVE  AsyncInv(o)'
  <1>1. UNCHANGED <<asyncPc, asyncSize, asyncBad, asyncMsg, handled, closeErrs>>
    BY DEF Async!LoopSeesClosed, Async!LoopSeesDone, Async!CtxDone, Async!Close,
       Async!ShutdownDispatched, Async!ShutdownCloses, Async!CloseReturns
  <1>2. /\ loop' \in {"running", "ended"} /\ watched' \subseteq {"errors", "successes"}
        /\ cancelled' \in BOOLEAN
        /\ closer' \in {"no", "shutdown", "waiting", "closed", "returned", "crashed"}
    BY DEF AsyncInv, Async!TypeOK, Async!LoopSeesClosed, Async!LoopSeesDone, Async!CtxDone, Async!Close,
       Async!ShutdownDispatched, Async!ShutdownCloses, Async!CloseReturns
  <1>3. Async(o)!TypeOK'
    BY <1>1, <1>2 DEF AsyncInv, Async!TypeOK, Async!Messages
  <1>4. Async(o)!QueueInv'
    BY <1>1 DEF AsyncInv, Async!QueueInv, Async!InOrder
  <1>5. Async(o)!OrderlyInv'
    <2>1. UNCHANGED <<Async(o)!Refused, Async(o)!InFlight>>
      BY <1>1 DEF Async!Refused, Async!InFlight, Async!Messages
    <2>2. \/ closer' = closer
          \/ /\ closer = "no" /\ closer' = "shutdown"
             /\ o = "waits" => \A s \in Senders : asyncPc[s] \in {"ok", "error"}
          \/ closer = "shutdown" /\ closer' = "waiting"
          \/ /\ closer = "waiting" /\ Async(o)!InFlight = {}
             /\ closer' = IF Async(o)!Refused = {} THEN "closed" ELSE "crashed"
          \/ closer = "closed" /\ closer' = "returned"
      BY DEF Async!LoopSeesClosed, Async!LoopSeesDone, Async!CtxDone, Async!Close,
         Async!ShutdownDispatched, Async!ShutdownCloses, Async!CloseReturns
    <2>3. QED
      BY <1>1, <2>1, <2>2 DEF AsyncInv, Async!OrderlyInv
  <1>6. QED
    BY <1>3, <1>4, <1>5 DEF AsyncInv

LEMMA AsyncNextInv ==
  ASSUME NEW o \in Owners, AsyncInv(o), Async(o)!Next
  PROVE  AsyncInv(o)'
  BY SendStep, SendEnds, QueueStep, AnswerStep, ControlStep
  DEF Async!Next, Async!SenderStep, Async!LoopStep, Async!CloseStep

\* A failure that is done has just been reported, to the handler or by Close.
LEMMA FailureStep ==
  ASSUME NEW o \in Owners, AsyncInv(o), Async(o)!Next
  PROVE  Async("waits")!ReportsFailures
  <1> SUFFICES ASSUME NEW m \in Async(o)!Messages,
                      asyncMsg[m] \in {"failed", "refused"}, asyncMsg'[m] = "done"
               PROVE  m \in (handled' \cup closeErrs') \ (handled \cup closeErrs)
    BY DEF Async!ReportsFailures, Async!Messages
  <1>1. m \notin handled /\ m \notin closeErrs
    BY Unreported
  <1>2. asyncMsg' # asyncMsg
    OBVIOUS
  <1>3. \A s \in Senders : ~Async(o)!Queue(s)
    <2> SUFFICES ASSUME NEW s \in Senders, Async(o)!Queue(s) PROVE FALSE
      OBVIOUS
    <2>1. PICK k \in 0 .. asyncSize[s] :
            \A i \in 1 .. MaxBatch : asyncMsg[<<s, i>>] # "new" <=> i <= k
      BY DEF AsyncInv, Async!QueueInv, Async!InOrder
    <2>2. /\ k < asyncSize[s]
          /\ \E v : asyncMsg' = [asyncMsg EXCEPT ![<<s, k + 1>>] = v]
      BY <2>1, SentCounts DEF AsyncInv, Async!Queue
    <2>3. MaxBatch \in Nat /\ asyncSize[s] \in 0 .. MaxBatch
      BY AsyncShape DEF AsyncInv, Async!TypeOK
    <2>4. k + 1 \in 1 .. MaxBatch /\ ~(k + 1 <= k)
      BY <2>2, <2>3
    <2>5. asyncMsg[<<s, k + 1>>] = "new"
      BY <2>1, <2>4
    <2>6. m # <<s, k + 1>>
      BY <2>5
    <2>7. QED
      BY <2>2, <2>6 DEF AsyncInv, Async!TypeOK
  <1>4. \E n \in Async(o)!Messages :
          Async(o)!Answer(n) \/ Async(o)!LoopTakesError(n) \/ Async(o)!LoopTakesSuccess(n)
          \/ Async(o)!CloseDrains(n)
    BY <1>2, <1>3 DEF Async!Next, Async!SenderStep, Async!LoopStep, Async!CloseStep, Async!Send,
       Async!SerializeFails, Async!SendPanics, Async!SendReturns, Async!LoopSeesClosed,
       Async!LoopSeesDone, Async!CtxDone, Async!Close, Async!ShutdownDispatched,
       Async!ShutdownCloses, Async!CloseReturns
  <1>5. PICK n \in Async(o)!Messages :
          Async(o)!Answer(n) \/ Async(o)!LoopTakesError(n) \/ Async(o)!LoopTakesSuccess(n)
          \/ Async(o)!CloseDrains(n)
    BY <1>4
  <1>6. \E v : asyncMsg' = [asyncMsg EXCEPT ![n] = v]
    BY <1>5 DEF Async!Answer, Async!LoopTakesError, Async!LoopTakesSuccess, Async!CloseDrains, Async!Finish
  <1>7. n = m
    BY <1>6 DEF AsyncInv, Async!TypeOK
  <1>8. m \in handled' \/ m \in closeErrs'
    BY <1>5, <1>7 DEF Async!Answer, Async!LoopTakesError, Async!LoopTakesSuccess, Async!CloseDrains
  <1>9. QED
    BY <1>1, <1>8

LEMMA AsyncStutters ==
  ASSUME NEW o \in Owners, AsyncInv(o), UNCHANGED asyncVars
  PROVE  AsyncInv(o)'
  <1>1. Async(o)!TypeOK'
    BY DEF asyncVars, AsyncInv, Async!TypeOK, Async!Messages
  <1>2. Async(o)!QueueInv'
    BY DEF asyncVars, AsyncInv, Async!QueueInv, Async!InOrder
  <1>3. Async(o)!OrderlyInv'
    BY DEF asyncVars, AsyncInv, Async!OrderlyInv, Async!Refused, Async!InFlight, Async!Messages
  <1>4. QED
    BY <1>1, <1>2, <1>3 DEF AsyncInv

LEMMA AsyncImplies ==
  ASSUME NEW o \in Owners, AsyncInv(o)
  PROVE  Async(o)!TypeOK /\ (o = "waits" => Async(o)!CleanShutdown)
  <1>1. Async(o)!TypeOK
    BY DEF AsyncInv
  <1>2. ASSUME o = "waits", closer = "returned", NEW m \in Async(o)!Messages
        PROVE  asyncMsg[m] \in {"new", "done"}
    BY <1>2 DEF AsyncInv, Async!TypeOK, Async!OrderlyInv, Async!Refused, Async!InFlight
  <1>3. o = "waits" => (\A s \in Senders : asyncPc[s] # "panic") /\ closer # "crashed"
    BY DEF AsyncInv, Async!OrderlyInv
  <1>4. QED
    BY <1>1, <1>2, <1>3 DEF Async!CleanShutdown

AsyncPart == \A o \in Owners : part = o => AsyncInv(o)

LEMMA AsyncPartInit == PartInit => AsyncPart
  BY AsyncInit DEF PartInit, AsyncPart

LEMMA AsyncPartNext == AsyncPart /\ [PartNext]_mcvars => AsyncPart'
  <1> SUFFICES ASSUME AsyncPart, [PartNext]_mcvars, NEW o \in Owners, part' = o
               PROVE  AsyncInv(o)'
    BY DEF AsyncPart
  <1>1. part = o /\ AsyncInv(o)
    BY DEF AsyncPart, PartNext, mcvars
  <1>2. Async(o)!Next \/ UNCHANGED asyncVars
    BY <1>1 DEF PartNext, AsyncNext, mcvars, Owners
  <1>3. QED
    BY <1>1, <1>2, AsyncNextInv, AsyncStutters

\* With an owner that calls Close after the senders no send meets the closed Input,
\* and when Close has returned every message that sarama took has been answered.
THEOREM AsyncClosesCleanly == PartSpec => []ClosesCleanly
  <1>1. AsyncPart => ClosesCleanly
    BY AsyncImplies DEF AsyncPart, ClosesCleanly
  <1>2. QED
    BY <1>1, AsyncPartInit, AsyncPartNext, PTL DEF PartSpec

\* Every failure is handed to the error handler or to the caller of Close, by the
\* step that takes it from sarama, and never to both: with either owner.
THEOREM FailuresAreReported == PartSpec => FailedIsReported
  <1>1. AsyncPart /\ [PartNext]_mcvars => [Async("waits")!ReportsFailures]_asyncVars
    <2> SUFFICES ASSUME AsyncPart, [PartNext]_mcvars, ~UNCHANGED asyncVars
                 PROVE  Async("waits")!ReportsFailures
      OBVIOUS
    <2>1. PICK o \in Owners : part = o /\ Async(o)!Next
      BY DEF PartNext, AsyncNext, mcvars
    <2>2. QED
      BY <2>1, FailureStep DEF AsyncPart
  <1>2. QED
    BY <1>1, AsyncPartInit, AsyncPartNext, PTL DEF PartSpec, FailedIsReported

-----------------------------------------------------------------------------
(* The synchronous producer.                                               *)

\* A set of naturals has a least element: what stands for an induction over the
\* places of a batch.
LEMMA LeastElement ==
  ASSUME NEW S \in SUBSET Nat, S # {}
  PROVE  \E m \in S : \A n \in S : m <= n
  <1> DEFINE R == OpToRel(<, Nat)
  <1>1. \E m \in S : \A n \in S : ~(<<n, m>> \in R)
    <2>1. IsWellFoundedOn(R, Nat)
      BY NatLessThanWellFounded, Zenon
    <2> HIDE DEF R
    <2>2. QED
      BY <2>1, WFMin
  <1>2. \A n, m \in Nat : n < m => <<n, m>> \in R
    BY DEF OpToRel
  <1> HIDE DEF R
  <1>3. PICK m \in S : \A n \in S : ~(<<n, m>> \in R)
    BY <1>1
  <1>4. \A n \in S : ~(n < m)
    BY <1>2, <1>3
  <1>5. \A n \in S : m <= n
    BY <1>4
  <1>6. QED
    BY <1>5

\* Sets are counted as everywhere.
LEMMA SyncCount ==
  ASSUME NEW S
  PROVE  /\ Sync!IsFiniteSet(S) <=> IsFiniteSet(S)
         /\ Sync!Cardinality(S) = Cardinality(S)
  <1>1. Sync!IsFiniteSet(S) <=> IsFiniteSet(S)
    BY Zenon DEF Sync!IsFiniteSet, IsFiniteSet
  <1>2. Sync!Cardinality(S) = Cardinality(S)
    BY Zenon DEF Sync!Cardinality, Cardinality
  <1>3. QED
    BY <1>1, <1>2

\* A batch is a sequence of at most MaxBatch typed messages.
Batches == UNION {[1 .. n -> Sync!Typed] : n \in 0 .. MaxBatch}

LEMMA BatchShape ==
  /\ \A b \in Batches : /\ Len(b) \in 0 .. MaxBatch /\ Len(b) \in Nat
                        /\ b \in Seq(Sync!Typed)
                        /\ \A i \in 1 .. Len(b) : b[i] \in Sync!Typed
  /\ \A n \in 0 .. MaxBatch : \A b \in [1 .. n -> Sync!Typed] : b \in Batches /\ Len(b) = n
  /\ <<>> \in Batches /\ Len(<<>>) = 0
  /\ \A m \in Sync!Typed : <<m>> \in Batches /\ Len(<<m>>) = 1 /\ <<m>>[1] = m
  <1>1. MaxBatch \in Nat \ {0}
    BY TxProducerAssumption
  <1>2. \A n \in 0 .. MaxBatch : \A b \in [1 .. n -> Sync!Typed] : b \in Seq(Sync!Typed) /\ Len(b) = n
    BY <1>1
  <1>3. \A n \in 0 .. MaxBatch : \A b \in [1 .. n -> Sync!Typed] : b \in Batches
    BY DEF Batches
  <1>4. \A b \in Batches : /\ Len(b) \in 0 .. MaxBatch /\ Len(b) \in Nat
                           /\ b \in Seq(Sync!Typed)
                           /\ \A i \in 1 .. Len(b) : b[i] \in Sync!Typed
    <2> SUFFICES ASSUME NEW n \in 0 .. MaxBatch, NEW b \in [1 .. n -> Sync!Typed]
                 PROVE  /\ Len(b) \in 0 .. MaxBatch /\ Len(b) \in Nat
                        /\ b \in Seq(Sync!Typed)
                        /\ \A i \in 1 .. Len(b) : b[i] \in Sync!Typed
      BY DEF Batches
    <2>1. QED
      BY <1>1, <1>2
  <1>5. <<>> \in [1 .. 0 -> Sync!Typed] /\ 0 \in 0 .. MaxBatch
    BY <1>1
  <1>6. \A m \in Sync!Typed : <<m>> \in [1 .. 1 -> Sync!Typed] /\ 1 \in 0 .. MaxBatch
    BY <1>1
  <1>7. QED
    BY <1>2, <1>3, <1>4, <1>5, <1>6

\* A batch with no first bad value has none.
LEMMA NoFirstBad ==
  ASSUME NEW b \in Batches, Sync!FirstBad(b) = {}
  PROVE  \A i \in 1 .. Len(b) : b[i].good
  <1> DEFINE B == {i \in 1 .. Len(b) : ~b[i].good}
  <1> SUFFICES ASSUME B # {} PROVE FALSE
    OBVIOUS
  <1>1. Len(b) \in Nat
    BY BatchShape
  <1>2. B \in SUBSET Nat
    BY <1>1
  <1>3. PICK m \in B : \A n \in B : m <= n
    BY <1>2, LeastElement
  <1>4. \A j \in 1 .. m - 1 : j \in 1 .. Len(b) /\ ~(m <= j)
    BY <1>1, <1>3
  <1>5. m \in Sync!FirstBad(b)
    BY <1>3, <1>4 DEF Sync!FirstBad
  <1>6. QED
    BY <1>5

SyncTypes ==
  /\ syncPc \in [Senders -> {"idle", "send", "wait", "ok", "error"}]
  /\ batch \in [Senders -> Batches]
  /\ single \in [Senders -> BOOLEAN]
  /\ answer \in [Senders \X (1 .. MaxBatch) -> {"none", "sent", "ok", "failed"}]
  /\ written \subseteq (Senders \X (1 .. MaxBatch)) \X Sync!Topics
  /\ syncCounted \in [Sync!Topics -> Nat]
  /\ syncHandled \subseteq Senders \X (1 .. MaxBatch)
  /\ syncClosed \in {"no", "yes"}

SyncInv ==
  /\ SyncTypes /\ Sync!CallInv /\ Sync!LogInv /\ Sync!CountInv /\ Sync!LossIsHandled

\* A message is known by its goroutine and its place, and names a topic.
LEMMA SyncShape ==
  ASSUME SyncTypes
  PROVE  /\ MaxBatch \in Nat \ {0} /\ Sync!Positions = 1 .. MaxBatch
         /\ \A m \in Senders \X (1 .. MaxBatch) :
              m[1] \in Senders /\ m[2] \in 1 .. MaxBatch /\ m = <<m[1], m[2]>>
         /\ \A c \in Senders, i \in 1 .. MaxBatch : <<c, i>> \in Senders \X (1 .. MaxBatch)
         /\ \A w \in written : /\ w[1] \in Senders \X (1 .. MaxBatch)
                               /\ w[2] \in Sync!Topics /\ w = <<w[1], w[2]>>
         /\ \A c \in Senders : /\ Len(batch[c]) \in 0 .. MaxBatch /\ Len(batch[c]) \in Nat
                               /\ \A i \in 1 .. Len(batch[c]) :
                                    /\ i \in 1 .. MaxBatch
                                    /\ Sync!TopicOf(<<c, i>>) \in Sync!Topics
                                    /\ Sync!TopicOf(<<c, i>>) = Sync!ResolveTopic(batch[c][i].topic)
  <1>1. MaxBatch \in Nat \ {0} /\ Sync!Positions = 1 .. MaxBatch
    BY TxProducerAssumption DEF Sync!Positions
  <1>2. \A c \in Senders : Len(batch[c]) \in 0 .. MaxBatch /\ Len(batch[c]) \in Nat
                           /\ \A i \in 1 .. Len(batch[c]) : batch[c][i].topic \in OwnTopics
    BY BatchShape DEF SyncTypes, Sync!Typed
  <1>3. \A c \in Senders, i \in 1 .. MaxBatch :
          Sync!TopicOf(<<c, i>>) = Sync!ResolveTopic(batch[c][i].topic)
    BY DEF Sync!TopicOf
  <1>4. \A t \in OwnTopics : Sync!ResolveTopic(t) \in Sync!Topics
    BY DEF Sync!ResolveTopic, Sync!Topics
  <1>5. \A c \in Senders : \A i \in 1 .. Len(batch[c]) : i \in 1 .. MaxBatch
    BY <1>1, <1>2
  <1>6. QED
    BY <1>1, <1>2, <1>3, <1>4, <1>5 DEF SyncTypes

LEMMA SyncInit == Sync!Init => SyncInv
  <1> SUFFICES ASSUME Sync!Init PROVE SyncInv
    OBVIOUS
  <1>1. /\ syncPc = [c \in Senders |-> "idle"] /\ batch = [c \in Senders |-> <<>>]
        /\ single = [c \in Senders |-> FALSE]
        /\ answer = [m \in Senders \X (1 .. MaxBatch) |-> "none"]
        /\ written = {} /\ syncCounted = [t \in Sync!Topics |-> 0] /\ syncHandled = {}
        /\ syncClosed = "no"
    BY DEF Sync!Init, Sync!Positions
  <1>2. SyncTypes
    BY <1>1, BatchShape DEF SyncTypes
  <1>3. Sync!CallInv
    BY <1>1, BatchShape DEF Sync!CallInv, Sync!InPlace, Sync!Positions
  <1>4. Sync!LogInv
    BY <1>1 DEF Sync!LogInv, Sync!Positions
  <1>5. Sync!LossIsHandled
    BY <1>1 DEF Sync!LossIsHandled
  <1>6. Sync!CountInv
    <2>1. \A t \in Sync!Topics : 1 .. syncCounted[t] = {}
      BY <1>1
    <2>2. Sync!Counts = {}
      BY <2>1 DEF Sync!Counts
    <2>3. Sync!WrittenOk = {}
      BY <1>1 DEF Sync!WrittenOk
    <2>4. QED
      BY <2>2, <2>3, SyncCount, FS_EmptySet DEF Sync!CountInv
  <1>7. QED
    BY <1>2, <1>3, <1>4, <1>5, <1>6 DEF SyncInv

\* A step that neither counts nor writes nor ends a call with nil counts nothing.
LEMMA CountsKept ==
  ASSUME SyncInv, syncCounted' = syncCounted,
         \A w \in written' : syncPc'[w[1][1]] = "ok" <=> w \in written /\ syncPc[w[1][1]] = "ok",
         written \subseteq written'
  PROVE  Sync!CountInv'
  <1>1. Sync!WrittenOk' = Sync!WrittenOk
    BY DEF Sync!WrittenOk
  <1>2. Sync!Counts' = Sync!Counts
    BY DEF Sync!Counts
  <1>3. QED
    BY <1>1, <1>2, SyncCount DEF SyncInv, Sync!CountInv

\* A call starts: it is ended by its first bad value, or its values are all good.
LEMMA StartStep ==
  ASSUME SyncInv, NEW c \in Senders, Sync!SendTypedMessage(c) \/ Sync!SendTypedMessages(c)
  PROVE  SyncInv'
  <1>1. PICK b \in Batches :
          /\ batch' = [batch EXCEPT ![c] = b] /\ Sync!Convert(c, b)
          /\ \/ single' = [single EXCEPT ![c] = TRUE] /\ Len(b) = 1
             \/ single' = single
    <2>1. CASE Sync!SendTypedMessage(c)
      BY <2>1, BatchShape DEF Sync!SendTypedMessage
    <2>2. CASE Sync!SendTypedMessages(c)
      BY <2>2, BatchShape DEF Sync!SendTypedMessages
    <2>3. QED
      BY <2>1, <2>2
  <1>2. syncPc[c] = "idle" /\ UNCHANGED <<answer, written, syncCounted, syncClosed>>
    BY DEF Sync!SendTypedMessage, Sync!SendTypedMessages
  <1>3. /\ batch'[c] = b /\ batch[c] = <<>> /\ ~single[c]
        /\ single'[c] => Len(b) = 1
        /\ \A d \in Senders : d # c => batch'[d] = batch[d] /\ single'[d] = single[d]
    BY <1>1, <1>2 DEF SyncInv, SyncTypes, Sync!CallInv, Sync!InPlace
  <1>4. \/ /\ Sync!FirstBad(b) = {} /\ syncPc' = [syncPc EXCEPT ![c] = "send"]
           /\ syncHandled' = syncHandled
        \/ /\ Sync!FirstBad(b) # {} /\ syncPc' = [syncPc EXCEPT ![c] = "error"]
           /\ syncHandled' = syncHandled \cup ({c} \X Sync!FirstBad(b))
    BY <1>1 DEF Sync!Convert
  <1>5. Sync!FirstBad(b) \subseteq 1 .. Len(b) /\ 1 .. Len(b) \subseteq 1 .. MaxBatch
    BY BatchShape, SyncShape DEF SyncInv, Sync!FirstBad
  <1>6. SyncTypes'
    BY <1>1, <1>2, <1>4, <1>5 DEF SyncInv, SyncTypes
  <1>7. /\ syncPc'[c] \in {"send", "error"} /\ (syncPc'[c] = "send" => Sync!FirstBad(b) = {})
        /\ syncPc'[c] = "error" => Sync!FirstBad(b) # {} /\ {c} \X Sync!FirstBad(b) \subseteq syncHandled'
        /\ syncHandled \subseteq syncHandled'
        /\ \A d \in Senders : d # c => syncPc'[d] = syncPc[d]
    BY <1>4 DEF SyncInv, SyncTypes
  <1>8. \A i \in 1 .. MaxBatch : answer[<<c, i>>] = "none"
    BY <1>2, SyncShape DEF SyncInv, Sync!CallInv, Sync!InPlace
  <1>9. Sync!CallInv'
    <2>1. Sync!InPlace(c)'
      BY <1>2, <1>3, <1>7, <1>8, NoFirstBad, SyncShape DEF SyncInv, Sync!InPlace, Sync!Positions
    <2>2. ASSUME NEW d \in Senders, d # c PROVE Sync!InPlace(d)'
      BY <1>2, <1>3, <1>7, <2>2 DEF SyncInv, Sync!CallInv, Sync!InPlace, Sync!OfCall, Sync!Positions
    <2>3. QED
      BY <2>1, <2>2 DEF Sync!CallInv
  <1>10. Sync!LogInv'
    <2>1. \A m \in Senders \X (1 .. MaxBatch) :
            answer[m] # "none" => m[1] # c /\ Sync!TopicOf(m)' = Sync!TopicOf(m)
      BY <1>3, <1>8, SyncShape DEF SyncInv, Sync!TopicOf, Sync!ResolveTopic
    <2>2. QED
      BY <1>2, <2>1, SyncShape DEF SyncInv, Sync!LogInv, Sync!Positions
  <1>11. Sync!LossIsHandled'
    <2>1. syncPc'[c] = "error" => Sync!Heard(c)'
      <3>1. Sync!FirstBad(b) # {} => \E i \in 1 .. Len(b) : i \in Sync!FirstBad(b) /\ ~b[i].good
        BY DEF Sync!FirstBad
      <3>2. QED
        BY <1>3, <1>7, <3>1 DEF Sync!Heard
    <2>2. ASSUME NEW d \in Senders, d # c, syncPc'[d] = "error" PROVE Sync!Heard(d)'
      BY <1>3, <1>7, <2>2 DEF SyncInv, Sync!LossIsHandled, Sync!Heard, Sync!OfCall
    <2>3. QED
      BY <2>1, <2>2 DEF Sync!LossIsHandled
  <1>12. Sync!CountInv'
    BY <1>2, <1>7, SyncShape, CountsKept DEF SyncInv
  <1>13. QED
    BY <1>6, <1>9, <1>10, <1>11, <1>12 DEF SyncInv

\* sarama takes the messages of a call one by one, and all of them in the end.
LEMMA PutInStep ==
  ASSUME SyncInv, NEW c \in Senders, Sync!PutIn(c)
  PROVE  SyncInv'
  <1>1. PICK i \in 1 .. Len(batch[c]) :
          answer[<<c, i>>] = "none" /\ answer' = [answer EXCEPT ![<<c, i>>] = "sent"]
    BY DEF Sync!PutIn
  <1>2. /\ syncPc[c] = "send"
        /\ UNCHANGED <<syncPc, batch, single, written, syncCounted, syncHandled, syncClosed>>
    BY DEF Sync!PutIn
  <1>3. <<c, i>> \in Senders \X (1 .. MaxBatch) /\ i <= Len(batch[c])
    BY SyncShape DEF SyncInv
  <1>4. /\ answer'[<<c, i>>] = "sent"
        /\ \A m \in Senders \X (1 .. MaxBatch) : m # <<c, i>> => answer'[m] = answer[m]
    BY <1>1, <1>3 DEF SyncInv, SyncTypes
  <1>5. SyncTypes'
    BY <1>1, <1>2, <1>3 DEF SyncInv, SyncTypes
  <1>6. Sync!CallInv'
    <2>1. ASSUME NEW d \in Senders, d # c PROVE Sync!InPlace(d)'
      <3>1. \A j \in 1 .. MaxBatch : answer'[<<d, j>>] = answer[<<d, j>>]
        BY <1>4, <2>1, SyncShape DEF SyncInv
      <3>2. \A m \in Sync!OfCall(d) : answer'[m] = answer[m]
        BY <3>1, SyncShape DEF SyncInv, Sync!OfCall
      <3>3. QED
        BY <1>2, <3>1, <3>2, SyncShape DEF SyncInv, Sync!CallInv, Sync!InPlace, Sync!OfCall
    <2>2. Sync!InPlace(c)'
      BY <1>2, <1>3, <1>4, SyncShape DEF SyncInv, Sync!CallInv, Sync!InPlace
    <2>3. QED
      BY <2>1, <2>2 DEF Sync!CallInv
  <1>7. Sync!LogInv'
    <2>1. \A m : Sync!TopicOf(m)' = Sync!TopicOf(m)
      BY <1>2 DEF Sync!TopicOf
    <2>2. QED
      BY <1>1, <1>2, <1>3, <1>4, <2>1, SyncShape DEF SyncInv, Sync!LogInv
  <1>8. Sync!LossIsHandled'
    BY <1>2 DEF SyncInv, Sync!LossIsHandled, Sync!Heard, Sync!OfCall
  <1>9. Sync!CountInv'
    BY <1>2, CountsKept
  <1>10. QED
    BY <1>5, <1>6, <1>7, <1>8, <1>9 DEF SyncInv

\* A call changes its place and nothing else but what the handler knows.
LEMMA PlaceStep ==
  ASSUME SyncInv, NEW c \in Senders, syncPc[c] # "ok",
         NEW p \in {"wait", "ok", "error"}, syncPc' = [syncPc EXCEPT ![c] = p],
         syncPc[c] # "idle", syncPc[c] # "error",
         UNCHANGED <<batch, single, answer, written, syncClosed>>,
         syncHandled \subseteq syncHandled', syncHandled' \subseteq Senders \X (1 .. MaxBatch),
         p \in {"wait", "ok"} => \A m \in Sync!OfCall(c) : answer[m] # "none",
         p = "ok" => \A m \in Sync!OfCall(c) : answer[m] = "ok",
         p = "error" => Sync!OfCall(c) \subseteq syncHandled',
         syncCounted' \in [Sync!Topics -> Nat]
  PROVE  SyncTypes' /\ Sync!CallInv' /\ Sync!LogInv' /\ Sync!LossIsHandled'
  <1>1. syncPc'[c] = p /\ \A d \in Senders : d # c => syncPc'[d] = syncPc[d]
    BY DEF SyncInv, SyncTypes
  <1>2. SyncTypes'
    BY DEF SyncInv, SyncTypes
  <1>3. Sync!CallInv'
    <2>1. ASSUME NEW d \in Senders, d # c PROVE Sync!InPlace(d)'
      BY <1>1, <2>1 DEF SyncInv, Sync!CallInv, Sync!InPlace, Sync!OfCall
    <2>2. Sync!InPlace(c)'
      BY <1>1 DEF SyncInv, SyncTypes, Sync!CallInv, Sync!InPlace, Sync!OfCall
    <2>3. QED
      BY <2>1, <2>2 DEF Sync!CallInv
  <1>4. Sync!LogInv'
    BY DEF SyncInv, Sync!LogInv, Sync!TopicOf
  <1>5. Sync!LossIsHandled'
    <2>1. ASSUME NEW d \in Senders, d # c, syncPc'[d] = "error" PROVE Sync!Heard(d)'
      BY <1>1, <2>1 DEF SyncInv, Sync!LossIsHandled, Sync!Heard, Sync!OfCall
    <2>2. syncPc'[c] = "error" => Sync!Heard(c)'
      BY <1>1 DEF Sync!Heard, Sync!OfCall
    <2>3. QED
      BY <2>1, <2>2 DEF Sync!LossIsHandled
  <1>6. QED
    BY <1>2, <1>3, <1>4, <1>5

LEMMA AllInStep ==
  ASSUME SyncInv, NEW c \in Senders, Sync!AllIn(c)
  PROVE  SyncInv'
  <1>1. /\ syncPc[c] = "send" /\ syncPc' = [syncPc EXCEPT ![c] = "wait"]
        /\ UNCHANGED <<batch, single, answer, written, syncCounted, syncHandled, syncClosed>>
    BY DEF Sync!AllIn
  <1>2. \A i \in 1 .. Len(batch[c]) : answer[<<c, i>>] # "none"
    BY <1>1 DEF SyncInv, Sync!CallInv, Sync!InPlace, Sync!AllIn
  <1>3. \A m \in Sync!OfCall(c) : answer[m] # "none"
    BY <1>2 DEF Sync!OfCall
  <1>4. SyncTypes' /\ Sync!CallInv' /\ Sync!LogInv' /\ Sync!LossIsHandled'
    BY <1>1, <1>3, PlaceStep DEF SyncInv, SyncTypes
  <1>5. \A d \in Senders : syncPc'[d] = "ok" <=> syncPc[d] = "ok"
    BY <1>1 DEF SyncInv, SyncTypes
  <1>6. Sync!CountInv'
    BY <1>1, <1>5, SyncShape, CountsKept DEF SyncInv
  <1>7. QED
    BY <1>4, <1>6 DEF SyncInv

\* A message fails: the handler is called for every message of the call.
LEMMA FailStep ==
  ASSUME SyncInv, NEW c \in Senders, Sync!SendFails(c)
  PROVE  SyncInv'
  <1>1. /\ syncPc[c] = "wait" /\ syncPc' = [syncPc EXCEPT ![c] = "error"]
        /\ syncHandled' = syncHandled \cup Sync!OfCall(c)
        /\ UNCHANGED <<batch, single, answer, written, syncCounted, syncClosed>>
    BY DEF Sync!SendFails
  <1>2. Sync!OfCall(c) \subseteq Senders \X (1 .. MaxBatch)
    BY SyncShape DEF SyncInv, Sync!OfCall
  <1>3. SyncTypes' /\ Sync!CallInv' /\ Sync!LogInv' /\ Sync!LossIsHandled'
    BY <1>1, <1>2, PlaceStep DEF SyncInv, SyncTypes
  <1>4. \A d \in Senders : syncPc'[d] = "ok" <=> syncPc[d] = "ok"
    BY <1>1 DEF SyncInv, SyncTypes
  <1>5. Sync!CountInv'
    BY <1>1, <1>4, SyncShape, CountsKept DEF SyncInv
  <1>6. QED
    BY <1>3, <1>5 DEF SyncInv

\* A broker answers: what it acknowledges is in the log of the message's topic.
LEMMA BrokerStep ==
  ASSUME SyncInv, NEW m \in Senders \X (1 .. MaxBatch), Sync!BrokerAnswers(m)
  PROVE  SyncInv'
  <1> DEFINE w0 == <<m, Sync!TopicOf(m)>>
  <1>1. /\ answer[m] = "sent"
        /\ \/ answer' = [answer EXCEPT ![m] = "ok"] /\ written' = written \cup {w0}
           \/ answer' = [answer EXCEPT ![m] = "failed"] /\ written' \in {written, written \cup {w0}}
        /\ UNCHANGED <<syncPc, batch, single, syncCounted, syncHandled, syncClosed>>
    BY DEF Sync!BrokerAnswers, Sync!TopicOf
  <1>2. /\ m[1] \in Senders /\ m[2] \in 1 .. MaxBatch /\ m = <<m[1], m[2]>>
        /\ m[2] <= Len(batch[m[1]]) /\ Len(batch[m[1]]) \in Nat
    <2>1. m[1] \in Senders /\ m[2] \in 1 .. MaxBatch /\ m = <<m[1], m[2]>>
      OBVIOUS
    <2>2. QED
      BY <1>1, <2>1, SyncShape DEF SyncInv, Sync!CallInv, Sync!InPlace
  <1>3. m[2] \in 1 .. Len(batch[m[1]]) /\ Sync!TopicOf(m) \in Sync!Topics
    BY <1>2, SyncShape DEF SyncInv
  <1>4. syncPc[m[1]] # "ok"
    <2>1. m \in Sync!OfCall(m[1])
      BY <1>2, <1>3 DEF Sync!OfCall
    <2>2. QED
      BY <1>1, <1>2, <2>1 DEF SyncInv, Sync!CallInv, Sync!InPlace
  <1>5. /\ answer'[m] \in {"ok", "failed"}
        /\ \A n \in Senders \X (1 .. MaxBatch) : n # m => answer'[n] = answer[n]
    BY <1>1 DEF SyncInv, SyncTypes
  <1>6. SyncTypes'
    <2>1. w0 \in (Senders \X (1 .. MaxBatch)) \X Sync!Topics
      BY <1>3
    <2>2. written' \subseteq (Senders \X (1 .. MaxBatch)) \X Sync!Topics
      <3> HIDE DEF w0
      <3>1. QED
        BY <1>1, <2>1 DEF SyncInv, SyncTypes
    <2>3. answer' \in [Senders \X (1 .. MaxBatch) -> {"none", "sent", "ok", "failed"}]
      BY <1>1 DEF SyncInv, SyncTypes
    <2>4. QED
      BY <1>1, <2>2, <2>3 DEF SyncInv, SyncTypes
  <1>7. Sync!CallInv'
    <2> SUFFICES ASSUME NEW c \in Senders PROVE Sync!InPlace(c)'
      BY DEF Sync!CallInv
    <2>1. \A i \in 1 .. MaxBatch : answer'[<<c, i>>] # "none" <=> answer[<<c, i>>] # "none"
      BY <1>1, <1>5, SyncShape DEF SyncInv
    <2>2. \A n \in Sync!OfCall(c) : n \in Senders \X (1 .. MaxBatch)
      BY SyncShape DEF SyncInv, Sync!OfCall
    <2>3. \A n \in Sync!OfCall(c) : answer'[n] # "none" <=> answer[n] # "none"
      BY <1>1, <1>5, <2>2
    <2>4. syncPc[c] = "ok" => \A n \in Sync!OfCall(c) : n # m
      BY <1>4 DEF Sync!OfCall
    <2>5. Sync!OfCall(c)' = Sync!OfCall(c)
      BY <1>1 DEF Sync!OfCall
    <2>6. QED
      BY <1>1, <1>5, <2>1, <2>2, <2>3, <2>4, <2>5, SyncShape DEF SyncInv, Sync!CallInv, Sync!InPlace
  <1>8. Sync!LogInv'
    <2>1. \A n : Sync!TopicOf(n)' = Sync!TopicOf(n)
      BY <1>1 DEF Sync!TopicOf
    <2>2. \A w \in written' : w \in written \/ w = w0
      BY <1>1
    <2>3. \A w \in written' : answer'[w[1]] # "none" /\ w[2] = Sync!TopicOf(w[1])
      BY <1>5, <2>2, SyncShape DEF SyncInv, Sync!LogInv
    <2>4. \A n \in Senders \X (1 .. MaxBatch) :
            answer'[n] = "ok" => <<n, Sync!TopicOf(n)>> \in written'
      <3> SUFFICES ASSUME NEW n \in Senders \X (1 .. MaxBatch), answer'[n] = "ok"
                   PROVE  <<n, Sync!TopicOf(n)>> \in written'
        OBVIOUS
      <3>1. CASE n = m
        BY <1>1, <3>1 DEF SyncInv, SyncTypes
      <3>2. CASE n # m
        BY <1>1, <1>5, <3>2, SyncShape DEF SyncInv, Sync!LogInv
      <3>3. QED
        BY <3>1, <3>2
    <2>5. QED
      BY <2>1, <2>3, <2>4, SyncShape DEF SyncInv, Sync!LogInv
  <1>9. Sync!LossIsHandled'
    BY <1>1 DEF SyncInv, Sync!LossIsHandled, Sync!Heard, Sync!OfCall
  <1>10. Sync!CountInv'
    <2>1. \A w \in written' : syncPc'[w[1][1]] = "ok" <=> w \in written /\ syncPc[w[1][1]] = "ok"
      BY <1>1, <1>4
    <2>2. written \subseteq written'
      BY <1>1
    <2>3. QED
      BY <1>1, <2>1, <2>2, CountsKept
  <1>11. QED
    BY <1>6, <1>7, <1>8, <1>9, <1>10 DEF SyncInv

LEMMA SyncCloseStep ==
  ASSUME SyncInv, Sync!Close \/ UNCHANGED syncVars
  PROVE  SyncInv'
  <1>1. /\ UNCHANGED <<syncPc, batch, single, answer, written, syncCounted, syncHandled>>
        /\ syncClosed' \in {"no", "yes"}
    BY DEF Sync!Close, syncVars, SyncInv, SyncTypes
  <1>2. SyncTypes'
    BY <1>1 DEF SyncInv, SyncTypes
  <1>3. Sync!CallInv' /\ Sync!LossIsHandled'
    BY <1>1 DEF SyncInv, Sync!CallInv, Sync!InPlace, Sync!LossIsHandled, Sync!Heard, Sync!OfCall
  <1>4. Sync!LogInv'
    BY <1>1 DEF SyncInv, Sync!LogInv, Sync!TopicOf
  <1>5. Sync!CountInv'
    BY <1>1, CountsKept
  <1>6. QED
    BY <1>2, <1>3, <1>4, <1>5 DEF SyncInv

\* A set grows by a number of new elements.
LEMMA GrowsBy ==
  ASSUME NEW S, IsFiniteSet(S), NEW D, IsFiniteSet(D), S \cap D = {}
  PROVE  /\ IsFiniteSet(S \cup D)
         /\ Cardinality(S \cup D) = Cardinality(S) + Cardinality(D)
         /\ Cardinality(S) \in Nat /\ Cardinality(D) \in Nat
  <1>1. Cardinality(S \cap D) = 0
    BY FS_EmptySet
  <1>2. Cardinality(S) \in Nat /\ Cardinality(D) \in Nat
    BY FS_CardinalityType
  <1>3. /\ IsFiniteSet(S \cup D)
        /\ Cardinality(S \cup D) = Cardinality(S) + Cardinality(D) - Cardinality(S \cap D)
    BY FS_Union
  <1>4. QED
    BY <1>1, <1>2, <1>3

\* The counter of a topic grows by n.
LEMMA CountsAdd ==
  ASSUME SyncTypes, IsFiniteSet(Sync!Counts), NEW t \in Sync!Topics, NEW n \in Nat,
         syncCounted' = [syncCounted EXCEPT ![t] = @ + n]
  PROVE  /\ IsFiniteSet(Sync!Counts)'
         /\ Cardinality(Sync!Counts') = Cardinality(Sync!Counts) + n
  <1> DEFINE k == syncCounted[t]
             I == (k + 1) .. (k + n)
             D == {t} \X I
  <1>1. k \in Nat /\ syncCounted'[t] = k + n
        /\ \A u \in Sync!Topics : u # t => syncCounted'[u] = syncCounted[u]
    BY DEF SyncTypes
  <1>2. IsFiniteSet(D) /\ Cardinality(D) = n
    <2>1. IsFiniteSet(I) /\ Cardinality(I) = n
      <3>1. k + 1 \in Int /\ k + n \in Int
        BY <1>1
      <3>2. /\ IsFiniteSet((k + 1) .. (k + n))
            /\ Cardinality((k + 1) .. (k + n)) = IF k + 1 > k + n THEN 0 ELSE (k + n) - (k + 1) + 1
        BY <3>1, FS_Interval
      <3> HIDE DEF k
      <3>3. QED
        BY <1>1, <3>2
    <2>2. IsFiniteSet({t}) /\ Cardinality({t}) = 1
      BY FS_Singleton
    <2> HIDE DEF I
    <2>3. IsFiniteSet({t} \X I) /\ Cardinality({t} \X I) = 1 * n
      BY <2>1, <2>2, FS_Product
    <2>4. QED
      BY <2>3
  <1>3. 1 .. (k + n) = (1 .. k) \cup ((k + 1) .. (k + n))
    <2> HIDE DEF k
    <2>1. QED
      BY <1>1
  <1>4. Sync!Counts' = Sync!Counts \cup D
    <2>1. \A x : x \in Sync!Counts' <=>
            \E u \in Sync!Topics : x \in {u} \X (1 .. syncCounted'[u])
      BY DEF Sync!Counts, Sync!Topics
    <2>2. \A x : x \in Sync!Counts <=>
            \E u \in Sync!Topics : x \in {u} \X (1 .. syncCounted[u])
      BY DEF Sync!Counts
    <2>3. \A x : x \in {t} \X (1 .. (k + n)) <=> x \in {t} \X (1 .. k) \/ x \in D
      BY <1>3
    <2> HIDE DEF D, k
    <2>4. \A x : x \in Sync!Counts' <=> x \in Sync!Counts \/ x \in D
      BY <1>1, <2>1, <2>2, <2>3 DEF k
    <2>5. QED
      BY <2>4
  <1>5. Sync!Counts \cap D = {}
    <2> SUFFICES ASSUME NEW x \in Sync!Counts, x \in D PROVE FALSE
      OBVIOUS
    <2>1. PICK u \in Sync!Topics : x \in {u} \X (1 .. syncCounted[u])
      BY DEF Sync!Counts
    <2>2. x[1] = t /\ x[2] \in (k + 1) .. (k + n) /\ x[2] \in 1 .. k
      BY <2>1
    <2> HIDE DEF D, k
    <2>3. QED
      BY <1>1, <2>2
  <1> HIDE DEF D
  <1>6. QED
    BY <1>2, <1>4, <1>5, GrowsBy

\* Each message is in the log of at most one topic, so the logs are finite.
LEMMA LogsAreFinite ==
  ASSUME SyncInv
  PROVE  IsFiniteSet(written) /\ Cardinality(written) <= Cardinality(Senders) * MaxBatch
  <1> DEFINE M == Senders \X (1 .. MaxBatch)
             f == [w \in written |-> w[1]]
  <1>1. IsFiniteSet(M) /\ Cardinality(M) = Cardinality(Senders) * MaxBatch
    <2>1. IsFiniteSet(Senders) /\ MaxBatch \in Nat \ {0}
      BY ProducersAssumption, TxProducerAssumption
    <2>2. IsFiniteSet(1 .. MaxBatch) /\ Cardinality(1 .. MaxBatch) = MaxBatch
      BY <2>1, FS_Interval
    <2>3. QED
      BY <2>1, <2>2, FS_Product
  <1>2. f \in [written -> M]
    BY SyncShape DEF SyncInv
  <1>3. \A v, w \in written : f[v] = f[w] => v = w
    <2>1. \A w \in written : w = <<w[1], Sync!TopicOf(w[1])>>
      BY SyncShape DEF SyncInv, Sync!LogInv
    <2>2. QED
      BY <2>1
  <1> HIDE DEF f
  <1>4. f \in Injection(written, M)
    BY <1>2, <1>3 DEF Injection, IsInjective
  <1> HIDE DEF M
  <1>5. QED
    BY <1>1, <1>4, FS_Injection

\* A call that returns nil has all its messages in the logs, and none of them was
\* counted before.
LEMMA OkAdds ==
  ASSUME SyncInv, NEW c \in Senders, syncPc[c] # "ok",
         \A m \in Sync!OfCall(c) : answer[m] = "ok",
         syncPc' = [syncPc EXCEPT ![c] = "ok"], written' = written
  PROVE  /\ IsFiniteSet(Sync!WrittenOk')
         /\ Cardinality(Sync!WrittenOk) + Len(batch[c]) <= Cardinality(Sync!WrittenOk')
         /\ Cardinality(Sync!WrittenOk) \in Nat /\ Cardinality(Sync!WrittenOk') \in Nat
  <1> DEFINE n == Len(batch[c])
             f == [i \in 1 .. n |-> <<<<c, i>>, Sync!TopicOf(<<c, i>>)>>]
             D == {<<<<c, i>>, Sync!TopicOf(<<c, i>>)>> : i \in 1 .. n}
  <1>1. /\ n \in Nat
        /\ \A i \in 1 .. n : <<c, i>> \in Senders \X (1 .. MaxBatch) /\ <<c, i>> \in Sync!OfCall(c)
    BY SyncShape DEF SyncInv, Sync!OfCall
  <1>2. IsFiniteSet(1 .. n) /\ Cardinality(1 .. n) = n
    BY <1>1, FS_Interval
  <1>3. f \in [1 .. n -> D] /\ \A x \in D : \E i \in 1 .. n : f[i] = x
    OBVIOUS
  <1>4. \A i, j \in 1 .. n : f[i] = f[j] => i = j
    <2> SUFFICES ASSUME NEW i \in 1 .. n, NEW j \in 1 .. n, f[i] = f[j]
                 PROVE  i = j
      OBVIOUS
    <2>1. f[i][1] = <<c, i>> /\ f[j][1] = <<c, j>>
      OBVIOUS
    <2>2. QED
      BY <2>1
  <1>5. f \in Bijection(1 .. n, D)
    <2> HIDE DEF f, D
    <2>1. QED
      BY <1>3, <1>4 DEF Bijection, Injection, Surjection, IsInjective
  <1>6. IsFiniteSet(D) /\ Cardinality(D) = n
    <2> HIDE DEF f, D, n
    <2>1. QED
      BY <1>2, <1>5, FS_Bijection DEF ExistsBijection
  <1>7. \A x \in D : x \in written /\ x[1][1] = c
    <2>1. \A i \in 1 .. n : <<<<c, i>>, Sync!TopicOf(<<c, i>>)>> \in written
      BY <1>1, SyncShape DEF SyncInv, Sync!LogInv
    <2>2. \A x \in D : \E i \in 1 .. n : x = <<<<c, i>>, Sync!TopicOf(<<c, i>>)>>
      OBVIOUS
    <2> HIDE DEF D
    <2> SUFFICES ASSUME NEW x \in D PROVE x \in written /\ x[1][1] = c
      OBVIOUS
    <2>3. PICK i \in 1 .. n : x = <<<<c, i>>, Sync!TopicOf(<<c, i>>)>>
      BY <2>2
    <2>4. x[1] = <<c, i>>
      BY <2>3
    <2>5. QED
      BY <2>1, <2>3, <2>4
  <1>8. syncPc'[c] = "ok" /\ \A s \in Senders : s # c => syncPc'[s] = syncPc[s]
    BY DEF SyncInv, SyncTypes
  <1>9. \A w \in written : w[1][1] \in Senders
    BY SyncShape DEF SyncInv
  <1> HIDE DEF D
  <1>10. D \cap Sync!WrittenOk = {}
    BY <1>7 DEF Sync!WrittenOk
  <1>11. Sync!WrittenOk \cup D \subseteq Sync!WrittenOk' /\ Sync!WrittenOk' \subseteq written
    BY <1>7, <1>8, <1>9 DEF Sync!WrittenOk
  <1>12. IsFiniteSet(Sync!WrittenOk) /\ IsFiniteSet(Sync!WrittenOk')
    <2>1. Sync!WrittenOk \subseteq written
      BY DEF Sync!WrittenOk
    <2>2. QED
      BY <1>11, <2>1, LogsAreFinite, FS_Subset
  <1>13. /\ IsFiniteSet(Sync!WrittenOk \cup D)
         /\ Cardinality(Sync!WrittenOk \cup D) = Cardinality(Sync!WrittenOk) + n
    BY <1>6, <1>10, <1>12, GrowsBy
  <1>14. Cardinality(Sync!WrittenOk \cup D) <= Cardinality(Sync!WrittenOk')
    BY <1>11, <1>12, FS_Subset
  <1>15. Cardinality(Sync!WrittenOk) \in Nat /\ Cardinality(Sync!WrittenOk') \in Nat
    BY <1>12, FS_CardinalityType
  <1>16. QED
    BY <1>12, <1>13, <1>14, <1>15

\* Every message is in the logs: the call returns nil and counts as many messages,
\* a single one for its own topic and a batch for the topic of the producer.
LEMMA SucceedStep ==
  ASSUME SyncInv, NEW c \in Senders, Sync!SendSucceeds(c)
  PROVE  SyncInv'
  <1>1. /\ syncPc[c] = "wait" /\ syncPc' = [syncPc EXCEPT ![c] = "ok"]
        /\ UNCHANGED <<batch, single, answer, written, syncHandled, syncClosed>>
    BY DEF Sync!SendSucceeds
  <1>2. \A m \in Sync!OfCall(c) : answer[m] = "ok"
    BY <1>1 DEF SyncInv, Sync!CallInv, Sync!InPlace, Sync!SendSucceeds, Sync!Answered, Sync!Failed
  <1>3. PICK t \in Sync!Topics : syncCounted' = [syncCounted EXCEPT ![t] = @ + Len(batch[c])]
    <2>1. CASE single[c]
      <3>1. Len(batch[c]) = 1 /\ 1 \in 1 .. Len(batch[c])
        BY <2>1 DEF SyncInv, Sync!CallInv, Sync!InPlace
      <3>2. Sync!ResolveTopic(batch[c][1].topic) \in Sync!Topics
        BY <3>1, SyncShape DEF SyncInv
      <3>3. QED
        BY <2>1, <3>1, <3>2 DEF Sync!SendSucceeds
    <2>2. CASE ~single[c]
      BY <2>2 DEF Sync!SendSucceeds, Sync!Topics
    <2>3. QED
      BY <2>1, <2>2
  <1>4. Len(batch[c]) \in Nat
    BY SyncShape DEF SyncInv
  <1>5. syncCounted' \in [Sync!Topics -> Nat]
    BY <1>3, <1>4 DEF SyncInv, SyncTypes
  <1>6. SyncTypes' /\ Sync!CallInv' /\ Sync!LogInv' /\ Sync!LossIsHandled'
    BY <1>1, <1>2, <1>5, PlaceStep DEF SyncInv, SyncTypes
  <1>7. Sync!CountInv'
    <2>1. IsFiniteSet(Sync!Counts) /\ Cardinality(Sync!Counts) <= Cardinality(Sync!WrittenOk)
      BY SyncCount DEF SyncInv, Sync!CountInv
    <2>2. /\ IsFiniteSet(Sync!Counts')
          /\ Cardinality(Sync!Counts') = Cardinality(Sync!Counts) + Len(batch[c])
      BY <1>3, <1>4, <2>1, CountsAdd DEF SyncInv
    <2>3. Cardinality(Sync!Counts) \in Nat
      BY <2>1, FS_CardinalityType
    <2>4. /\ Cardinality(Sync!WrittenOk) + Len(batch[c]) <= Cardinality(Sync!WrittenOk')
          /\ Cardinality(Sync!WrittenOk) \in Nat /\ Cardinality(Sync!WrittenOk') \in Nat
      BY <1>1, <1>2, OkAdds
    <2>5. Cardinality(Sync!Counts') <= Cardinality(Sync!WrittenOk')
      BY <1>4, <2>1, <2>2, <2>3, <2>4
    <2>6. QED
      BY <2>2, <2>5, SyncCount DEF Sync!CountInv
  <1>8. QED
    BY <1>6, <1>7 DEF SyncInv

LEMMA SyncNextInv ==
  ASSUME SyncInv, Sync!Next
  PROVE  SyncInv'
  <1>1. ASSUME NEW c \in Senders,
               Sync!SendTypedMessage(c) \/ Sync!SendTypedMessages(c) \/ Sync!Step(c)
        PROVE  SyncInv'
    BY <1>1, StartStep, PutInStep, AllInStep, SucceedStep, FailStep DEF Sync!Step
  <1>2. ASSUME NEW m \in Senders \X Sync!Positions, Sync!BrokerAnswers(m)
        PROVE  SyncInv'
    BY <1>2, BrokerStep DEF Sync!Positions
  <1>3. ASSUME Sync!Close PROVE SyncInv'
    BY <1>3, SyncCloseStep
  <1>4. QED
    BY <1>1, <1>2, <1>3 DEF Sync!Next

\* What the calls, the handler and the counter say follows.
LEMMA SyncImplies == SyncInv => SyncAnswersAreTrue
  <1> SUFFICES ASSUME SyncInv PROVE SyncAnswersAreTrue
    OBVIOUS
  <1>1. Sync!NilMeansWritten
    <2> SUFFICES ASSUME NEW c \in Senders, syncPc[c] = "ok", NEW i \in 1 .. Len(batch[c])
                 PROVE  \E t \in Sync!Topics : /\ <<<<c, i>>, t>> \in written
                                               /\ batch[c][i].topic \in {t, NoTopic}
      BY DEF Sync!NilMeansWritten
    <2>1. <<c, i>> \in Sync!OfCall(c) /\ <<c, i>> \in Senders \X (1 .. MaxBatch)
      BY SyncShape DEF SyncInv, Sync!OfCall
    <2>2. answer[<<c, i>>] = "ok"
      BY <2>1 DEF SyncInv, Sync!CallInv, Sync!InPlace
    <2>3. <<<<c, i>>, Sync!TopicOf(<<c, i>>)>> \in written
      BY <2>1, <2>2, SyncShape DEF SyncInv, Sync!LogInv
    <2>4. QED
      BY <2>3, SyncShape DEF SyncInv, Sync!ResolveTopic
  <1>2. Sync!BadBatchSendsNothing
    <2> SUFFICES ASSUME NEW c \in Senders, NEW i \in 1 .. Len(batch[c]), ~batch[c][i].good,
                        NEW w \in written, w[1][1] = c
                 PROVE  FALSE
      BY DEF Sync!BadBatchSendsNothing
    <2>1. w[1] = <<c, w[1][2]>> /\ w[1][2] \in 1 .. MaxBatch
      BY SyncShape DEF SyncInv
    <2>2. answer[<<c, w[1][2]>>] # "none"
      BY <2>1 DEF SyncInv, Sync!LogInv
    <2>3. QED
      BY <2>1, <2>2, SyncShape DEF SyncInv, Sync!CallInv, Sync!InPlace
  <1>3. Cardinality(Sync!Counts) <= Cardinality(written)
        /\ Cardinality(written) <= Cardinality(Senders) * MaxBatch
        /\ IsFiniteSet(Sync!Counts)
        /\ Cardinality(Sync!Counts) \in Nat /\ Cardinality(written) \in Nat
        /\ Cardinality(Senders) * MaxBatch \in Nat
    <2>1. IsFiniteSet(Sync!Counts) /\ Cardinality(Sync!Counts) <= Cardinality(Sync!WrittenOk)
      BY SyncCount DEF SyncInv, Sync!CountInv
    <2>2. IsFiniteSet(written) /\ Cardinality(written) <= Cardinality(Senders) * MaxBatch
      BY LogsAreFinite
    <2>3. Sync!WrittenOk \subseteq written
      BY DEF Sync!WrittenOk
    <2>4. IsFiniteSet(Sync!WrittenOk) /\ Cardinality(Sync!WrittenOk) <= Cardinality(written)
      BY <2>2, <2>3, FS_Subset
    <2>5. /\ Cardinality(Sync!Counts) \in Nat /\ Cardinality(written) \in Nat
          /\ Cardinality(Sync!WrittenOk) \in Nat
      BY <2>1, <2>2, <2>4, FS_CardinalityType
    <2>6. Cardinality(Senders) \in Nat /\ MaxBatch \in Nat
      BY ProducersAssumption, FS_CardinalityType, TxProducerAssumption
    <2>7. Cardinality(Senders) * MaxBatch \in Nat
      BY <2>6
    <2>8. QED
      BY <2>1, <2>2, <2>4, <2>5, <2>7
  <1>4. \A t \in Sync!Topics : syncCounted[t] <= Cardinality(Sync!Counts) /\ syncCounted[t] \in Nat
    <2> SUFFICES ASSUME NEW t \in Sync!Topics
                 PROVE  syncCounted[t] <= Cardinality(Sync!Counts) /\ syncCounted[t] \in Nat
      OBVIOUS
    <2> DEFINE k == syncCounted[t]
               I == 1 .. k
    <2>1. k \in Nat
      BY DEF SyncInv, SyncTypes
    <2>2. IsFiniteSet(I) /\ Cardinality(I) = k
      <3> HIDE DEF k
      <3>1. IsFiniteSet(I) /\ Cardinality(I) = IF 1 > k THEN 0 ELSE k - 1 + 1
        BY <2>1, FS_Interval
      <3>2. QED
        BY <2>1, <3>1
    <2>3. {t} \X I \subseteq Sync!Counts
      BY DEF Sync!Counts
    <2> HIDE DEF I
    <2>4. IsFiniteSet({t}) /\ Cardinality({t}) = 1
      BY FS_Singleton
    <2>5. Cardinality({t} \X I) = 1 * k
      BY <2>2, <2>4, FS_Product
    <2>6. Cardinality({t} \X I) <= Cardinality(Sync!Counts)
      BY <1>3, <2>3, FS_Subset
    <2> HIDE DEF k
    <2>7. k <= Cardinality(Sync!Counts)
      BY <2>1, <2>5, <2>6
    <2>8. QED
      BY <2>1, <2>7 DEF k
  <1>5. Sync!TypeOK
    <2> DEFINE N == Cardinality(Senders) * MaxBatch
    <2>1. Sync!Cardinality(Senders) * MaxBatch = N
      BY SyncCount
    <2>2. \A t \in Sync!Topics : syncCounted[t] \in 0 .. N
      <3> HIDE DEF N
      <3>1. N \in Nat /\ Cardinality(written) <= N
        BY <1>3 DEF N
      <3>2. QED
        BY <1>3, <1>4, <3>1
    <2> HIDE DEF N
    <2>3. syncCounted \in [Sync!Topics -> 0 .. N]
      BY <2>2 DEF SyncInv, SyncTypes
    <2>4. batch \in [Senders -> UNION {[1 .. n -> Sync!Typed] : n \in 0 .. MaxBatch}]
      BY DEF SyncInv, SyncTypes, Batches
    <2>5. QED
      BY <2>1, <2>3, <2>4, SyncShape DEF SyncInv, SyncTypes, Sync!TypeOK
  <1>6. Sync!CountedIsWritten
    BY <1>3, SyncCount DEF Sync!CountedIsWritten
  <1>7. QED
    BY <1>1, <1>2, <1>5, <1>6 DEF SyncInv, SyncAnswersAreTrue

\* The answers of the calls, the error handler and the counter of the synchronous
\* producer are true of the logs: nil means that every message is written, a value that
\* cannot be serialized keeps its batch from being sent, the handler hears of every
\* loss, and no more is counted than the logs hold.
THEOREM SyncAnswersHold == PartSpec => []SyncAnswersAreTrue
  <1>1. PartInit => SyncInv
    BY SyncInit DEF PartInit
  <1>2. SyncInv /\ [PartNext]_mcvars => SyncInv'
    <2> SUFFICES ASSUME SyncInv, [PartNext]_mcvars PROVE SyncInv'
      OBVIOUS
    <2>1. Sync!Next \/ UNCHANGED syncVars
      BY DEF PartNext, mcvars
    <2>2. QED
      BY <2>1, SyncNextInv, SyncCloseStep
  <1>3. QED
    BY <1>1, <1>2, SyncImplies, PTL DEF PartSpec
=============================================================================
