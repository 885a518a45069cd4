----------------------------- MODULE SyncProducer -----------------------------
(***************************************************************************)
(* The synchronous Kafka producer                                          *)
(* (pkg/adapters/kafka/producer/sync-producer): SendTypedMessage and       *)
(* SendTypedMessages of goroutines that share a producer, the conversion   *)
(* of a message (typed.go: its topic and its payload), the metrics and the *)
(* error handler, and Close.  sarama and the brokers are external: each    *)
(* message is delivered or fails by itself, and a message that failed may  *)
(* have been delivered.                                                    *)
(***************************************************************************)
EXTENDS Naturals, FiniteSets, Sequences

CONSTANTS Callers,    \* goroutines, each makes one call
          MaxBatch,   \* messages of a call
          Topic,      \* TopicProducer.topic
          OwnTopics,  \* what TypedMessage.Topic may hold
          NoTopic     \* the empty one

SyncProducerAssumption ==
  /\ MaxBatch \in Nat \ {0}
  /\ NoTopic \in OwnTopics /\ Topic # NoTopic

Topics == {Topic} \cup (OwnTopics \ {NoTopic})
Positions == 1 .. MaxBatch

\* TypedMessage: its topic, and whether the serializer takes its value.
Typed == [topic : OwnTopics, good : BOOLEAN]

VARIABLES
  pc,       \* what each goroutine does
  batch,    \* the messages of its call
  single,   \* the call is SendTypedMessage
  answer,   \* sarama's answer for each message
  written,  \* the messages that are in the log, with their topics
  counted,  \* messages_total with status success, by topic
  handled,  \* messages the error handler was called for
  closed    \* Close has been called

vars == <<pc, batch, single, answer, written, counted, handled, closed>>

\* One type invariant.
TypeOK ==
  /\ pc \in [Callers -> {"idle", "send", "wait", "ok", "error"}]
  /\ batch \in [Callers -> UNION {[1 .. n -> Typed] : n \in 0 .. MaxBatch}]
  /\ single \in [Callers -> BOOLEAN]
  /\ answer \in [Callers \X Positions -> {"none", "sent", "ok", "failed"}]
  /\ written \subseteq (Callers \X Positions) \X Topics
  /\ counted \in [Topics -> 0 .. Cardinality(Callers) * MaxBatch]
  /\ handled \subseteq Callers \X Positions
  /\ closed \in {"no", "yes"}

\* NewTopicProducer: results are returned whatever the configuration says.
Init ==
  /\ pc = [c \in Callers |-> "idle"]
  /\ batch = [c \in Callers |-> <<>>]
  /\ single = [c \in Callers |-> FALSE]
  /\ answer = [m \in Callers \X Positions |-> "none"]
  /\ written = {} /\ counted = [t \in Topics |-> 0] /\ handled = {}
  /\ closed = "no"

\* resolveTopic.
ResolveTopic(own) == IF own # NoTopic THEN own ELSE Topic

OfCall(c) == {c} \X (1 .. Len(batch[c]))
FirstBad(b) == {i \in 1 .. Len(b) : ~b[i].good /\ \A j \in 1 .. i - 1 : b[j].good}

-----------------------------------------------------------------------------
\* The loop of ToProducerMessage over the batch: the first value that cannot
\* be serialized ends the call, and nothing has been sent.
Convert(c, b) ==
  IF FirstBad(b) # {}
    THEN /\ pc' = [pc EXCEPT ![c] = "error"]
         /\ handled' = handled \cup ({c} \X FirstBad(b))
    ELSE pc' = [pc EXCEPT ![c] = "send"] /\ UNCHANGED handled

SendTypedMessage(c) ==
  /\ pc[c] = "idle" /\ closed = "no"
  /\ \E m \in Typed :
       /\ batch' = [batch EXCEPT ![c] = <<m>>]
       /\ Convert(c, <<m>>)
  /\ single' = [single EXCEPT ![c] = TRUE]
  /\ UNCHANGED <<answer, written, counted, closed>>

SendTypedMessages(c) ==
  /\ pc[c] = "idle" /\ closed = "no"
  /\ \E n \in 0 .. MaxBatch : \E b \in [1 .. n -> Typed] :
       /\ batch' = [batch EXCEPT ![c] = b]
       /\ Convert(c, b)
  /\ UNCHANGED <<single, answer, written, counted, closed>>

\* sarama's SendMessages: one goroutine puts the messages in, in order.
PutIn(c) ==
  /\ pc[c] = "send"
  /\ \E i \in 1 .. Len(batch[c]) :
       /\ answer[<<c, i>>] = "none" /\ batch[c][i].good
       /\ \A j \in 1 .. i - 1 : answer[<<c, j>>] # "none"
       /\ answer' = [answer EXCEPT ![<<c, i>>] = "sent"]
  /\ UNCHANGED <<pc, batch, single, written, counted, handled, closed>>

AllIn(c) ==
  /\ pc[c] = "send"
  /\ \A i \in 1 .. Len(batch[c]) : batch[c][i].good => answer[<<c, i>>] # "none"
  /\ pc' = [pc EXCEPT ![c] = "wait"]
  /\ UNCHANGED <<batch, single, answer, written, counted, handled, closed>>

\* A message is written, or not, or written with the answer lost.
BrokerAnswers(m) ==
  /\ answer[m] = "sent"
  /\ \/ /\ answer' = [answer EXCEPT ![m] = "ok"]
        /\ written' = written \cup {<<m, ResolveTopic(batch[m[1]][m[2]].topic)>>}
     \/ /\ answer' = [answer EXCEPT ![m] = "failed"]
        /\ written' \in {written, written \cup {<<m, ResolveTopic(batch[m[1]][m[2]].topic)>>}}
  /\ UNCHANGED <<pc, batch, single, counted, handled, closed>>

Answered(c) == \A m \in OfCall(c) : answer[m] \in {"none", "ok", "failed"}
Failed(c) == {m \in OfCall(c) : answer[m] = "failed"}

\* The success metric: a single message counts for its own topic, a batch for
\* the topic of the producer.
SendSucceeds(c) ==
  /\ pc[c] = "wait" /\ Answered(c) /\ Failed(c) = {}
  /\ counted' = IF single[c]
                  THEN [counted EXCEPT ![ResolveTopic(batch[c][1].topic)] = @ + 1]
                  ELSE [counted EXCEPT ![Topic] = @ + Len(batch[c])]
  /\ pc' = [pc EXCEPT ![c] = "ok"]
  /\ UNCHANGED <<batch, single, answer, written, handled, closed>>

\* A bug: the handler hears of the first message of a failed batch only.
SendFails_FirstOnly(c) ==
  /\ pc[c] = "wait" /\ Answered(c) /\ Failed(c) # {}
  /\ handled' = handled \cup {<<c, 1>>}
  /\ pc' = [pc EXCEPT ![c] = "error"]
  /\ UNCHANGED <<batch, single, answer, written, counted, closed>>

\* The handler is called for every message of the failed call.
SendFails(c) ==
  /\ pc[c] = "wait" /\ Answered(c) /\ Failed(c) # {}
  /\ handled' = handled \cup OfCall(c)
  /\ pc' = [pc EXCEPT ![c] = "error"]
  /\ UNCHANGED <<batch, single, answer, written, counted, closed>>

\* The owner closes when no call is in progress; sarama waits for its readers.
Close ==
  /\ closed = "no" /\ \A c \in Callers : pc[c] \notin {"send", "wait"}
  /\ closed' = "yes"
  /\ UNCHANGED <<pc, batch, single, answer, written, counted, handled>>

-----------------------------------------------------------------------------
Step(c) == PutIn(c) \/ AllIn(c) \/ SendSucceeds(c) \/ SendFails(c)

Next ==
  \/ \E c \in Callers : SendTypedMessage(c) \/ SendTypedMessages(c) \/ Step(c)
  \/ \E m \in Callers \X Positions : BrokerAnswers(m)
  \/ Close

Spec == Init /\ [][Next]_vars

-----------------------------------------------------------------------------
\* A call returns nil only when each of its messages is in the log of the
\* topic it names, or of the producer's topic when it names none.
NilMeansWritten ==
  \A c \in Callers : pc[c] = "ok" =>
    \A i \in 1 .. Len(batch[c]) : \E t \in Topics :
      /\ <<<<c, i>>, t>> \in written
      /\ batch[c][i].topic \in {t, NoTopic}

\* A batch with a value that cannot be serialized sends nothing at all.
BadBatchSendsNothing ==
  \A c \in Callers :
    (\E i \in 1 .. Len(batch[c]) : ~batch[c][i].good) =>
      \A w \in written : w[1][1] # c

\* Every message of a failed call that may be missing in the log is known to
\* the error handler, except what a bad value kept from being sent.
Heard(c) ==
  \/ \A m \in OfCall(c) : m \in handled
  \/ \E i \in 1 .. Len(batch[c]) : ~batch[c][i].good /\ <<c, i>> \in handled
LossIsHandled == \A c \in Callers : pc[c] = "error" => Heard(c)

\* The counter never exceeds what is in the logs, all topics together.
Counts == UNION {{t} \X (1 .. counted[t]) : t \in Topics}
CountedIsWritten == Cardinality(Counts) <= Cardinality(written)

\* The strengthening behind them: what a call's place says of its messages.
InPlace(c) ==
  /\ pc[c] = "idle" => batch[c] = <<>> /\ ~single[c]
  /\ single[c] => Len(batch[c]) = 1
  /\ pc[c] \in {"send", "wait", "ok"} => \A i \in 1 .. Len(batch[c]) : batch[c][i].good
  /\ pc[c] \in {"wait", "ok"} => \A m \in OfCall(c) : answer[m] # "none"
  /\ pc[c] = "ok" => \A m \in OfCall(c) : answer[m] = "ok"
  /\ \A i \in Positions : answer[<<c, i>>] # "none" =>
       /\ pc[c] # "idle" /\ i <= Len(batch[c])
       /\ \A j \in 1 .. Len(batch[c]) : batch[c][j].good

CallInv == \A c \in Callers : InPlace(c)

\* The topic of a message, and what the logs hold of it.
TopicOf(m) == ResolveTopic(batch[m[1]][m[2]].topic)
LogInv ==
  /\ \A w \in written : answer[w[1]] # "none" /\ w[2] = TopicOf(w[1])
  /\ \A m \in Callers \X Positions : answer[m] = "ok" => <<m, TopicOf(m)>> \in written

\* Only the messages of calls that returned nil are counted.
WrittenOk == {w \in written : pc[w[1][1]] = "ok"}
CountInv == IsFiniteSet(Counts) /\ Cardinality(Counts) <= Cardinality(WrittenOk)
=============================================================================
