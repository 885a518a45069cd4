------------------------------ MODULE VKConsumer ------------------------------
(***************************************************************************)
(* The consumer of VK user events                                          *)
(* (internal/adapters/secondary/kafka/vk_user_consumer.go): members of a   *)
(* consumer group that take turns in owning one partition.  A message whose *)
(* handler fails is logged and left unmarked, and the loop goes on; a mark *)
(* covers everything before it.                                            *)
(*                                                                         *)
(* sarama and the broker are external: the marks of a session are          *)
(* committed from time to time and when the session ends, a crash loses    *)
(* what was not committed, and a member that was evicted from the group    *)
(* goes on with its message while another one already owns the partition,  *)
(* but can commit no longer.                                               *)
(***************************************************************************)
EXTENDS Naturals, FiniteSets

CONSTANTS Members,      \* the processes of the group
          MaxMessages,  \* messages appended to the partition
          MaxFaults,    \* crashes, evictions and errors of Consume
          Poison        \* offsets whose value cannot be decoded

ASSUME VKConsumerAssumption == MaxMessages \in Nat /\ MaxFaults \in Nat

Offsets == 0 .. MaxMessages - 1
None == MaxMessages + 1
Marks == 0 .. MaxMessages

VARIABLES
  initial,    \* Consumer.Offsets.Initial of the group: "new" or "old"
  end,        \* the messages in the log are 0 .. end - 1
  owner,      \* the members in the current generation
  committed,  \* the group's offset at the broker, None before the first commit
  pc,         \* Run and ConsumeClaim of each member
  pos,        \* the next offset of the claim
  marked,     \* the offset its session has marked, None for nothing
  attempted,  \* messages a handler was called for
  accepted,   \* messages a handler accepted
  unseen,     \* messages a session with no committed offset started after
  faults

vars == <<initial, end, owner, committed, pc, pos, marked, attempted, accepted, unseen, faults>>

\* One type invariant.
TypeOK ==
  /\ initial \in {"new", "old"}
  /\ end \in Marks
  /\ owner \subseteq Members /\ Cardinality(owner) <= 1
  /\ committed \in Marks \cup {None}
  /\ pc \in [Members -> {"out", "claim", "handle", "sleep", "stopped"}]
  /\ pos \in [Members -> Marks]
  /\ marked \in [Members -> Marks \cup {None}]
  /\ attempted \subseteq Offsets /\ accepted \subseteq attempted
  /\ unseen \subseteq Offsets
  /\ faults \in 0 .. MaxFaults

Init ==
  /\ initial \in {"new", "old"}
  /\ end = 0 /\ owner = {} /\ committed = None
  /\ pc = [m \in Members |-> "out"]
  /\ pos = [m \in Members |-> 0]
  /\ marked = [m \in Members |-> None]
  /\ attempted = {} /\ accepted = {} /\ unseen = {} /\ faults = 0

Append ==
  /\ end < MaxMessages
  /\ end' = end + 1
  /\ UNCHANGED <<initial, owner, committed, pc, pos, marked, attempted, accepted, unseen, faults>>

-----------------------------------------------------------------------------
(* Run: Consume again and again.                                           *)

\* A bug: every session starts at the beginning of the log.
StartOffset_AlwaysOldest == 0

\* NewVKUserConsumer sets where a group without a committed offset starts.
StartOffset ==
  IF committed # None THEN committed ELSE IF initial = "old" THEN 0 ELSE end

\* Consume joins the group and starts the claim.
Join(m) ==
  /\ pc[m] = "out" /\ owner = {}
  /\ owner' = {m}
  /\ pc' = [pc EXCEPT ![m] = "claim"]
  /\ pos' = [pos EXCEPT ![m] = StartOffset]
  /\ marked' = [marked EXCEPT ![m] = None]
  /\ unseen' = IF committed = None THEN unseen \cup (0 .. StartOffset - 1) ELSE unseen
  /\ UNCHANGED <<initial, end, committed, attempted, accepted, faults>>

\* Consume returns an error: it is logged and tried again after a second.
ConsumeFails(m) ==
  /\ pc[m] = "out" /\ faults < MaxFaults
  /\ pc' = [pc EXCEPT ![m] = "sleep"]
  /\ faults' = faults + 1
  /\ UNCHANGED <<initial, end, owner, committed, pos, marked, attempted, accepted, unseen>>

\* A bug: an error of Consume ends Run.
SleepEnds_Returns(m) ==
  /\ pc[m] = "sleep"
  /\ pc' = [pc EXCEPT ![m] = "stopped"]
  /\ UNCHANGED <<initial, end, owner, committed, pos, marked, attempted, accepted, unseen, faults>>

SleepEnds(m) ==
  /\ pc[m] = "sleep"
  /\ pc' = [pc EXCEPT ![m] = "out"]
  /\ UNCHANGED <<initial, end, owner, committed, pos, marked, attempted, accepted, unseen, faults>>

\* Run returns when its context is done or the group is closed; the other
\* members go on.
RunReturns(m) ==
  /\ pc[m] = "out" /\ \E o \in Members \ {m} : pc[o] # "stopped"
  /\ pc' = [pc EXCEPT ![m] = "stopped"]
  /\ UNCHANGED <<initial, end, owner, committed, pos, marked, attempted, accepted, unseen, faults>>

-----------------------------------------------------------------------------
(* ConsumeClaim.                                                           *)

Receive(m) ==
  /\ pc[m] = "claim" /\ m \in owner /\ pos[m] < end
  /\ pc' = [pc EXCEPT ![m] = "handle"]
  /\ attempted' = attempted \cup {pos[m]}
  /\ UNCHANGED <<initial, end, owner, committed, pos, marked, accepted, unseen, faults>>

\* handleMessage succeeds: MarkMessage marks the offset after the message.
HandleOk(m) ==
  /\ pc[m] = "handle" /\ pos[m] \notin Poison
  /\ accepted' = accepted \cup {pos[m]}
  /\ marked' = [marked EXCEPT ![m] = pos[m] + 1]
  /\ pos' = [pos EXCEPT ![m] = @ + 1]
  /\ pc' = [pc EXCEPT ![m] = "claim"]
  /\ UNCHANGED <<initial, end, owner, committed, attempted, unseen, faults>>

\* A bug: the message whose handler failed is marked like the others.
HandleFails_Marks(m) ==
  /\ pc[m] = "handle"
  /\ marked' = [marked EXCEPT ![m] = pos[m] + 1]
  /\ pos' = [pos EXCEPT ![m] = @ + 1]
  /\ pc' = [pc EXCEPT ![m] = "claim"]
  /\ UNCHANGED <<initial, end, owner, committed, attempted, accepted, unseen, faults>>

\* Decoding or Accept fails: the loop continues with the next message.
HandleFails(m) ==
  /\ pc[m] = "handle"
  /\ pos' = [pos EXCEPT ![m] = @ + 1]
  /\ pc' = [pc EXCEPT ![m] = "claim"]
  /\ UNCHANGED <<initial, end, owner, committed, marked, attempted, accepted, unseen, faults>>

-----------------------------------------------------------------------------
(* The session at the broker.                                              *)

\* A commit is accepted from the current generation only.
Flush(m) ==
  committed' = IF m \in owner /\ marked[m] # None THEN marked[m] ELSE committed

AutoCommit(m) ==
  /\ pc[m] \in {"claim", "handle"} /\ marked[m] \notin {None, committed}
  /\ Flush(m)
  /\ UNCHANGED <<initial, end, owner, pc, pos, marked, attempted, accepted, unseen, faults>>

\* The session's context is done (a rebalance, Close, the end of the process):
\* ConsumeClaim returns between two messages and the marks are committed.
SessionEnds(m) ==
  /\ pc[m] = "claim" /\ (m \in owner => faults < MaxFaults)
  /\ Flush(m)
  /\ pc' = [pc EXCEPT ![m] = "out"]
  /\ marked' = [marked EXCEPT ![m] = None]
  /\ owner' = owner \ {m}
  /\ faults' = IF m \in owner THEN faults + 1 ELSE faults
  /\ UNCHANGED <<initial, end, pos, attempted, accepted, unseen>>

\* The handler takes too long: the group goes on without the member.
Evict(m) ==
  /\ m \in owner /\ faults < MaxFaults
  /\ owner' = {} /\ faults' = faults + 1
  /\ UNCHANGED <<initial, end, committed, pc, pos, marked, attempted, accepted, unseen>>

Crash(m) ==
  /\ pc[m] \in {"claim", "handle"} /\ faults < MaxFaults
  /\ pc' = [pc EXCEPT ![m] = "out"]
  /\ marked' = [marked EXCEPT ![m] = None]
  /\ owner' = owner \ {m} /\ faults' = faults + 1
  /\ UNCHANGED <<initial, end, committed, pos, attempted, accepted, unseen>>

-----------------------------------------------------------------------------
MemberStep(m) ==
  \/ Join(m) \/ SleepEnds(m) \/ Receive(m) \/ HandleOk(m) \/ HandleFails(m)
  \/ m \notin owner /\ SessionEnds(m)

Next ==
  \/ Append
  \/ \E m \in Members :
       MemberStep(m) \/ RunReturns(m) \/ ConsumeFails(m) \/ AutoCommit(m) \/ SessionEnds(m) \/ Evict(m) \/ Crash(m)

Fairness == \A m \in Members : WF_vars(MemberStep(m)) /\ WF_vars(AutoCommit(m))

Spec == Init /\ [][Next]_vars /\ Fairness

-----------------------------------------------------------------------------
\* The group passes over a message that nobody accepted only because a later
\* message was accepted: the last failed messages of the log are tried again.
PassedOverBehindSuccess ==
  committed # None =>
    \A i \in (0 .. committed - 1) \ (accepted \cup unseen) :
      \E j \in accepted : i < j /\ j < committed

\* A message is never passed over unread, unless the group had no committed
\* offset when the message was already in the log and started at the end.
NothingSkippedUnread ==
  committed # None =>
    \A i \in 0 .. committed - 1 : i \in attempted \/ (initial = "new" /\ i \in unseen)

\* The group's offset passes over a message only behind a later success, and over
\* a message nobody read only at a start at the newest one.
PassesOverForAReason == TypeOK /\ PassedOverBehindSuccess /\ NothingSkippedUnread

\* The group's offset never moves back, although evicted members still run.
CommittedOnlyGrows ==
  [][committed # None => committed' # None /\ committed' >= committed]_vars

\* The strengthening behind them: an offset is committed or marked behind a
\* message that was accepted, a claim has given everything before its position
\* to a handler or began behind it, and the owner is not behind the group.
MarksInv ==
  /\ committed # None => committed > 0 /\ committed - 1 \in accepted
  /\ \A m \in Members : marked[m] # None => marked[m] > 0 /\ marked[m] - 1 \in accepted

ClaimInv ==
  /\ initial = "old" => unseen = {}
  /\ committed # None => \A i \in 0 .. committed - 1 : i \in attempted \cup unseen
  /\ \A m \in Members : pc[m] \in {"claim", "handle"} =>
       /\ pos[m] <= end
       /\ pc[m] = "handle" => pos[m] < end /\ pos[m] \in attempted
       /\ marked[m] # None => marked[m] <= pos[m]
       /\ \A i \in 0 .. pos[m] - 1 : i \in attempted \cup unseen
  /\ committed # None => committed <= end

OwnerInv ==
  \A m \in owner :
    /\ owner = {m}
    /\ pc[m] \in {"claim", "handle"}
    /\ committed # None => /\ committed <= pos[m]
                           /\ marked[m] # None => committed <= marked[m]

\* With initial = "old" every message is given to a handler in the end, behind
\* poison as well, however often members crashed or were evicted before: a
\* member's return, an error of Consume or poison never leaves one behind.
EveryMessageIsAttempted ==
  \A i \in Offsets : i < end ~> i \in attempted

NoneIsForgotten == [](initial = "old") => EveryMessageIsAttempted
=============================================================================
