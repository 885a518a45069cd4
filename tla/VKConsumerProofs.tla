--------------------------- MODULE VKConsumerProofs ---------------------------
(***************************************************************************)
(* Proofs about VKConsumer, for any number of members of the group, any    *)
(* log, any poison and any number of crashes, evictions and errors.        *)
(***************************************************************************)
EXTENDS VKConsumer, FiniteSetTheorems, TLAPS

\* TypeOK with the owner as OwnerInv has it.
Types ==
  /\ initial \in {"new", "old"}
  /\ end \in Marks
  /\ owner \subseteq Members
  /\ committed \in Marks \cup {None}
  /\ pc \in [Members -> {"out", "claim", "handle", "sleep", "stopped"}]
  /\ pos \in [Members -> Marks]
  /\ marked \in [Members -> Marks \cup {None}]
  /\ attempted \subseteq Offsets /\ accepted \subseteq attempted
  /\ unseen \subseteq Offsets
  /\ faults \in 0 .. MaxFaults

IInv == Types /\ MarksInv /\ ClaimInv /\ OwnerInv

LEMMA Numbers ==
  /\ None \notin Marks /\ Marks \subseteq Nat /\ 0 \in Marks /\ MaxMessages \in Nat /\ MaxFaults \in Nat
  /\ \A n \in Marks : n < MaxMessages => n + 1 \in Marks /\ n \in Offsets
  /\ \A n \in Marks : 0 .. n - 1 \subseteq Offsets
  BY VKConsumerAssumption DEF None, Marks, Offsets

LEMMA InitInv == Init => IInv
  BY Numbers DEF Init, IInv, Types, MarksInv, ClaimInv, OwnerInv

-----------------------------------------------------------------------------
\* One step, action by action.
LEMMA AppendStep ==
  ASSUME IInv, Append
  PROVE  IInv'
  <1>1. end' = end + 1 /\ end' \in Marks /\ end \in Nat
    BY Numbers DEF IInv, Types, Append, Marks
  <1>2. UNCHANGED <<initial, owner, committed, pc, pos, marked, attempted, accepted, unseen, faults>>
    BY DEF Append
  <1>3. Types' /\ MarksInv' /\ OwnerInv'
    BY <1>1, <1>2 DEF IInv, Types, MarksInv, OwnerInv
  <1>4. \A n \in Marks : n <= end => n <= end'
    BY <1>1, Numbers
  <1>5. \A n \in Marks : n < end => n < end'
    BY <1>1, Numbers
  <1>6. ClaimInv'
    BY <1>2, <1>4, <1>5, Numbers DEF IInv, Types, ClaimInv
  <1>7. QED
    BY <1>3, <1>6 DEF IInv

\* What the group's committed offset becomes when m flushes its marks.
LEMMA FlushEffect ==
  ASSUME IInv, NEW m \in Members, pc[m] \in {"claim", "handle"}, Flush(m)
  PROVE  /\ committed' \in Marks \cup {None}
         /\ committed # None => committed' # None /\ committed <= committed'
         /\ committed' # None => /\ committed' > 0 /\ committed' - 1 \in accepted
                                 /\ \A i \in 0 .. committed' - 1 : i \in attempted \cup unseen
                                 /\ committed' <= end
         /\ committed' = committed \/ (m \in owner /\ committed' = marked[m] /\ marked[m] # None)
  <1>1. CASE m \in owner /\ marked[m] # None
    <2>1. committed' = marked[m] /\ marked[m] \in Marks
      BY <1>1 DEF Flush, IInv, Types
    <2>2. marked[m] > 0 /\ marked[m] - 1 \in accepted
      BY <1>1 DEF IInv, MarksInv
    <2>3. marked[m] <= pos[m] /\ pos[m] <= end /\ \A i \in 0 .. pos[m] - 1 : i \in attempted \cup unseen
      BY <1>1 DEF IInv, ClaimInv
    <2>4. marked[m] \in Nat /\ pos[m] \in Nat /\ end \in Nat
      BY <2>1, Numbers DEF IInv, Types
    <2>5. (\A i \in 0 .. marked[m] - 1 : i \in attempted \cup unseen) /\ marked[m] <= end
      BY <2>3, <2>4
    <2>6. committed # None => committed <= marked[m]
      BY <1>1 DEF IInv, OwnerInv
    <2>7. QED
      BY <1>1, <2>1, <2>2, <2>5, <2>6
  <1>2. CASE ~(m \in owner /\ marked[m] # None)
    <2>1. committed' = committed
      BY <1>2 DEF Flush
    <2>2. committed # None => committed \in Nat
      BY Numbers DEF IInv, Types
    <2>3. QED
      BY <2>1, <2>2 DEF IInv, Types, MarksInv, ClaimInv
  <1>3. QED
    BY <1>1, <1>2

LEMMA JoinStep ==
  ASSUME IInv, NEW m \in Members, Join(m)
  PROVE  IInv'
  <1>1. /\ owner' = {m} /\ pc' = [pc EXCEPT ![m] = "claim"]
        /\ pos' = [pos EXCEPT ![m] = StartOffset] /\ marked' = [marked EXCEPT ![m] = None]
        /\ unseen' = IF committed = None THEN unseen \cup (0 .. StartOffset - 1) ELSE unseen
        /\ UNCHANGED <<initial, end, committed, attempted, accepted, faults>>
    BY DEF Join
  <1>2. /\ StartOffset \in Marks /\ StartOffset <= end
        /\ committed # None => StartOffset = committed
        /\ committed = None /\ initial = "old" => StartOffset = 0
    BY Numbers DEF StartOffset, IInv, Types, ClaimInv
  <1>3. 0 .. StartOffset - 1 \subseteq Offsets /\ (StartOffset = 0 => 0 .. StartOffset - 1 = {})
    BY <1>2, Numbers
  <1>4. /\ \A i \in 0 .. StartOffset - 1 : i \in attempted \cup unseen'
        /\ unseen \subseteq unseen' /\ unseen' \subseteq Offsets
        /\ initial = "old" => unseen' = {}
    BY <1>1, <1>2, <1>3 DEF IInv, ClaimInv, Types
  <1>5. Types'
    BY <1>1, <1>2, <1>4 DEF IInv, Types
  <1>6. /\ pc'[m] = "claim" /\ pos'[m] = StartOffset /\ marked'[m] = None
        /\ \A o \in Members \ {m} : pc'[o] = pc[o] /\ pos'[o] = pos[o] /\ marked'[o] = marked[o]
    BY <1>1 DEF IInv, Types
  <1>7. MarksInv'
    BY <1>1, <1>6 DEF IInv, MarksInv
  <1>8. ClaimInv'
    BY <1>1, <1>2, <1>4, <1>6 DEF IInv, ClaimInv
  <1>9. committed # None => committed <= StartOffset
    BY <1>2, Numbers
  <1>10. OwnerInv'
    BY <1>1, <1>6, <1>9 DEF OwnerInv
  <1>11. QED
    BY <1>5, <1>7, <1>8, <1>10 DEF IInv

\* A member that owns nothing waits, leaves or tries again.
LEMMA OutsideStep ==
  ASSUME IInv, NEW m \in Members, ConsumeFails(m) \/ SleepEnds(m) \/ RunReturns(m)
  PROVE  IInv'
  <1>1. /\ pc[m] \notin {"claim", "handle"}
        /\ \E p \in {"out", "sleep", "stopped"} : pc' = [pc EXCEPT ![m] = p]
        /\ UNCHANGED <<initial, end, owner, committed, pos, marked, attempted, accepted, unseen>>
        /\ faults' \in 0 .. MaxFaults
    BY Numbers DEF ConsumeFails, SleepEnds, RunReturns, IInv, Types
  <1>2. Types'
    BY <1>1 DEF IInv, Types
  <1>3. \A o \in Members : pc'[o] \in {"claim", "handle"} => pc'[o] = pc[o]
    BY <1>1 DEF IInv, Types
  <1>4. m \notin owner /\ \A o \in owner : o \in Members /\ pc'[o] = pc[o]
    BY <1>1 DEF IInv, Types, OwnerInv
  <1>5. MarksInv' /\ ClaimInv' /\ OwnerInv'
    BY <1>1, <1>3, <1>4 DEF IInv, MarksInv, ClaimInv, OwnerInv
  <1>6. QED
    BY <1>2, <1>5 DEF IInv

LEMMA ReceiveStep ==
  ASSUME IInv, NEW m \in Members, Receive(m)
  PROVE  IInv'
  <1>1. /\ pc[m] = "claim" /\ pos[m] < end
        /\ pc' = [pc EXCEPT ![m] = "handle"] /\ attempted' = attempted \cup {pos[m]}
        /\ UNCHANGED <<initial, end, owner, committed, pos, marked, accepted, unseen, faults>>
    BY DEF Receive
  <1>2. pos[m] \in Offsets
    BY <1>1, Numbers, VKConsumerAssumption DEF IInv, Types, Marks, Offsets
  <1>3. Types'
    BY <1>1, <1>2 DEF IInv, Types
  <1>4. /\ pc'[m] = "handle" /\ pos[m] \in attempted' /\ attempted \subseteq attempted'
        /\ \A o \in Members \ {m} : pc'[o] = pc[o]
    BY <1>1 DEF IInv, Types
  <1>5. MarksInv' /\ OwnerInv'
    BY <1>1, <1>4 DEF IInv, Types, MarksInv, OwnerInv
  <1>6. ClaimInv'
    BY <1>1, <1>4 DEF IInv, ClaimInv
  <1>7. QED
    BY <1>3, <1>5, <1>6 DEF IInv

\* The claim goes on behind the message, which is marked if it was accepted.
LEMMA HandleStep ==
  ASSUME IInv, NEW m \in Members, HandleOk(m) \/ HandleFails(m)
  PROVE  IInv'
  <1>1. /\ pc[m] = "handle"
        /\ pos' = [pos EXCEPT ![m] = @ + 1] /\ pc' = [pc EXCEPT ![m] = "claim"]
        /\ UNCHANGED <<initial, end, owner, committed, attempted, unseen, faults>>
        /\ \/ marked' = [marked EXCEPT ![m] = pos[m] + 1] /\ accepted' = accepted \cup {pos[m]}
           \/ marked' = marked /\ accepted' = accepted
    BY DEF HandleOk, HandleFails
  <1>2. /\ pos[m] \in Marks /\ pos[m] \in Nat /\ pos[m] < end /\ end \in Nat
        /\ pos[m] \in attempted /\ end <= MaxMessages
        /\ \A i \in 0 .. pos[m] - 1 : i \in attempted \cup unseen
    BY <1>1, Numbers DEF IInv, Types, ClaimInv, Marks
  <1>3. pos[m] + 1 \in Marks /\ pos[m] + 1 # None /\ pos[m] + 1 <= end
        /\ \A i \in 0 .. (pos[m] + 1) - 1 : i \in attempted \cup unseen
    BY <1>2, Numbers DEF Marks, None
  <1>4. Types'
    BY <1>1, <1>2, <1>3 DEF IInv, Types
  <1>5. /\ pc'[m] = "claim" /\ pos'[m] = pos[m] + 1
        /\ marked'[m] = marked[m] \/ (marked'[m] = pos[m] + 1 /\ pos[m] \in accepted')
        /\ accepted \subseteq accepted'
        /\ \A o \in Members \ {m} : pc'[o] = pc[o] /\ pos'[o] = pos[o] /\ marked'[o] = marked[o]
    BY <1>1 DEF IInv, Types
  <1>6. marked'[m] # None => /\ marked'[m] > 0 /\ marked'[m] - 1 \in accepted'
                             /\ marked'[m] <= pos[m] + 1
    <2>1. CASE marked'[m] = marked[m]
      <3>1. marked[m] # None => marked[m] > 0 /\ marked[m] - 1 \in accepted
                                /\ marked[m] <= pos[m] /\ marked[m] \in Nat
        BY <1>1, Numbers DEF IInv, Types, MarksInv, ClaimInv
      <3>2. QED
        BY <1>2, <1>5, <2>1, <3>1
    <2>2. CASE marked'[m] = pos[m] + 1 /\ pos[m] \in accepted'
      <3>1. pos[m] + 1 > 0 /\ (pos[m] + 1) - 1 = pos[m] /\ pos[m] + 1 <= pos[m] + 1
        BY <1>2
      <3>2. QED
        BY <2>2, <3>1
    <2>3. QED
      BY <1>5, <2>1, <2>2
  <1>7. MarksInv'
    <2>1. committed' # None => committed' > 0 /\ committed' - 1 \in accepted'
      BY <1>1, <1>5 DEF IInv, MarksInv
    <2>2. \A o \in Members : marked'[o] # None => marked'[o] > 0 /\ marked'[o] - 1 \in accepted'
      BY <1>5, <1>6 DEF IInv, MarksInv
    <2>3. QED
      BY <2>1, <2>2 DEF MarksInv
  <1>8. ClaimInv'
    BY <1>1, <1>3, <1>5, <1>6 DEF IInv, ClaimInv
  <1>9. ASSUME m \in owner, committed # None
        PROVE  /\ committed <= pos[m] + 1
               /\ marked'[m] # None => committed <= marked'[m]
    <2>1. committed <= pos[m] /\ (marked[m] # None => committed <= marked[m]) /\ committed \in Nat
      BY <1>9, Numbers DEF IInv, Types, OwnerInv
    <2>2. committed <= pos[m] + 1
      BY <1>2, <2>1
    <2>3. QED
      BY <1>5, <2>1, <2>2
  <1>10. OwnerInv'
    BY <1>1, <1>5, <1>9 DEF IInv, Types, OwnerInv
  <1>11. QED
    BY <1>4, <1>7, <1>8, <1>10 DEF IInv

\* The broker takes a commit from the owner only.
LEMMA AutoCommitStep ==
  ASSUME IInv, NEW m \in Members, AutoCommit(m)
  PROVE  IInv'
  <1>1. /\ pc[m] \in {"claim", "handle"} /\ Flush(m)
        /\ UNCHANGED <<initial, end, owner, pc, pos, marked, attempted, accepted, unseen, faults>>
    BY DEF AutoCommit
  <1>2. /\ committed' \in Marks \cup {None}
        /\ committed' # None => /\ committed' > 0 /\ committed' - 1 \in accepted
                                /\ \A i \in 0 .. committed' - 1 : i \in attempted \cup unseen
                                /\ committed' <= end
        /\ committed' = committed \/ (m \in owner /\ committed' = marked[m] /\ marked[m] # None)
    BY <1>1, FlushEffect
  <1>3. Types' /\ MarksInv' /\ ClaimInv'
    BY <1>1, <1>2 DEF IInv, Types, MarksInv, ClaimInv
  <1>4. OwnerInv'
    <2>1. CASE committed' = committed
      BY <1>1, <2>1 DEF IInv, OwnerInv
    <2>2. CASE m \in owner /\ committed' = marked[m] /\ marked[m] # None
      <3>1. marked[m] <= pos[m] /\ owner = {m} /\ marked[m] <= marked[m]
        BY <1>1, <2>2, Numbers DEF IInv, Types, ClaimInv, OwnerInv
      <3>2. QED
        BY <1>1, <2>2, <3>1 DEF OwnerInv
    <2>3. QED
      BY <1>2, <2>1, <2>2
  <1>5. QED
    BY <1>3, <1>4 DEF IInv

\* A session ends: its marks are committed, unless the process crashed or the
\* group went on without the member; the partition is nobody's.
LEMMA LeaveStep ==
  ASSUME IInv, NEW m \in Members, SessionEnds(m) \/ Evict(m) \/ Crash(m)
  PROVE  IInv'
  <1>1. pc[m] \in {"claim", "handle"}
    BY DEF SessionEnds, Evict, Crash, IInv, OwnerInv
  <1>2. \A o \in owner : owner = {o}
    BY DEF IInv, OwnerInv
  <1>3. /\ committed' = committed \/ Flush(m)
        /\ \/ pc' = pc /\ marked' = marked /\ owner' = {}
           \/ /\ pc' = [pc EXCEPT ![m] = "out"] /\ marked' = [marked EXCEPT ![m] = None]
              /\ owner' = owner \ {m}
        /\ committed' # committed => m \in owner /\ owner' = owner \ {m}
        /\ UNCHANGED <<initial, end, pos, attempted, accepted, unseen>>
    BY DEF SessionEnds, Evict, Crash, Flush
  <1>4. faults' \in 0 .. MaxFaults
    BY Numbers DEF SessionEnds, Evict, Crash, IInv, Types
  <1>5. /\ committed' \in Marks \cup {None}
        /\ committed' # None => /\ committed' > 0 /\ committed' - 1 \in accepted
                                /\ \A i \in 0 .. committed' - 1 : i \in attempted \cup unseen
                                /\ committed' <= end
    BY <1>1, <1>3, FlushEffect DEF IInv, Types, MarksInv, ClaimInv
  <1>6. Types'
    BY <1>3, <1>4, <1>5 DEF IInv, Types
  <1>7. \A o \in Members : /\ pc'[o] = pc[o] \/ (o = m /\ pc'[o] = "out")
                           /\ marked'[o] \in {marked[o], None}
                           /\ o # m => marked'[o] = marked[o]
                           /\ pc'[o] # "out" => marked'[o] = marked[o]
    BY <1>1, <1>3 DEF IInv, Types
  <1>8. MarksInv'
    BY <1>3, <1>5, <1>7 DEF IInv, MarksInv
  <1>9. ClaimInv'
    <2> SUFFICES ASSUME NEW o \in Members, pc'[o] \in {"claim", "handle"}
                 PROVE  /\ pos'[o] <= end'
                        /\ pc'[o] = "handle" => pos'[o] < end' /\ pos'[o] \in attempted'
                        /\ marked'[o] # None => marked'[o] <= pos'[o]
                        /\ \A i \in 0 .. pos'[o] - 1 : i \in attempted' \cup unseen'
      BY <1>3, <1>5 DEF IInv, ClaimInv
    <2>1. pc'[o] = pc[o] /\ marked'[o] = marked[o]
      BY <1>7
    <2>2. QED
      BY <1>3, <2>1 DEF IInv, ClaimInv
  <1>10. OwnerInv'
    <2> SUFFICES ASSUME NEW o \in owner'
                 PROVE  /\ owner' = {o} /\ pc'[o] \in {"claim", "handle"}
                        /\ committed' # None =>
                             /\ committed' <= pos'[o]
                             /\ marked'[o] # None => committed' <= marked'[o]
      BY DEF OwnerInv
    <2>1. o \in owner /\ o # m /\ owner' = owner \ {m} /\ owner = {o} /\ o \in Members
      BY <1>2, <1>3 DEF IInv, Types
    <2>2. committed' = committed /\ owner' = owner
      BY <1>3, <2>1
    <2>3. pc'[o] = pc[o] /\ marked'[o] = marked[o] /\ pos'[o] = pos[o]
      BY <1>3, <1>7, <2>1
    <2>4. QED
      BY <2>1, <2>2, <2>3 DEF IInv, OwnerInv
  <1>11. QED
    BY <1>6, <1>8, <1>9, <1>10 DEF IInv

LEMMA NextInv == IInv /\ [Next]_vars => IInv'
  <1>1. IInv /\ UNCHANGED vars => IInv'
    BY DEF vars, IInv, Types, MarksInv, ClaimInv, OwnerInv
  <1>2. QED
    BY <1>1, AppendStep, JoinStep, OutsideStep, ReceiveStep, HandleStep, AutoCommitStep, LeaveStep
    DEF Next, MemberStep

-----------------------------------------------------------------------------
LEMMA InvImplies == IInv => PassesOverForAReason
  <1> SUFFICES ASSUME IInv PROVE PassesOverForAReason
    OBVIOUS
  <1>1. Cardinality(owner) <= 1
    <2>1. CASE owner = {}
      BY <2>1, FS_EmptySet
    <2>2. CASE owner # {}
      <3>1. PICK m \in owner : owner = {m}
        BY <2>2 DEF IInv, OwnerInv
      <3>2. Cardinality({m}) = 1
        BY FS_Singleton
      <3>3. QED
        BY <3>1, <3>2
    <2>3. QED
      BY <2>1, <2>2
  <1>2. TypeOK
    BY <1>1 DEF IInv, Types, TypeOK
  <1>3. PassedOverBehindSuccess
    <2> SUFFICES ASSUME committed # None,
                        NEW i \in (0 .. committed - 1) \ (accepted \cup unseen)
                 PROVE  \E j \in accepted : i < j /\ j < committed
      BY DEF PassedOverBehindSuccess
    <2>1. committed \in Nat /\ committed - 1 \in accepted /\ i # committed - 1
      BY Numbers DEF IInv, Types, MarksInv
    <2>2. i < committed - 1 /\ committed - 1 < committed
      BY <2>1
    <2>3. QED
      BY <2>1, <2>2
  <1>4. NothingSkippedUnread
    BY DEF IInv, Types, ClaimInv, NothingSkippedUnread
  <1>5. QED
    BY <1>2, <1>3, <1>4 DEF PassesOverForAReason

\* The group's offset passes over a message that no handler accepted only behind
\* one that was, and over one no handler saw only at a start at the newest message.
THEOREM PassedOver == Spec => []PassesOverForAReason
  <1>1. Init => IInv
    BY InitInv
  <1>2. IInv /\ [Next]_vars => IInv'
    BY NextInv
  <1>3. IInv => PassesOverForAReason
    BY InvImplies
  <1>4. QED
    BY <1>1, <1>2, <1>3, PTL DEF Spec

\* The group's offset never moves back, although an evicted member still marks.
THEOREM OffsetGrows == Spec => CommittedOnlyGrows
  <1> DEFINE Grows == committed # None => committed' # None /\ committed' >= committed
  <1>1. Init => IInv
    BY InitInv
  <1>2. IInv /\ [Next]_vars => IInv'
    BY NextInv
  <1>3. IInv /\ [Next]_vars => [Grows]_vars
    <2> SUFFICES ASSUME IInv, Next, committed # None
                 PROVE  committed' # None /\ committed <= committed' /\ committed' \in Nat
                        /\ committed \in Nat
      OBVIOUS
    <2>1. committed \in Nat
      BY Numbers DEF IInv, Types
    <2>2. CASE committed' = committed
      BY <2>1, <2>2
    <2>3. CASE \E m \in Members : pc[m] \in {"claim", "handle"} /\ Flush(m)
      <3>1. committed' # None /\ committed <= committed' /\ committed' \in Marks \cup {None}
        BY <2>3, FlushEffect
      <3>2. QED
        BY <2>1, <3>1, Numbers
    <2>4. QED
      BY <2>2, <2>3 DEF Next, MemberStep, Append, Join, ConsumeFails, SleepEnds, RunReturns,
         Receive, HandleOk, HandleFails, AutoCommit, SessionEnds, Evict, Crash
  <1>4. QED
    BY <1>1, <1>2, <1>3, PTL DEF Spec, CommittedOnlyGrows
=============================================================================
