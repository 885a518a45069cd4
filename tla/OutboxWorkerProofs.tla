------------------------- MODULE OutboxWorkerProofs -------------------------
(***************************************************************************)
(* Proofs about OutboxWorker, for every set of rows and workers, every     *)
(* batch size, lease and clock step.                                       *)
(***************************************************************************)
EXTENDS OutboxWorker, TLAPS

\* A wait that shrinks stays a natural number.
LEMMA MonusType ==
    ASSUME NEW n \in Nat, NEW d \in Nat
    PROVE  Monus(n, d) \in Nat
  BY DEF Monus

\* retryBackoff returns a number of seconds for every attempt.
LEMMA BackoffType ==
    ASSUME NEW n \in Nat
    PROVE  retryBackoff(n) \in Nat
  BY DEF retryBackoff

\* What is in the topic stays there, and the message that arrives joins it.
LEMMA DeliverEffect ==
    ASSUME TypeOK, NEW m \in Msg, Deliver(m)
    PROVE  \A x \in Msg : delivered'[x] > 0 <=> delivered[x] > 0 \/ x = m
  <1>1. delivered \in [Msg -> 0..2]
    BY DEF TypeOK
  <1>2. \A n \in 0..2 : CapAt(n + 1, 2) > 0
    BY DEF CapAt
  <1>3. delivered'[m] = CapAt(delivered[m] + 1, 2) /\ \A x \in Msg \ {m} : delivered'[x] = delivered[x]
    BY <1>1 DEF Deliver
  <1>4. delivered'[m] > 0
    BY <1>1, <1>2, <1>3
  <1>5. QED
    BY <1>3, <1>4

\* Leaving RunOnce keeps the types of the local variables.
LEMMA LeaveRunOnceType ==
    ASSUME TypeOK, NEW w \in Worker, LeaveRunOnce(w)
    PROVE  /\ pc' \in [Worker -> PC]
           /\ batch' \in [Worker -> SUBSET Msg]
           /\ snapshot' \in [Worker -> [Msg -> 0..AttemptCap]]
           /\ current' \in [Worker -> Msg \cup {NoMsg}]
           /\ leaseAge' \in [Worker -> 0..StaleAfter]
           /\ retryIn' \in [Worker -> Nat]
           /\ \A v \in Worker : pc'[v] \in {"marking", "failing"} => current'[v] \in Msg
  <1>1. [m \in Msg |-> 0] \in [Msg -> 0..AttemptCap]
    BY AttemptCapAssumption
  <1>2. QED
    BY <1>1, StaleAfterAssumption DEF TypeOK, LeaveRunOnce, PC

\* Going to the next message removes the current one from the batch, and
\* touches no other worker; the age of the lease is kept while rows are left.
LEMMA NextMessageEffect ==
    ASSUME TypeOK, NEW w \in Worker, NextMessage(w)
    PROVE  /\ pc' \in [Worker -> PC]
           /\ snapshot' \in [Worker -> [Msg -> 0..AttemptCap]]
           /\ current' \in [Worker -> Msg \cup {NoMsg}]
           /\ leaseAge' \in [Worker -> 0..StaleAfter]
           /\ retryIn' \in [Worker -> Nat]
           /\ batch' = [batch EXCEPT ![w] = batch[w] \ {current[w]}]
           /\ pc'[w] \in {"idle", "publishing"}
           /\ \A v \in Worker : pc'[v] \in {"marking", "failing"} => current'[v] \in Msg
           /\ pc'[w] = "idle" => batch'[w] = {}
           /\ batch'[w] # {} => leaseAge'[w] = leaseAge[w]
           /\ \A m \in batch'[w] : snapshot'[w][m] = snapshot[w][m]
           /\ \A v \in Worker \ {w} :
                /\ pc'[v] = pc[v]
                /\ current'[v] = current[v]
                /\ snapshot'[v] = snapshot[v]
                /\ leaseAge'[v] = leaseAge[v]
  <1> DEFINE rest == batch[w] \ {current[w]}
  <1>1. CASE rest = {}
    <2>1. LeaveRunOnce(w)
      BY <1>1 DEF NextMessage
    <2>2. batch' = [batch EXCEPT ![w] = rest]
      BY <2>1, <1>1 DEF LeaveRunOnce
    <2>3. QED
      BY <2>1, <2>2, <1>1, LeaveRunOnceType DEF TypeOK, LeaveRunOnce
  <1>2. CASE rest # {}
    <2>1. /\ batch' = [batch EXCEPT ![w] = rest]
          /\ pc' = [pc EXCEPT ![w] = "publishing"]
          /\ snapshot' = [snapshot EXCEPT ![w] =
                              [m \in Msg |-> IF m \in rest THEN snapshot[w][m] ELSE 0]]
          /\ current' = [current EXCEPT ![w] = NoMsg]
          /\ retryIn' = [retryIn EXCEPT ![w] = 0]
          /\ leaseAge' = leaseAge
      BY <1>2 DEF NextMessage
    <2>2. snapshot' \in [Worker -> [Msg -> 0..AttemptCap]]
      BY <2>1, AttemptCapAssumption DEF TypeOK
    <2>3. \A m \in rest : snapshot'[w][m] = snapshot[w][m]
      BY <2>1 DEF TypeOK
    <2>4. QED
      BY <2>1, <2>2, <2>3 DEF TypeOK, PC
  <1>3. QED
    BY <1>1, <1>2

-----------------------------------------------------------------------------
\* The initial state has its type.
LEMMA InitType == Init => TypeOK
  BY StaleAfterAssumption, AttemptCapAssumption DEF Init, TypeOK, Status, PC, NoTime

\* Every step keeps the type of every variable.
LEMMA NextType == TypeOK /\ [Next]_vars => TypeOK'
  <1> SUFFICES ASSUME TypeOK, [Next]_vars PROVE TypeOK'
    OBVIOUS
  <1>1. ASSUME NEW m \in Msg, Enqueue(m) PROVE TypeOK'
    <2>1. PICK S \in Elders :
            /\ older' = older \cup (S \X {m}) \cup ({m} \X (Rows \ S))
            /\ late' = late \cup ({m} \X {b \in Rows \ S : Claimed(b)})
      BY <1>1 DEF Enqueue
    <2>2. S \in SUBSET Msg /\ Rows \in SUBSET Msg
      BY DEF Elders, Rows
    <2>3. older' \in SUBSET (Msg \X Msg) /\ late' \in SUBSET (Msg \X Msg)
      BY <2>1, <2>2 DEF TypeOK
    <2>4. QED
      BY <1>1, <2>3, StaleAfterAssumption
      DEF Enqueue, TypeOK, Status, workers, history
  <1>2. ASSUME NEW w \in Worker, PickPending(w) PROVE TypeOK'
    <2>1. PICK S \in Picks :
            /\ batch' = [batch EXCEPT ![w] = S]
            /\ snapshot' = [snapshot EXCEPT ![w] =
                               [m \in Msg |-> IF m \in S THEN attempts[m] ELSE 0]]
      BY <1>2 DEF PickPending
    <2>2. S \in SUBSET Msg
      BY <2>1 DEF Picks, Pickable
    <2>3. [m \in Msg |-> IF m \in S THEN attempts[m] ELSE 0] \in [Msg -> 0..AttemptCap]
      BY AttemptCapAssumption DEF TypeOK
    <2>4. QED
      BY <1>2, <2>1, <2>2, <2>3, StaleAfterAssumption
      DEF PickPending, TypeOK, PC, table, history
  <1>3. ASSUME NEW w \in Worker, MarkProcessing(w)
        PROVE  /\ status' \in [Msg -> Status]
               /\ updatedAge' \in [Msg -> 0..StaleAfter]
               /\ nextWait' \in [Msg -> {NoTime} \cup Nat]
               /\ attempts' = attempts /\ publishedAt' = publishedAt /\ older' = older
    BY <1>3 DEF MarkProcessing, TypeOK, Status, NoTime
  <1>4. ASSUME NEW w \in Worker, ClaimCommit(w) PROVE TypeOK'
    BY <1>3, <1>4 DEF ClaimCommit, TypeOK, PC, history
  <1>5. ASSUME NEW w \in Worker, ClaimCommitLost(w) PROVE TypeOK'
    BY <1>3, <1>5, LeaveRunOnceType DEF ClaimCommitLost, TypeOK, history
  <1>6. ASSUME NEW w \in Worker, ClaimRollback(w) PROVE TypeOK'
    BY <1>6, LeaveRunOnceType DEF ClaimRollback, TypeOK, table, history
  <1>7. ASSUME NEW m \in Msg, Deliver(m) PROVE delivered' \in [Msg -> 0..2]
    <2>1. CapAt(delivered[m] + 1, 2) \in 0..2
      <3>1. delivered[m] \in 0..2
        BY DEF TypeOK
      <3>2. QED
        BY <3>1 DEF CapAt
    <2>2. QED
      BY <1>7, <2>1 DEF Deliver, TypeOK
  <1>8. ASSUME NEW w \in Worker, NEW m \in Msg, PublishOk(w, m) PROVE TypeOK'
    BY <1>7, <1>8 DEF PublishOk, TypeOK, PC, table, history
  <1>9. ASSUME NEW w \in Worker, NEW m \in Msg, PublishFails(w, m) PROVE TypeOK'
    <2>1. retryBackoff(snapshot[w][m] + 1) \in Nat
      BY BackoffType, AttemptCapAssumption DEF TypeOK
    <2>2. delivered' \in [Msg -> 0..2] /\ disturbed' \in SUBSET Msg
      BY <1>7, <1>9 DEF PublishFails, TypeOK
    <2>3. QED
      BY <1>9, <2>1, <2>2 DEF PublishFails, TypeOK, PC, table
  <1>10. ASSUME NEW m \in Msg, SetSent(m)
         PROVE  /\ status' \in [Msg -> Status]
                /\ updatedAge' \in [Msg -> 0..StaleAfter]
                /\ nextWait' \in [Msg -> {NoTime} \cup Nat]
                /\ publishedAt' \in SUBSET Msg
                /\ attempts' = attempts /\ older' = older
    BY <1>10, StaleAfterAssumption DEF SetSent, TypeOK, Status, NoTime
  <1>11. ASSUME NEW w \in Worker, NextMessage(w)
         PROVE  batch' \in [Worker -> SUBSET Msg]
    <2>1. batch' = [batch EXCEPT ![w] = batch[w] \ {current[w]}]
      BY <1>11, NextMessageEffect
    <2>2. QED
      BY <2>1 DEF TypeOK
  <1>12. ASSUME NEW w \in Worker, NEW m \in Msg, MarkSent(w, m) PROVE TypeOK'
    BY <1>10, <1>11, <1>12, NextMessageEffect DEF MarkSent, TypeOK, history
  <1>13. ASSUME NEW w \in Worker, MarkSentError(w) PROVE TypeOK'
    <2>1. current[w] \in Msg
      BY <1>13 DEF MarkSentError, TypeOK
    <2>2. CASE UNCHANGED table /\ disturbed' = disturbed \cup {current[w]}
      BY <1>13, <2>1, <2>2, LeaveRunOnceType DEF MarkSentError, TypeOK, table
    <2>3. CASE SetSent(current[w]) /\ UNCHANGED disturbed
      BY <1>10, <1>13, <2>1, <2>3, LeaveRunOnceType DEF MarkSentError, TypeOK
    <2>4. QED
      BY <1>13, <2>2, <2>3 DEF MarkSentError
  <1>14. ASSUME NEW w \in Worker, MarkFailed(w) PROVE TypeOK'
    <2>1. current[w] \in Msg /\ retryIn[w] \in Nat
      BY <1>14 DEF MarkFailed, TypeOK
    <2>2. CapAt(attempts[current[w]] + 1, AttemptCap) \in 0..AttemptCap
      BY <2>1, AttemptCapAssumption DEF CapAt, TypeOK
    <2>3. /\ status' \in [Msg -> Status]
          /\ updatedAge' \in [Msg -> 0..StaleAfter]
          /\ nextWait' \in [Msg -> {NoTime} \cup Nat]
          /\ attempts' \in [Msg -> 0..AttemptCap]
          /\ publishedAt' = publishedAt /\ older' = older
      BY <1>14, <2>1, <2>2, StaleAfterAssumption DEF MarkFailed, SetFailed, TypeOK, Status
    <2>4. QED
      BY <1>11, <1>14, <2>3, NextMessageEffect DEF MarkFailed, TypeOK, history
  <1>15. ASSUME NEW w \in Worker, MarkFailedIgnored(w) PROVE TypeOK'
    BY <1>11, <1>15, NextMessageEffect DEF MarkFailedIgnored, TypeOK, table, history
  <1>16. ASSUME NEW w \in Worker, Crash(w) PROVE TypeOK'
    BY <1>16, LeaveRunOnceType DEF Crash, TypeOK, table
  <1>17. ASSUME NEW d \in TimeSteps, Tick(d) PROVE TypeOK'
    <2>1. d \in Nat
      BY TimeStepsAssumption
    <2>2. /\ \A m \in Msg : CapAt(updatedAge[m] + d, StaleAfter) \in 0..StaleAfter
          /\ \A w \in Worker : CapAt(leaseAge[w] + d, StaleAfter) \in 0..StaleAfter
      BY <2>1, StaleAfterAssumption DEF CapAt, TypeOK
    <2>3. /\ \A w \in Worker : Monus(retryIn[w], d) \in Nat
          /\ \A m \in Msg : nextWait[m] # NoTime => Monus(nextWait[m], d) \in Nat
      BY <2>1, MonusType DEF TypeOK
    <2>4. updatedAge' \in [Msg -> 0..StaleAfter] /\ leaseAge' \in [Worker -> 0..StaleAfter]
      BY <1>17, <2>2, StaleAfterAssumption DEF Tick
    <2>5. nextWait' \in [Msg -> {NoTime} \cup Nat] /\ retryIn' \in [Worker -> Nat]
      BY <1>17, <2>3 DEF Tick
    <2>6. QED
      BY <1>17, <2>4, <2>5 DEF Tick, TypeOK
  <1>18. CASE UNCHANGED vars
    BY <1>18 DEF TypeOK, vars, table, workers, history
  <1>19. QED
    BY <1>1, <1>2, <1>4, <1>5, <1>6, <1>8, <1>9, <1>12, <1>13, <1>14, <1>15, <1>16,
       <1>17, <1>18
    DEF Next, WorkerStep

\* Type correctness: in every behaviour the columns of the table and the
\* local variables of RunOnce hold values of their types.
THEOREM TypeCorrect == Spec => []TypeOK
  BY InitType, NextType, PTL DEF Spec
-----------------------------------------------------------------------------
\* Idle workers have no batch and the current row is in the batch.
LEMMA BatchStep == TypeOK /\ BatchInv /\ [Next]_vars => BatchInv'
  <1> SUFFICES ASSUME TypeOK, BatchInv, [Next]_vars PROVE BatchInv'
    OBVIOUS
  <1> USE DEF BatchInv
  <1>1. ASSUME NEW m \in Msg, Enqueue(m) PROVE BatchInv'
    BY <1>1 DEF Enqueue, workers
  <1>2. ASSUME NEW w \in Worker, PickPending(w) PROVE BatchInv'
    BY <1>2 DEF PickPending, TypeOK
  <1>3. ASSUME NEW w \in Worker, ClaimCommit(w) PROVE BatchInv'
    BY <1>3 DEF ClaimCommit, TypeOK
  <1>4. ASSUME NEW w \in Worker, LeaveRunOnce(w) PROVE BatchInv'
    BY <1>4 DEF LeaveRunOnce, TypeOK
  <1>5. ASSUME NEW w \in Worker, NEW m \in Msg, PublishOk(w, m) \/ PublishFails(w, m)
        PROVE BatchInv'
    BY <1>5 DEF PublishOk, PublishFails, TypeOK
  <1>6. ASSUME NEW w \in Worker, NextMessage(w) PROVE BatchInv'
    <2>1. batch' = [batch EXCEPT ![w] = batch[w] \ {current[w]}]
      BY <1>6, NextMessageEffect
    <2>2. /\ pc'[w] \in {"idle", "publishing"}
          /\ pc'[w] = "idle" => batch'[w] = {}
          /\ \A v \in Worker \ {w} : pc'[v] = pc[v] /\ current'[v] = current[v]
      BY <1>6, NextMessageEffect
    <2>3. QED
      BY <2>1, <2>2 DEF TypeOK
  <1>7. ASSUME NEW d \in TimeSteps, Tick(d) PROVE BatchInv'
    BY <1>7 DEF Tick
  <1>8. CASE UNCHANGED vars
    BY <1>8 DEF vars, workers
  <1>9. QED
    BY <1>1, <1>2, <1>3, <1>4, <1>5, <1>6, <1>7, <1>8
    DEF Next, WorkerStep, ClaimCommitLost, ClaimRollback, MarkSent, MarkSentError,
        MarkFailed, MarkFailedIgnored, Crash

\* A row that some worker holds within its lease is not pickable: either the
\* open claim transaction locks it, or its lease is younger than StaleAfter.
LEMMA HeldIsNotPickable ==
    ASSUME TypeOK, LeaseInv, NEW m \in Msg \ overrun, NEW w \in Worker, Holds(w, m)
    PROVE  m \notin Pickable
  <1>1. CASE pc[w] = "claiming"
    BY <1>1 DEF Pickable, LockedBy, Holds
  <1>2. CASE pc[w] # "claiming"
    <2>1. status[m] = "processing" /\ updatedAge[m] = leaseAge[w] /\ leaseAge[w] < StaleAfter
      BY <1>2 DEF LeaseInv
    <2>2. leaseAge[w] \in Nat
      BY DEF TypeOK
    <2>3. ~Due(m)
      BY <2>1, <2>2, StaleAfterAssumption DEF Due
    <2>4. QED
      BY <2>3 DEF Pickable
  <1>3. QED
    BY <1>1, <1>2

\* The lease invariant of one row and one worker that holds it.
LeaseOf(w, m) ==
    /\ \A v \in Worker : Holds(v, m) => v = w
    /\ leaseAge[w] < StaleAfter
    /\ snapshot[w][m] = attempts[m]
    /\ status[m] \notin {"absent", "sent"}
    /\ pc[w] # "claiming" => status[m] = "processing" /\ updatedAge[m] = leaseAge[w]

\* A worker that leaves RunOnce, or goes to its next message, having changed
\* no row but its current one, leaves the leases of the others as they are.
LEMMA OthersKeepLease ==
    ASSUME TypeOK, BatchInv, LeaseInv, NEW u \in Worker,
           LeaveRunOnce(u) \/ NextMessage(u),
           pc[u] # "claiming",
           \A x \in Msg : (pc[u] \in {"marking", "failing"} => x # current[u]) =>
               /\ status'[x] = status[x]
               /\ attempts'[x] = attempts[x]
               /\ updatedAge'[x] = updatedAge[x],
           pc[u] \notin {"marking", "failing"} => LeaveRunOnce(u),
           NEW m \in Msg \ overrun, NEW w \in Worker, Holds(w, m)'
    PROVE  LeaseOf(w, m)'
  <1>1. /\ \A v \in Worker : batch'[v] \subseteq batch[v]
        /\ \A v \in Worker \ {u} : /\ pc'[v] = pc[v]
                                   /\ snapshot'[v] = snapshot[v]
                                   /\ leaseAge'[v] = leaseAge[v]
    <2>1. CASE LeaveRunOnce(u)
      BY <2>1 DEF LeaveRunOnce, TypeOK
    <2>2. CASE NextMessage(u)
      <3>1. batch' = [batch EXCEPT ![u] = batch[u] \ {current[u]}]
        BY <2>2, NextMessageEffect
      <3>2. \A v \in Worker \ {u} : /\ pc'[v] = pc[v]
                                    /\ snapshot'[v] = snapshot[v]
                                    /\ leaseAge'[v] = leaseAge[v]
        BY <2>2, NextMessageEffect
      <3>3. QED
        BY <3>1, <3>2 DEF TypeOK
    <2>3. QED
      BY <2>1, <2>2
  <1>2. LeaseOf(w, m)
    BY <1>1 DEF LeaseInv, LeaseOf, Holds
  <1>3. CASE w = u
    <2>1. NextMessage(u) /\ pc[u] \in {"marking", "failing"}
      BY <1>3 DEF LeaveRunOnce, Holds, TypeOK
    <2>2. batch' = [batch EXCEPT ![u] = batch[u] \ {current[u]}]
      BY <2>1, NextMessageEffect
    <2>3. m \in batch'[u] /\ m # current[u]
      BY <1>3, <2>2 DEF Holds, TypeOK
    <2>4. leaseAge'[u] = leaseAge[u] /\ snapshot'[u][m] = snapshot[u][m]
      BY <2>1, <2>3, NextMessageEffect
    <2>5. QED
      BY <1>1, <1>2, <1>3, <2>1, <2>3, <2>4 DEF LeaseOf, Holds
  <1>4. CASE w # u
    <2>1. m \notin batch[u]
      BY <1>1, <1>2, <1>4 DEF LeaseOf, Holds
    <2>2. pc[u] \in {"marking", "failing"} => m # current[u]
      BY <2>1 DEF BatchInv
    <2>3. QED
      BY <1>1, <1>2, <1>4, <2>1, <2>2 DEF LeaseOf, Holds
  <1>5. QED
    BY <1>3, <1>4
\* Every step keeps the lease invariant.
LEMMA LeaseStep == TypeOK /\ BatchInv /\ LeaseInv /\ [Next]_vars => LeaseInv'
  <1> SUFFICES ASSUME TypeOK, BatchInv, LeaseInv, [Next]_vars,
                      NEW m \in Msg \ overrun', NEW w \in Worker, Holds(w, m)'
               PROVE  LeaseOf(w, m)'
    BY DEF LeaseInv, LeaseOf
  <1>0. ASSUME Holds(w, m), m \notin overrun PROVE LeaseOf(w, m)
    BY <1>0 DEF LeaseInv, LeaseOf
  <1>1. ASSUME NEW x \in Msg, Enqueue(x) PROVE LeaseOf(w, m)'
    BY <1>0, <1>1 DEF Enqueue, LeaseOf, Holds, TypeOK, workers, history
  <1>2. ASSUME NEW u \in Worker, PickPending(u) PROVE LeaseOf(w, m)'
    <2>1. PICK S \in Picks :
            /\ batch' = [batch EXCEPT ![u] = S]
            /\ snapshot' = [snapshot EXCEPT ![u] =
                               [x \in Msg |-> IF x \in S THEN attempts[x] ELSE 0]]
      BY <1>2 DEF PickPending
    <2>2. S \subseteq Pickable /\ m \notin overrun
      BY <1>2, <2>1 DEF Picks, PickPending, history
    <2>3. CASE w = u
      <3>1. m \in S
        BY <2>1, <2>3 DEF Holds, TypeOK
      <3>2. \A v \in Worker : ~Holds(v, m)
        BY <2>2, <3>1, HeldIsNotPickable
      <3>3. status[m] \notin {"absent", "sent"}
        BY <2>2, <3>1 DEF Pickable, Due
      <3>4. \A v \in Worker : Holds(v, m)' => v = w
        BY <2>1, <2>3, <3>2 DEF Holds, TypeOK
      <3>5. /\ leaseAge'[w] = 0 /\ pc'[w] = "claiming" /\ status' = status
            /\ attempts' = attempts /\ snapshot'[w][m] = attempts[m]
        BY <1>2, <2>1, <2>3, <3>1 DEF PickPending, TypeOK, table
      <3>6. QED
        BY <3>3, <3>4, <3>5, StaleAfterAssumption DEF LeaseOf
    <2>4. CASE w # u
      <3>1. Holds(w, m)
        BY <2>1, <2>4 DEF Holds, TypeOK
      <3>2. m \notin S
        BY <2>2, <3>1, HeldIsNotPickable
      <3>3. \A v \in Worker : Holds(v, m)' => Holds(v, m)
        BY <2>1, <3>2 DEF Holds, TypeOK
      <3>4. QED
        BY <1>0, <1>2, <2>1, <2>2, <2>4, <3>1, <3>3
        DEF PickPending, LeaseOf, Holds, TypeOK, table
    <2>5. QED
      BY <2>3, <2>4
  <1>3. ASSUME NEW u \in Worker, ClaimCommit(u) PROVE LeaseOf(w, m)'
    <2>1. /\ batch' = batch /\ snapshot' = snapshot /\ leaseAge' = leaseAge
          /\ overrun' = overrun /\ pc' = [pc EXCEPT ![u] = "publishing"]
      BY <1>3 DEF ClaimCommit, history
    <2>2. LeaseOf(w, m)
      BY <1>0, <2>1 DEF Holds
    <2>3. CASE w = u
      BY <1>3, <2>1, <2>2, <2>3 DEF ClaimCommit, MarkProcessing, LeaseOf, Holds, TypeOK
    <2>4. CASE w # u
      <3>1. m \notin batch[u]
        BY <2>2, <2>4 DEF LeaseOf, Holds
      <3>2. QED
        BY <1>3, <2>1, <2>2, <2>4, <3>1
        DEF ClaimCommit, MarkProcessing, LeaseOf, Holds, TypeOK
    <2>5. QED
      BY <2>3, <2>4
  <1>4. ASSUME NEW u \in Worker, ClaimCommitLost(u) \/ ClaimRollback(u) PROVE LeaseOf(w, m)'
    <2>1. w # u /\ Holds(w, m) /\ m \notin overrun
      BY <1>4 DEF ClaimCommitLost, ClaimRollback, LeaveRunOnce, Holds, TypeOK, history
    <2>2. LeaseOf(w, m) /\ m \notin batch[u]
      BY <1>0, <2>1 DEF LeaseOf, Holds
    <2>3. /\ status'[m] = status[m] /\ updatedAge'[m] = updatedAge[m]
          /\ attempts'[m] = attempts[m]
      BY <1>4, <2>2 DEF ClaimCommitLost, ClaimRollback, MarkProcessing, table
    <2>4. LeaveRunOnce(u)
      BY <1>4 DEF ClaimCommitLost, ClaimRollback
    <2>5. QED
      BY <2>1, <2>2, <2>3, <2>4 DEF LeaveRunOnce, LeaseOf, Holds, TypeOK
  <1>5. ASSUME NEW u \in Worker, NEW x \in Msg, PublishOk(u, x) \/ PublishFails(u, x)
        PROVE LeaseOf(w, m)'
    <2>1. /\ batch' = batch /\ snapshot' = snapshot /\ leaseAge' = leaseAge
          /\ overrun' = overrun /\ status' = status /\ attempts' = attempts
          /\ updatedAge' = updatedAge
          /\ \A v \in Worker : pc[v] = "claiming" => pc'[v] = "claiming"
      BY <1>5 DEF PublishOk, PublishFails, table, history, TypeOK
    <2>2. \A v \in Worker : pc'[v] # "claiming" => pc[v] # "claiming"
      BY <2>1
    <2>3. QED
      BY <1>0, <2>1, <2>2 DEF LeaseOf, Holds
  <1>6. ASSUME NEW u \in Worker, NEW x \in Msg, MarkSent(u, x) PROVE LeaseOf(w, m)'
    BY <1>6, OthersKeepLease DEF MarkSent, SetSent, history, TypeOK
  <1>7. ASSUME NEW u \in Worker, MarkSentError(u) PROVE LeaseOf(w, m)'
    BY <1>7, OthersKeepLease DEF MarkSentError, SetSent, table, TypeOK
  <1>8. ASSUME NEW u \in Worker, MarkFailed(u) PROVE LeaseOf(w, m)'
    BY <1>8, OthersKeepLease DEF MarkFailed, SetFailed, history, TypeOK
  <1>9. ASSUME NEW u \in Worker, MarkFailedIgnored(u) PROVE LeaseOf(w, m)'
    BY <1>9, OthersKeepLease DEF MarkFailedIgnored, table, history
  <1>10. ASSUME NEW u \in Worker, Crash(u) PROVE LeaseOf(w, m)'
    <2>1. w # u /\ Holds(w, m) /\ m \notin overrun
      BY <1>10 DEF Crash, LeaveRunOnce, Holds, TypeOK
    <2>2. QED
      BY <1>0, <1>10, <2>1 DEF Crash, LeaveRunOnce, LeaseOf, Holds, TypeOK, table
  <1>11. ASSUME NEW d \in TimeSteps, Tick(d) PROVE LeaseOf(w, m)'
    <2>1. d \in Nat /\ Holds(w, m) /\ m \notin overrun
      BY <1>11, TimeStepsAssumption DEF Tick, Holds
    <2>2. leaseAge[w] + d < StaleAfter
      <3>1. ~(leaseAge[w] + d >= StaleAfter)
        BY <1>11, <2>1 DEF Tick
      <3>2. QED
        BY <2>1, <3>1, StaleAfterAssumption DEF TypeOK
    <2>3. pc[w] # "idle"
      BY <2>1 DEF BatchInv, Holds
    <2>4. leaseAge'[w] = leaseAge[w] + d
      BY <1>11, <2>1, <2>2, <2>3, StaleAfterAssumption DEF Tick, CapAt, TypeOK
    <2>5. updatedAge[m] = leaseAge[w] => updatedAge'[m] = leaseAge[w] + d
      BY <1>11, <2>1, <2>2, StaleAfterAssumption DEF Tick, CapAt, TypeOK
    <2>6. QED
      BY <1>0, <1>11, <2>1, <2>2, <2>4, <2>5 DEF Tick, LeaseOf, Holds
  <1>12. CASE UNCHANGED vars
    BY <1>0, <1>12 DEF vars, table, workers, history, LeaseOf, Holds
  <1>13. QED
    BY <1>1, <1>2, <1>3, <1>4, <1>5, <1>6, <1>7, <1>8, <1>9, <1>10, <1>11, <1>12
    DEF Next, WorkerStep
\* Type, batch and lease invariants together are inductive.
LEMMA LeaseInductive == Spec => [](TypeOK /\ BatchInv /\ LeaseInv)
  <1>1. Init => TypeOK /\ BatchInv /\ LeaseInv
    BY InitType DEF Init, BatchInv, LeaseInv, Holds
  <1>2. TypeOK /\ BatchInv /\ LeaseInv /\ [Next]_vars => (TypeOK /\ BatchInv /\ LeaseInv)'
    BY NextType, BatchStep, LeaseStep
  <1>3. QED
    BY <1>1, <1>2, PTL DEF Spec

\* At most one worker works on a row whose lease never overran.
THEOREM LeaseExclusion == Spec => []LeaseExclusive
  <1>1. LeaseInv => LeaseExclusive
    BY DEF LeaseInv, LeaseExclusive
  <1>2. QED
    BY <1>1, LeaseInductive, PTL

\* The attempt count in memory is the one in the table until a lease overruns.
THEOREM SnapshotAgreement == Spec => []SnapshotIsCurrent
  <1>1. LeaseInv => SnapshotIsCurrent
    BY DEF LeaseInv, SnapshotIsCurrent
  <1>2. QED
    BY <1>1, LeaseInductive, PTL

-----------------------------------------------------------------------------
\* A step leaves a sent row sent unless its lease overran: whoever could
\* write the row holds it, and nobody holds a sent row within the lease.
LEMMA SentStep ==
    ASSUME TypeOK, BatchInv, LeaseInv, [Next]_vars,
           NEW m \in Msg \ overrun, status[m] = "sent"
    PROVE  status'[m] = "sent"
  <1>1. \A w \in Worker : m \notin batch[w]
    BY DEF LeaseInv, Holds
  <1>2. \A w \in Worker : pc[w] \in {"marking", "failing"} => current[w] # m
    BY <1>1 DEF BatchInv
  <1>3. ASSUME NEW x \in Msg, Enqueue(x) PROVE status'[m] = "sent"
    BY <1>3 DEF Enqueue, TypeOK
  <1>4. ASSUME NEW w \in Worker, MarkProcessing(w) PROVE status'[m] = "sent"
    BY <1>1, <1>4 DEF MarkProcessing
  <1>5. ASSUME NEW w \in Worker, WorkerStep(w) PROVE status'[m] = "sent"
    <2>1. ASSUME NEW x \in Msg, MarkSent(w, x) PROVE status'[m] = "sent"
      BY <2>1 DEF MarkSent, SetSent, TypeOK
    <2>2. CASE MarkSentError(w)
      BY <2>2 DEF MarkSentError, SetSent, TypeOK, table
    <2>3. CASE MarkFailed(w)
      BY <1>2, <2>3 DEF MarkFailed, SetFailed, TypeOK
    <2>4. QED
      BY <1>4, <1>5, <2>1, <2>2, <2>3
      DEF WorkerStep, PickPending, ClaimCommit, ClaimCommitLost, ClaimRollback, PublishOk,
          PublishFails, MarkFailedIgnored, Crash, table
  <1>6. ASSUME NEW d \in TimeSteps, Tick(d) PROVE status'[m] = "sent"
    BY <1>6 DEF Tick
  <1>7. QED
    BY <1>3, <1>5, <1>6 DEF Next, vars, table

\* sent is final for a row whose lease never overran.
THEOREM SentFinality == Spec => SentIsFinal
  <1>1. TypeOK /\ BatchInv /\ LeaseInv /\ [Next]_vars =>
          [\A m \in Msg \ overrun : status[m] = "sent" => status'[m] = "sent"]_vars
    BY SentStep
  <1>2. QED
    BY <1>1, LeaseInductive, PTL DEF Spec, SentIsFinal

-----------------------------------------------------------------------------
\* The copy of an undisturbed row stays accounted for.
LEMMA OnceStep ==
    TypeOK /\ BatchInv /\ LeaseInv /\ OnceInv /\ [Next]_vars => OnceInv'
  <1> DEFINE Marker(m) == \E w \in Worker : pc[w] = "marking" /\ current[w] = m
  <1> SUFFICES ASSUME TypeOK, BatchInv, LeaseInv, OnceInv, [Next]_vars,
                      NEW m \in Msg \ (overrun' \cup disturbed')
               PROVE  /\ delivered'[m] <= 1
                      /\ delivered'[m] = 1 => status'[m] = "sent" \/ Marker(m)'
    BY DEF OnceInv
  <1>1. m \notin overrun \cup disturbed
    BY DEF Next, WorkerStep, Enqueue, PickPending, ClaimCommit, ClaimCommitLost,
           ClaimRollback, PublishOk, PublishFails, MarkSent, MarkSentError, MarkFailed,
           MarkFailedIgnored, Crash, Tick, vars, history
  <1>2. delivered[m] <= 1 /\ (delivered[m] = 1 => status[m] = "sent" \/ Marker(m))
    BY <1>1 DEF OnceInv
  <1>3. status[m] = "sent" => status'[m] = "sent"
    BY <1>1, SentStep
  <1>4. ASSUME NEW u \in Worker, PublishOk(u, m)
        PROVE delivered'[m] = 1 /\ Marker(m)'
    <2>1. status[m] = "processing"
      BY <1>1, <1>4 DEF PublishOk, LeaseInv, Holds
    <2>2. ~Marker(m)
      BY <1>1, <1>4 DEF PublishOk, LeaseInv, BatchInv, Holds
    <2>3. delivered[m] = 0
      BY <1>2, <2>1, <2>2 DEF TypeOK
    <2>4. delivered'[m] = 1
      BY <1>4, <2>3 DEF PublishOk, Deliver, CapAt, TypeOK
    <2>5. pc'[u] = "marking" /\ current'[u] = m
      BY <1>4 DEF PublishOk, TypeOK
    <2>6. QED
      BY <2>4, <2>5
  <1>5. ASSUME ~\E u \in Worker : PublishOk(u, m)
        PROVE delivered'[m] = delivered[m]
    <2>1. ASSUME NEW u \in Worker, NEW x \in Msg, PublishOk(u, x) PROVE x # m
      BY <1>5, <2>1
    <2>2. ASSUME NEW u \in Worker, NEW x \in Msg, PublishFails(u, x)
          PROVE delivered'[m] = delivered[m]
      BY <2>2 DEF PublishFails, Deliver, TypeOK
    <2>3. ASSUME NEW u \in Worker, NEW x \in Msg, PublishOk(u, x)
          PROVE delivered'[m] = delivered[m]
      BY <2>1, <2>3 DEF PublishOk, Deliver, TypeOK
    <2>4. QED
      BY <2>2, <2>3 DEF Next, WorkerStep, Enqueue, PickPending, ClaimCommit, ClaimCommitLost,
           ClaimRollback, MarkSent, MarkSentError, MarkFailed, MarkFailedIgnored, Crash,
           Tick, vars, history
  <1>6. ASSUME Marker(m) PROVE status'[m] = "sent" \/ Marker(m)'
    <2>1. PICK w \in Worker : pc[w] = "marking" /\ current[w] = m
      BY <1>6
    <2>2. ASSUME NEW u \in Worker, WorkerStep(u), u # w
          PROVE  pc'[w] = pc[w] /\ current'[w] = current[w]
      <3>1. ASSUME LeaveRunOnce(u) PROVE pc'[w] = pc[w] /\ current'[w] = current[w]
        BY <2>2, <3>1 DEF LeaveRunOnce, TypeOK
      <3>2. ASSUME NextMessage(u) PROVE pc'[w] = pc[w] /\ current'[w] = current[w]
        BY <2>2, <3>2, NextMessageEffect
      <3>3. QED
        BY <2>2, <3>1, <3>2
        DEF WorkerStep, PickPending, ClaimCommit, ClaimCommitLost, ClaimRollback, PublishOk,
            PublishFails, MarkSent, MarkSentError, MarkFailed, MarkFailedIgnored, Crash, TypeOK
    <2>3. ASSUME WorkerStep(w) PROVE status'[m] = "sent"
      <3>1. (\E x \in Msg : MarkSent(w, x)) \/ MarkSentError(w) \/ Crash(w)
        BY <2>1, <2>3
        DEF WorkerStep, PickPending, ClaimCommit, ClaimCommitLost, ClaimRollback, PublishOk,
            PublishFails, MarkFailed, MarkFailedIgnored
      <3>2. ~Crash(w)
        BY <2>1 DEF Crash
      <3>3. SetSent(m)
        BY <2>1, <3>1, <3>2 DEF MarkSent, MarkSentError
      <3>4. QED
        BY <3>3 DEF SetSent, TypeOK
    <2>4. ASSUME ~\E u \in Worker : WorkerStep(u)
          PROVE  pc'[w] = pc[w] /\ current'[w] = current[w]
      BY <2>4 DEF Next, Enqueue, Tick, vars, workers
    <2>5. QED
      BY <2>1, <2>2, <2>3, <2>4
  <1>7. QED
    BY <1>2, <1>3, <1>4, <1>5, <1>6

\* A row is published once, unless its lease overran or an outcome was lost.
THEOREM AtMostOnce == Spec => []OnceUnlessDisturbed
  <1>1. Init => OnceInv
    BY DEF Init, OnceInv
  <1>2. OnceInv => OnceUnlessDisturbed
    BY DEF OnceInv, OnceUnlessDisturbed
  <1>3. QED
    BY <1>1, <1>2, OnceStep, LeaseInductive, PTL DEF Spec
-----------------------------------------------------------------------------
\* What a step does to the three facts OutboxDelivery speaks of: it inserts
\* rows, delivers rows that exist, or confirms rows that were delivered, one
\* row and one kind of fact at a time.
LEMMA DeliveryStep ==
    ASSUME TypeOK, BatchInv, SentInv, [Next]_vars
    PROVE  \/ \E m \in Msg :
                /\ status[m] = "absent"
                /\ \A x \in Msg : status'[x] # "absent" <=> status[x] # "absent" \/ x = m
                /\ delivered' = delivered /\ publishedAt' = publishedAt
           \/ \E m \in Msg :
                /\ status[m] # "absent"
                /\ status' = status
                /\ \A x \in Msg : delivered'[x] > 0 <=> delivered[x] > 0 \/ x = m
                /\ publishedAt' = publishedAt
           \/ \E m \in Msg :
                /\ delivered[m] > 0
                /\ \A x \in Msg : status'[x] # "absent" <=> status[x] # "absent"
                /\ delivered' = delivered
                /\ publishedAt' = publishedAt \cup {m}
           \/ /\ \A x \in Msg : status'[x] # "absent" <=> status[x] # "absent"
              /\ delivered' = delivered /\ publishedAt' = publishedAt
  <1> DEFINE Same == /\ \A x \in Msg : status'[x] # "absent" <=> status[x] # "absent"
                     /\ delivered' = delivered /\ publishedAt' = publishedAt
             Arrives == \E m \in Msg :
                          /\ status[m] # "absent"
                          /\ status' = status
                          /\ \A x \in Msg : delivered'[x] > 0 <=> delivered[x] > 0 \/ x = m
                          /\ publishedAt' = publishedAt
             Confirms == \E m \in Msg :
                           /\ delivered[m] > 0
                           /\ \A x \in Msg : status'[x] # "absent" <=> status[x] # "absent"
                           /\ delivered' = delivered
                           /\ publishedAt' = publishedAt \cup {m}
  <1>1. ASSUME NEW m \in Msg, Enqueue(m)
        PROVE  /\ status[m] = "absent"
               /\ \A x \in Msg : status'[x] # "absent" <=> status[x] # "absent" \/ x = m
               /\ delivered' = delivered /\ publishedAt' = publishedAt
    BY <1>1 DEF Enqueue, TypeOK
  <1>2. ASSUME NEW w \in Worker, PickPending(w) \/ ClaimRollback(w) \/ MarkFailedIgnored(w) \/ Crash(w)
        PROVE  Same
    BY <1>2 DEF PickPending, ClaimRollback, MarkFailedIgnored, Crash, table
  <1>3. ASSUME NEW w \in Worker, ClaimCommit(w) \/ ClaimCommitLost(w) PROVE Same
    BY <1>3 DEF ClaimCommit, ClaimCommitLost, MarkProcessing, SentInv
  <1>4. ASSUME NEW m \in Msg, Deliver(m)
        PROVE  \A x \in Msg : delivered'[x] > 0 <=> delivered[x] > 0 \/ x = m
    BY <1>4, DeliverEffect
  <1>5. ASSUME NEW w \in Worker, NEW m \in Msg, PublishOk(w, m) PROVE Arrives
    BY <1>4, <1>5 DEF PublishOk, table, SentInv
  <1>6. ASSUME NEW w \in Worker, NEW m \in Msg, PublishFails(w, m) PROVE Arrives \/ Same
    BY <1>4, <1>6 DEF PublishFails, table, SentInv
  <1>7. ASSUME NEW w \in Worker, pc[w] = "marking", SetSent(current[w]), delivered' = delivered
        PROVE  Confirms
    <2>1. current[w] \in Msg /\ delivered[current[w]] > 0 /\ status[current[w]] # "absent"
      BY <1>7 DEF SentInv, BatchInv, TypeOK
    <2>2. \A x \in Msg : status'[x] # "absent" <=> status[x] # "absent"
      BY <1>7, <2>1 DEF SetSent, TypeOK
    <2>3. QED
      BY <1>7, <2>1, <2>2 DEF SetSent
  <1>8. ASSUME NEW w \in Worker, NEW m \in Msg, MarkSent(w, m) PROVE Confirms
    BY <1>7, <1>8 DEF MarkSent
  <1>9. ASSUME NEW w \in Worker, MarkSentError(w) PROVE Confirms \/ Same
    BY <1>7, <1>9 DEF MarkSentError, table
  <1>10. ASSUME NEW w \in Worker, MarkFailed(w) PROVE Same
    BY <1>10 DEF MarkFailed, SetFailed, SentInv, BatchInv, TypeOK
  <1>11. ASSUME NEW d \in TimeSteps, Tick(d) PROVE Same
    BY <1>11 DEF Tick
  <1>12. CASE UNCHANGED vars
    BY <1>12 DEF vars, table
  <1>13. QED
    BY <1>1, <1>2, <1>3, <1>5, <1>6, <1>8, <1>9, <1>10, <1>11, <1>12 DEF Next, WorkerStep

\* The batch of a worker after a step holds rows it had or rows that are due;
\* a worker that is about to mark a row has just delivered it, or was already.
LEMMA BatchOrigin ==
    ASSUME TypeOK, [Next]_vars, NEW w \in Worker
    PROVE  /\ \A m \in batch'[w] : m \in batch[w] \/ status[m] # "absent"
           /\ pc'[w] = "marking" =>
                \/ pc[w] = "marking" /\ current'[w] = current[w]
                \/ current'[w] \in Msg /\ delivered'[current'[w]] > 0
  <1> DEFINE Goal == /\ \A m \in batch'[w] : m \in batch[w] \/ status[m] # "absent"
                     /\ pc'[w] = "marking" =>
                          \/ pc[w] = "marking" /\ current'[w] = current[w]
                          \/ current'[w] \in Msg /\ delivered'[current'[w]] > 0
  <1>1. ASSUME NEW u \in Worker, LeaveRunOnce(u) PROVE Goal
    BY <1>1 DEF LeaveRunOnce, TypeOK
  <1>2. ASSUME NEW u \in Worker, NextMessage(u) PROVE Goal
    <2>1. batch' = [batch EXCEPT ![u] = batch[u] \ {current[u]}]
      BY <1>2, NextMessageEffect
    <2>2. /\ pc'[u] \in {"idle", "publishing"}
          /\ \A v \in Worker \ {u} : pc'[v] = pc[v] /\ current'[v] = current[v]
      BY <1>2, NextMessageEffect
    <2>3. QED
      BY <2>1, <2>2 DEF TypeOK
  <1>3. ASSUME NEW u \in Worker, PickPending(u) PROVE Goal
    <2>1. \A S \in Picks : \A m \in S : status[m] # "absent"
      BY DEF Picks, Pickable, Due
    <2>2. QED
      BY <1>3, <2>1 DEF PickPending, TypeOK
  <1>4. ASSUME NEW u \in Worker, ClaimCommit(u) PROVE Goal
    BY <1>4 DEF ClaimCommit, TypeOK
  <1>5. ASSUME NEW u \in Worker, NEW m \in Msg, PublishOk(u, m) PROVE Goal
    <2>1. delivered'[m] > 0
      BY <1>5, DeliverEffect DEF PublishOk
    <2>2. QED
      BY <1>5, <2>1 DEF PublishOk, TypeOK
  <1>6. ASSUME NEW u \in Worker, NEW m \in Msg, PublishFails(u, m) PROVE Goal
    BY <1>6 DEF PublishFails, TypeOK
  <1>7. ASSUME UNCHANGED <<pc, batch, current>> PROVE Goal
    BY <1>7
  <1>8. QED
    BY <1>1, <1>2, <1>3, <1>4, <1>5, <1>6, <1>7
    DEF Next, WorkerStep, ClaimCommitLost, ClaimRollback, MarkSent, MarkSentError,
        MarkFailed, MarkFailedIgnored, Crash, Enqueue, Tick, vars, workers
\* A row becomes sent only together with its published_at.
LEMMA SentOrigin ==
    ASSUME TypeOK, [Next]_vars, NEW m \in Msg, status'[m] = "sent"
    PROVE  status[m] = "sent" \/ m \in publishedAt'
  <1>1. ASSUME NEW x \in Msg, SetSent(x) PROVE status[m] = "sent" \/ m \in publishedAt'
    BY <1>1 DEF SetSent, TypeOK
  <1>2. ASSUME NEW w \in Worker, MarkFailed(w) PROVE status[m] = "sent"
    BY <1>2 DEF MarkFailed, SetFailed, TypeOK
  <1>3. ASSUME NEW x \in Msg, Enqueue(x) PROVE status[m] = "sent"
    BY <1>3 DEF Enqueue, TypeOK
  <1>4. ASSUME NEW w \in Worker, MarkProcessing(w) PROVE status[m] = "sent"
    BY <1>4 DEF MarkProcessing
  <1>5. ASSUME NEW w \in Worker, MarkSentError(w)
        PROVE  status[m] = "sent" \/ m \in publishedAt'
    <2>1. current[w] \in Msg
      BY <1>5 DEF MarkSentError, TypeOK
    <2>2. QED
      BY <1>1, <1>5, <2>1 DEF MarkSentError, table
  <1>6. QED
    BY <1>1, <1>2, <1>3, <1>4, <1>5
    DEF Next, WorkerStep, PickPending, ClaimCommit, ClaimCommitLost, ClaimRollback,
        PublishOk, PublishFails, MarkSent, MarkFailedIgnored, Crash, Tick, vars, table

\* Every step keeps sent, published_at, the topic and the batches in line.
LEMMA SentInvStep == TypeOK /\ BatchInv /\ SentInv /\ [Next]_vars => SentInv'
  <1> SUFFICES ASSUME TypeOK, BatchInv, SentInv, [Next]_vars PROVE SentInv'
    OBVIOUS
  <1>1. /\ \A m \in Msg : status[m] # "absent" => status'[m] # "absent"
        /\ \A m \in Msg : delivered[m] > 0 => delivered'[m] > 0
        /\ publishedAt \subseteq publishedAt'
    BY DeliveryStep
  <1>2. ASSUME NEW m \in Msg
        PROVE  /\ m \in publishedAt' => delivered'[m] > 0
               /\ delivered'[m] > 0 => status'[m] # "absent"
    BY DeliveryStep DEF SentInv
  <1>3. ASSUME NEW m \in Msg, status'[m] = "sent" PROVE m \in publishedAt'
    BY <1>1, <1>3, SentOrigin DEF SentInv
  <1>4. ASSUME NEW w \in Worker, NEW m \in batch'[w] PROVE status'[m] # "absent"
    <2>1. m \in Msg
      BY NextType DEF TypeOK
    <2>2. m \in batch[w] \/ status[m] # "absent"
      BY BatchOrigin
    <2>3. QED
      BY <1>1, <2>1, <2>2 DEF SentInv
  <1>5. ASSUME NEW w \in Worker, pc'[w] = "marking" PROVE delivered'[current'[w]] > 0
    BY <1>1, <1>5, BatchOrigin DEF SentInv, TypeOK
  <1>6. QED
    BY <1>2, <1>3, <1>4, <1>5 DEF SentInv

\* The inductive invariant of the refinement.
LEMMA SentInductive == Spec => [](TypeOK /\ BatchInv /\ SentInv)
  <1>1. Init => TypeOK /\ BatchInv /\ SentInv
    BY InitType DEF Init, BatchInv, SentInv
  <1>2. TypeOK /\ BatchInv /\ SentInv /\ [Next]_vars => (TypeOK /\ BatchInv /\ SentInv)'
    BY NextType, BatchStep, SentInvStep
  <1>3. QED
    BY <1>1, <1>2, PTL DEF Spec

\* A row that says sent was delivered and says when.
THEOREM SentSoundness == Spec => []SentWasDelivered
  <1>1. SentInv => SentWasDelivered
    BY DEF SentInv, SentWasDelivered
  <1>2. QED
    BY <1>1, SentInductive, PTL

\* The workers, the table and the topic implement OutboxDelivery: nothing
\* arrives that was not accepted, nothing is confirmed that did not arrive,
\* and none of the three facts is ever taken back.
THEOREM DeliveryRefinement == Spec => ImplementsDelivery
  <1>1. Init => Delivery!AInit
    BY DEF Init, Delivery!AInit
  <1>2. ASSUME TypeOK, BatchInv, SentInv, [Next]_vars
        PROVE  [Delivery!ANext]_(Delivery!avars)
    <2> DEFINE acc == {x \in Msg : status[x] # "absent"}
               arr == {x \in Msg : delivered[x] > 0}
    <2>1. ASSUME NEW m \in Msg,
                 \A x \in Msg : status'[x] # "absent" <=> status[x] # "absent" \/ x = m,
                 delivered' = delivered, publishedAt' = publishedAt
          PROVE  Delivery!Accept(m)
      <3>1. acc' = acc \cup {m} /\ arr' = arr
        BY <2>1
      <3>2. QED
        BY <2>1, <3>1 DEF Delivery!Accept
    <2>2. ASSUME NEW m \in Msg, status[m] # "absent", status' = status,
                 \A x \in Msg : delivered'[x] > 0 <=> delivered[x] > 0 \/ x = m,
                 publishedAt' = publishedAt
          PROVE  Delivery!Arrive(m)
      <3>1. m \in acc /\ acc' = acc /\ arr' = arr \cup {m}
        BY <2>2
      <3>2. QED
        BY <2>2, <3>1 DEF Delivery!Arrive
    <2>3. ASSUME NEW m \in Msg, delivered[m] > 0, delivered' = delivered,
                 \A x \in Msg : status'[x] # "absent" <=> status[x] # "absent",
                 publishedAt' = publishedAt \cup {m}
          PROVE  Delivery!Confirm(m)
      <3>1. m \in arr /\ acc' = acc /\ arr' = arr
        BY <2>3
      <3>2. QED
        BY <2>3, <3>1 DEF Delivery!Confirm
    <2>4. ASSUME \A x \in Msg : status'[x] # "absent" <=> status[x] # "absent",
                 delivered' = delivered, publishedAt' = publishedAt
          PROVE  UNCHANGED Delivery!avars
      <3>1. acc' = acc /\ arr' = arr
        BY <2>4
      <3>2. QED
        BY <2>4, <3>1 DEF Delivery!avars
    <2>5. QED
      BY <1>2, <2>1, <2>2, <2>3, <2>4, DeliveryStep DEF Delivery!ANext
  <1>3. QED
    BY <1>1, <1>2, SentInductive, PTL DEF Spec, ImplementsDelivery, Delivery!ASafeSpec
-----------------------------------------------------------------------------
\* Leaving RunOnce, or going to the next message, adds no row to a batch, and
\* whoever has rows left keeps its place, unless it was in RunOnce's loop.
LEMMA BatchShrinks ==
    ASSUME TypeOK, NEW u \in Worker, LeaveRunOnce(u) \/ NextMessage(u)
    PROVE  \A w \in Worker :
              /\ batch'[w] \subseteq batch[w]
              /\ w # u => pc'[w] = pc[w] /\ batch'[w] = batch[w]
  <1>1. CASE LeaveRunOnce(u)
    BY <1>1 DEF LeaveRunOnce, TypeOK
  <1>2. CASE NextMessage(u)
    <2>1. batch' = [batch EXCEPT ![u] = batch[u] \ {current[u]}]
      BY <1>2, NextMessageEffect
    <2>2. \A w \in Worker \ {u} : pc'[w] = pc[w]
      BY <1>2, NextMessageEffect
    <2>3. QED
      BY <2>1, <2>2 DEF TypeOK
  <1>3. QED
    BY <1>1, <1>2

\* The order invariant of two rows, the first of them the older one, which was
\* there in time.
Ordered(a, b) ==
    /\ status[a] # "absent" /\ status[b] # "absent"
    /\ status[a] = "pending" =>
         /\ status[b] = "pending"
         /\ \A w \in Worker : Holds(w, b) => pc[w] = "claiming" /\ Holds(w, a)

\* A worker that ends its claim or its message without a commit of the claim
\* has written at most one row, and no row that waits behind an older one.
LEMMA OrderKept ==
    ASSUME TypeOK, BatchInv, OrderInv, NEW u \in Worker,
           LeaveRunOnce(u) \/ NextMessage(u),
           delivered' = delivered, older' = older, late' = late,
           \/ pc[u] \in {"marking", "failing"} /\ status'[current[u]] \in {"sent", "failed"}
              /\ \A x \in Msg \ {current[u]} : status'[x] = status[x] /\ nextWait'[x] = nextWait[x]
           \/ status' = status /\ nextWait' = nextWait,
           pc[u] \notin {"marking", "failing"} => LeaveRunOnce(u)
    PROVE  OrderInv'
  <1>1. ASSUME NEW m \in Msg, status'[m] \in {"absent", "pending"}
        PROVE  nextWait'[m] = NoTime /\ delivered'[m] = 0
    BY <1>1 DEF OrderInv
  <1>2. ASSUME NEW w \in Worker, pc'[w] # "claiming", NEW m \in batch'[w]
        PROVE  status'[m] # "pending"
    <2>1. m \in batch[w] /\ m \in Msg
      BY <1>2, BatchShrinks DEF TypeOK
    <2>2. pc[w] # "claiming"
      BY <1>2, BatchShrinks DEF LeaveRunOnce, TypeOK
    <2>3. QED
      BY <2>1, <2>2 DEF OrderInv
  <1>3. ASSUME NEW a \in Msg, NEW b \in Msg, <<a, b>> \in older \ late PROVE Ordered(a, b)'
    <2>1. Ordered(a, b)
      BY <1>3 DEF OrderInv, Ordered
    <2>2. status'[a] # "absent" /\ status'[b] # "absent"
      BY <2>1 DEF Ordered
    <2>3. ASSUME status'[a] = "pending"
          PROVE  /\ status'[b] = "pending"
                 /\ \A w \in Worker : Holds(w, b)' => pc'[w] = "claiming" /\ Holds(w, a)'
      <3>1. status[a] = "pending"
        BY <2>3
      <3>2. \A w \in Worker : Holds(w, b) => pc[w] = "claiming" /\ Holds(w, a)
        BY <2>1, <3>1 DEF Ordered
      <3>3. status'[b] = "pending"
        <4>1. pc[u] \in {"marking", "failing"} => current[u] # b
          BY <3>2 DEF BatchInv, Holds
        <4>2. QED
          BY <2>1, <3>1, <4>1 DEF Ordered
      <3>4. ASSUME NEW w \in Worker, Holds(w, b)' PROVE pc'[w] = "claiming" /\ Holds(w, a)'
        <4>1. Holds(w, b)
          BY <3>4, BatchShrinks DEF Holds
        <4>2. w # u
          BY <3>2, <3>4, <4>1 DEF LeaveRunOnce, Holds, TypeOK
        <4>3. QED
          BY <3>2, <4>1, <4>2, BatchShrinks DEF Holds
      <3>5. QED
        BY <3>3, <3>4
    <2>4. QED
      BY <2>1, <2>2, <2>3 DEF Ordered
  <1>4. QED
    BY <1>1, <1>2, <1>3 DEF OrderInv, Ordered

\* A single worker keeps the order invariant: what it claims is closed under
\* older pending rows, because ORDER BY puts them first and nobody else locks them.
LEMMA OrderStep ==
    ASSUME \A v, w \in Worker : v = w,
           TypeOK, BatchInv, SentInv, OrderInv, [Next]_vars
    PROVE  OrderInv'
  <1>1. ASSUME NEW m \in Msg, Enqueue(m) PROVE OrderInv'
    <2>1. /\ status[m] = "absent"
          /\ \A x \in Msg : status'[x] = IF x = m THEN "pending" ELSE status[x]
          /\ nextWait' = nextWait /\ delivered' = delivered /\ batch' = batch /\ pc' = pc
      BY <1>1 DEF Enqueue, TypeOK, workers
    <2>2. PICK S \in Elders :
            /\ older' = older \cup (S \X {m}) \cup ({m} \X (Rows \ S))
            /\ late' = late \cup ({m} \X {b \in Rows \ S : Claimed(b)})
      BY <1>1 DEF Enqueue
    <2>3. S \subseteq Rows /\ Rows \subseteq Msg /\ m \notin Rows
      BY <2>1 DEF Elders, Rows
    <2>4. \A w \in Worker : ~Holds(w, m)
      BY <2>1 DEF SentInv, Holds, TypeOK
    <2>5. ASSUME NEW a \in Msg, NEW b \in Msg, <<a, b>> \in older' \ late' PROVE Ordered(a, b)'
      <3>1. CASE <<a, b>> \in older \ late
        <4>1. Ordered(a, b)
          BY <3>1 DEF OrderInv, Ordered
        <4>2. a # m /\ b # m
          BY <2>1, <4>1 DEF Ordered
        <4>3. QED
          BY <2>1, <4>1, <4>2 DEF Ordered, Holds
      <3>2. CASE b = m /\ a \in S
        BY <2>1, <2>3, <2>4, <3>2 DEF Ordered, Holds, Rows
      <3>3. CASE a = m /\ b \in Rows \ S /\ ~Claimed(b)
        <4>1. status[b] = "pending" /\ b # m
          BY <2>1, <3>3 DEF Claimed, Rows
        <4>2. \A w \in Worker : ~Holds(w, b)
          BY <3>3, <4>1 DEF Claimed, LockedBy, Holds, OrderInv
        <4>3. QED
          BY <2>1, <3>3, <4>1, <4>2 DEF Ordered, Holds
      <3>4. \/ <<a, b>> \in older \ late
            \/ b = m /\ a \in S
            \/ a = m /\ b \in Rows \ S /\ ~Claimed(b)
        BY <2>2, <2>5
      <3>5. QED
        BY <3>1, <3>2, <3>3, <3>4
    <2>6. \A w \in Worker : pc'[w] # "claiming" => \A x \in batch'[w] : status'[x] # "pending"
      BY <2>1, <2>4 DEF OrderInv, Holds, TypeOK
    <2>7. \A x \in Msg : status'[x] \in {"absent", "pending"} =>
                            nextWait'[x] = NoTime /\ delivered'[x] = 0
      BY <2>1 DEF OrderInv
    <2>8. QED
      BY <2>5, <2>6, <2>7 DEF OrderInv, Ordered
  <1>2. ASSUME NEW w \in Worker, PickPending(w) PROVE OrderInv'
    <2>1. PICK S \in Picks : batch' = [batch EXCEPT ![w] = S]
      BY <1>2 DEF PickPending
    <2>2. /\ \A v \in Worker : batch'[v] = S /\ pc'[v] = "claiming" /\ pc[v] = "idle"
          /\ status' = status /\ nextWait' = nextWait /\ delivered' = delivered
          /\ older' = older /\ late' = late
      BY <1>2, <2>1 DEF PickPending, TypeOK, table, history
    <2>3. \A x \in Msg : status[x] = "pending" => x \in Pickable
      BY <2>2 DEF Pickable, Due, LockedBy
    <2>4. ASSUME NEW a \in Msg, NEW b \in Msg, <<a, b>> \in older \ late, status[a] = "pending", b \in S
          PROVE  a \in S
      <3>1. status[b] = "pending"
        BY <2>4 DEF OrderInv
      <3>2. nextWait[a] = NoTime /\ nextWait[b] = NoTime
        BY <2>4, <3>1 DEF OrderInv
      <3>3. Precedes(a, b)
        BY <2>4, <3>2 DEF Precedes
      <3>4. QED
        BY <2>3, <2>4, <3>3 DEF Picks
    <2>5. QED
      BY <2>2, <2>4 DEF OrderInv, Holds
  <1>3. ASSUME NEW w \in Worker, MarkProcessing(w), pc[w] = "claiming", older' = older, late' = late,
               delivered' = delivered, \A v \in Worker : batch'[v] \subseteq batch[v]
        PROVE  OrderInv'
    <2>1. \A x \in Msg : /\ status'[x] = IF x \in batch[w] THEN "processing" ELSE status[x]
                         /\ nextWait'[x] = IF x \in batch[w] THEN NoTime ELSE nextWait[x]
      BY <1>3 DEF MarkProcessing
    <2>2. ASSUME NEW a \in Msg, NEW b \in Msg, <<a, b>> \in older \ late PROVE Ordered(a, b)'
      <3>1. Ordered(a, b)
        BY <2>2 DEF OrderInv, Ordered
      <3>2. status'[a] # "absent" /\ status'[b] # "absent"
        BY <2>1, <3>1 DEF Ordered
      <3>3. ASSUME status'[a] = "pending"
            PROVE  status'[b] = "pending" /\ \A v \in Worker : b \notin batch[v]
        <4>1. status[a] = "pending" /\ a \notin batch[w]
          BY <2>1, <3>3
        <4>2. \A v \in Worker : b \notin batch[v]
          BY <3>1, <4>1 DEF Ordered, Holds
        <4>3. QED
          BY <2>1, <3>1, <4>1, <4>2 DEF Ordered
      <3>4. QED
        BY <1>3, <3>1, <3>2, <3>3, <2>1 DEF Ordered, Holds
    <2>3. \A v \in Worker : \A x \in batch'[v] : status'[x] # "pending"
      BY <1>3, <2>1 DEF TypeOK
    <2>4. QED
      BY <1>3, <2>1, <2>2, <2>3 DEF OrderInv, Ordered
  <1>4. ASSUME NEW w \in Worker, ClaimCommit(w) PROVE OrderInv'
    BY <1>3, <1>4 DEF ClaimCommit, MarkProcessing, history
  <1>5. ASSUME NEW w \in Worker, ClaimCommitLost(w) PROVE OrderInv'
    BY <1>3, <1>5, BatchShrinks DEF ClaimCommitLost, MarkProcessing, history
  <1>6. ASSUME NEW w \in Worker, NEW m \in Msg, PublishOk(w, m) \/ PublishFails(w, m)
        PROVE  OrderInv'
    <2>1. /\ pc[w] = "publishing" /\ m \in batch[w] /\ batch' = batch
          /\ status' = status /\ nextWait' = nextWait /\ older' = older /\ late' = late
          /\ pc' = [pc EXCEPT ![w] = pc'[w]] /\ pc'[w] # "claiming"
          /\ \A x \in Msg : x # m => delivered'[x] = delivered[x]
      BY <1>6 DEF PublishOk, PublishFails, Deliver, table, history, TypeOK
    <2>2. status[m] \notin {"absent", "pending"}
      BY <2>1 DEF OrderInv, SentInv
    <2>3. \A v \in Worker : batch[v] = batch[w] /\ pc[v] # "claiming" /\ pc'[v] # "claiming"
      BY <2>1
    <2>4. QED
      BY <2>1, <2>2, <2>3 DEF OrderInv, Holds
  <1>7. ASSUME NEW w \in Worker, NEW m \in Msg, MarkSent(w, m) PROVE OrderInv'
    BY <1>7, OrderKept DEF MarkSent, SetSent, TypeOK, history
  <1>8. ASSUME NEW w \in Worker, MarkSentError(w) PROVE OrderInv'
    BY <1>8, OrderKept DEF MarkSentError, SetSent, TypeOK, table, history
  <1>9. ASSUME NEW w \in Worker, MarkFailed(w) PROVE OrderInv'
    BY <1>9, OrderKept DEF MarkFailed, SetFailed, TypeOK, history
  <1>10. ASSUME NEW w \in Worker, MarkFailedIgnored(w) \/ ClaimRollback(w) \/ Crash(w)
         PROVE  OrderInv'
    BY <1>10, OrderKept DEF MarkFailedIgnored, ClaimRollback, Crash, table, history
  <1>11. ASSUME NEW d \in TimeSteps, Tick(d) PROVE OrderInv'
    BY <1>11 DEF Tick, OrderInv, Holds
  <1>12. CASE UNCHANGED vars
    BY <1>12 DEF vars, table, workers, history, OrderInv, Holds
  <1>13. QED
    BY <1>1, <1>2, <1>4, <1>5, <1>6, <1>7, <1>8, <1>9, <1>10, <1>11, <1>12 DEF Next, WorkerStep

\* A single worker delivers no row while an older one waits for its first claim,
\* unless the older one was committed after the younger one had been claimed
\* (created_at is taken before the commit): PickPending's ORDER BY and LIMIT,
\* commits in any order, rollbacks, crashes and retries included.
THEOREM CreationOrder ==
    ASSUME \A v, w \in Worker : v = w
    PROVE  Spec => []NoOvertaking
  <1>1. Init => OrderInv
    BY DEF Init, OrderInv
  <1>2. TypeOK /\ OrderInv => NoOvertaking
    BY DEF OrderInv, NoOvertaking, TypeOK
  <1>3. TypeOK /\ BatchInv /\ SentInv /\ OrderInv /\ [Next]_vars => OrderInv'
    BY OrderStep
  <1>4. QED
    BY <1>1, <1>2, <1>3, SentInductive, PTL DEF Spec
=============================================================================
