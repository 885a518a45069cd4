------------------------- MODULE TransactionManager -------------------------
(***************************************************************************)
(* The transaction manager (pkg/transaction-manager) over the connection   *)
(* pools (pkg/adapters/postgres): building and closing the pools, execute  *)
(* with its callback, a second execute inside a callback, the statements   *)
(* of CtxManager inside and outside a transaction, Ping, and the scrape of *)
(* the metrics collector.                                                  *)
(*                                                                         *)
(* A goroutine is a caller with the stack of calls it is in.  Each call    *)
(* holds at most one connection.  pgx and pgxpool are external: a failed   *)
(* statement aborts the transaction, a lost connection or an ended context *)
(* kills the connection, a dead connection still has to be released.       *)
(***************************************************************************)
EXTENDS Naturals, Sequences, FiniteSets

CONSTANTS
    Callers,           \* goroutines that use the pools
    PoolSize,          \* MaxConns of each pool
    DedicatedReadOnly, \* readOnlyEndpoint found a read-only endpoint
    AccessModes,       \* the access modes and isolation levels given to Dox, the
    IsoLevels,         \*   empty string for the default of the server
    ScrapeQueries,     \* queries of one collectClusterSnapshot (4 in the code)
    MaxDepth,          \* bound on execute within execute
    MaxTx,             \* bound on calls of execute
    MaxWrites          \* bound on statements of one transaction

ASSUME CallersAssumption == IsFiniteSet(Callers)
ASSUME PoolSizeAssumption == PoolSize \in Nat \ {0}
ASSUME DedicatedAssumption == DedicatedReadOnly \in BOOLEAN
ASSUME ScrapeQueriesAssumption == ScrapeQueries \in Nat \ {0}
ASSUME BoundsAssumption == MaxDepth \in Nat /\ MaxTx \in Nat /\ MaxWrites \in Nat

VARIABLES
    phase,    \* what NewWithOptions and Close have done
    pool,     \* role -> none, open, closing, closed
    size,     \* role -> MaxConns of the pool, 0 before there is one
    free,     \* role -> connections that can be acquired
    stack,    \* caller -> calls it is in, innermost last
    started,  \* calls of execute so far
    active,   \* meta -> the active_transactions gauge
    written,  \* call of execute -> statements done in its transaction
    applied,  \* call of execute -> statements that became durable
    observed  \* call of execute -> outcomes given to metrics.Observe

pools == <<phase, pool, size, free>>
txs   == <<started, active, written, applied, observed>>
vars  == <<pools, stack, txs>>

Role == {"master", "read_only"}
TxId == 1..MaxTx
Outcome == {"pool_missing", "acquire_connection_failed", "begin_failed", "committed",
            "commit_failed", "rolled_back", "rollback_failed",
            "panic_rolled_back", "panic_rollback_failed"}

\* txMeta, the labels of the metrics: newDoMeta and newDoxMeta.
DoMeta == <<"do", "read_write", "default">>
AccessModeString(mode) ==
    CASE mode = "read only" -> "read_only"
      [] mode = "read write" -> "read_write"
      [] OTHER -> "default"
IsolationLevelString(level) ==
    CASE level = "serializable" -> "serializable"
      [] level = "repeatable read" -> "repeatable_read"
      [] level = "read committed" -> "read_committed"
      [] level = "read uncommitted" -> "read_uncommitted"
      [] OTHER -> "default"
DoxMeta(mode, level) == <<"dox", AccessModeString(mode), IsolationLevelString(level)>>
Metas == {DoMeta} \cup {DoxMeta(mode, level) : mode \in AccessModes, level \in IsoLevels}

\* The pool a role uses: readOnlyIsMaster shares the master's.
PoolOf(role) == IF DedicatedReadOnly THEN role ELSE "master"

\* The calls there are.
Calls == [kind : {"tx", "statement", "ping", "scrape"}, role : Role, id : 0..MaxTx,
          meta : Metas, left : 1..ScrapeQueries, cancelled : BOOLEAN,
          at : {"acquiring", "acquired", "callback", "commit", "rollback", "panicked"},
          conn : {"none", "idle", "tx", "aborted", "dead"}]

\* A call: conn is the state of the connection it holds, id names a call of
\* execute, cancelled is set in the outermost call, left counts the queries a scrape has left on its pool.
Call(kind, role, id, meta) ==
    [kind |-> kind, role |-> PoolOf(role), id |-> id, meta |-> meta,
     left |-> IF kind = "scrape" THEN ScrapeQueries ELSE 1,
     at |-> "acquiring", conn |-> "none", cancelled |-> FALSE]

Top(c) == stack[c][Len(stack[c])]
InTx(c) == stack[c] # <<>> /\ Top(c).kind = "tx" /\ Top(c).at = "callback"
At(c, kind, at) == stack[c] # <<>> /\ Top(c).kind = kind /\ Top(c).at = at

CtxDone(c) == stack[c] # <<>> /\ stack[c][1].cancelled

Push(c, call) == stack' = [stack EXCEPT ![c] = Append(@, call)]
SetTop(c, at, conn) ==
    stack' = [stack EXCEPT ![c][Len(stack[c])].at = at, ![c][Len(stack[c])].conn = conn]

\* The innermost call ends; a panic goes on in the callback below it.
Pop(c, panics) ==
    LET below == SubSeq(stack[c], 1, Len(stack[c]) - 1)
    IN  stack' = [stack EXCEPT ![c] =
                    IF panics /\ below # <<>>
                    THEN [below EXCEPT ![Len(below)].at = "panicked"]
                    ELSE below]

IncActive(meta) == active' = [active EXCEPT ![meta] = @ + 1]
DecActive(meta) == active' = [active EXCEPT ![meta] = @ - 1]
Observe(id, outcome) == observed' = [observed EXCEPT ![id] = Append(@, outcome)]

-----------------------------------------------------------------------------
Init ==
    /\ phase = "new"
    /\ pool = [r \in Role |-> "none"]
    /\ size = [r \in Role |-> 0]
    /\ free = [r \in Role |-> 0]
    /\ stack = [c \in Callers |-> <<>>]
    /\ started = 0
    /\ active = [m \in Metas |-> 0]
    /\ written = [i \in TxId |-> 0]
    /\ applied = [i \in TxId |-> 0]
    /\ observed = [i \in TxId |-> <<>>]

NewPool(role) ==
    /\ pool' = [pool EXCEPT ![role] = "open"]
    /\ size' = [size EXCEPT ![role] = PoolSize]
    /\ free' = [free EXCEPT ![role] = PoolSize]

\* NewWithOptions, one step for each pool and one for the collector.
NewMaster ==
    /\ phase = "new"
    /\ \/ NewPool("master") /\ phase' = IF DedicatedReadOnly THEN "master" ELSE "pools"
       \/ phase' = "failed" /\ UNCHANGED <<pool, size, free>>
    /\ UNCHANGED <<stack, txs>>

NewReadOnly ==
    /\ phase = "master"
    /\ \/ NewPool("read_only") /\ phase' = "pools"
       \/ /\ pool' = [pool EXCEPT !["master"] = "closed"]
          /\ phase' = "failed"
          /\ UNCHANGED <<size, free>>
    /\ UNCHANGED <<stack, txs>>

\* A collector that cannot be registered closes both pools; nobody uses them yet.
RegisterCollector ==
    /\ phase = "pools"
    /\ \/ phase' = "ready" /\ UNCHANGED pool
       \/ /\ phase' = "failed"
          /\ pool' = [r \in Role |-> IF pool[r] = "open" THEN "closed" ELSE pool[r]]
    /\ UNCHANGED <<size, free, stack, txs>>

\* Close: first the read-only pool if it is one of its own, then the master.
\* pgxpool refuses new acquires at once and waits for what is out.
CloseOrder == IF DedicatedReadOnly THEN <<"read_only", "master">> ELSE <<"master">>

Close ==
    /\ phase = "ready"
    /\ phase' = "closing"
    /\ pool' = [pool EXCEPT ![CloseOrder[1]] = "closing"]
    /\ UNCHANGED <<size, free, stack, txs>>

CloseReturns(role) ==
    /\ pool[role] = "closing"
    /\ free[role] = size[role]
    /\ IF role = "master"
       THEN /\ pool' = [pool EXCEPT ![role] = "closed"]
            /\ phase' = "closed"
       ELSE /\ pool' = [pool EXCEPT ![role] = "closed", !["master"] = "closing"]
            /\ UNCHANGED phase
    /\ UNCHANGED <<size, free, stack, txs>>

\* A request is cancelled, or its deadline passes.
CancelContext(c) ==
    /\ stack[c] # <<>>
    /\ ~CtxDone(c)
    /\ stack' = [stack EXCEPT ![c][1].cancelled = TRUE]
    /\ UNCHANGED <<pools, txs>>

-----------------------------------------------------------------------------
\* A caller starts a piece of work with a fresh context, or calls execute again
\* from inside a callback, with the context of the transaction.
Do(c, meta) ==
    /\ phase \in {"ready", "closing"}
    /\ stack[c] = <<>> \/ InTx(c)
    /\ Len(stack[c]) < MaxDepth
    /\ started < MaxTx
    /\ started' = started + 1
    /\ Push(c, Call("tx", "master", started', meta))
    /\ UNCHANGED <<pools, active, written, applied, observed>>

\* A manager that was given no pool.
DoWithoutPool(c) ==
    /\ phase = "failed"
    /\ started < MaxTx
    /\ started' = started + 1
    /\ Observe(started', "pool_missing")
    /\ UNCHANGED <<pools, stack, active, written, applied>>

\* A statement of CtxManager outside a transaction, Ping, and the collector's
\* Collect, each on the first of its pools.
Begin(c, kind, role) ==
    /\ phase \in {"ready", "closing"}
    /\ stack[c] = <<>>
    /\ kind \in {"ping", "scrape"} => role = "master"
    /\ Push(c, Call(kind, role, 0, DoMeta))
    /\ UNCHANGED <<pools, txs>>

\* pool.Acquire
Acquire(c) ==
    /\ stack[c] # <<>>
    /\ Top(c).at = "acquiring"
    /\ pool[Top(c).role] = "open"
    /\ free[Top(c).role] > 0
    /\ free' = [free EXCEPT ![Top(c).role] = @ - 1]
    /\ SetTop(c, "acquired", "idle")
    /\ UNCHANGED <<phase, pool, size, txs>>

\* Ping goes on with the read-only pool after a success, Collect in any case.
PingGoesOn(c, ok) == Top(c).kind = "ping" /\ Top(c).role = "master" /\ ok
CollectGoesOn(c) == Top(c).kind = "scrape" /\ Top(c).role = "master"

\* A call other than execute is done with its pool.
NextPool(c, ok) ==
    IF DedicatedReadOnly /\ (PingGoesOn(c, ok) \/ CollectGoesOn(c))
    THEN stack' = [stack EXCEPT ![c] = <<[Call(Top(c).kind, "read_only", 0, Top(c).meta)
                                          EXCEPT !.cancelled = CtxDone(c)]>>]
    ELSE Pop(c, FALSE)

GiveUp(c) ==
    /\ IF Top(c).kind = "tx"
       THEN Observe(Top(c).id, "acquire_connection_failed") /\ Pop(c, FALSE)
       ELSE NextPool(c, FALSE) /\ UNCHANGED observed
    /\ UNCHANGED <<pools, started, active, written, applied>>

\* The context ends (a scrape has a deadline of its own), the pool is closed, or
\* no connection can be made.  Only execute counts an outcome.
AcquireFails(c) ==
    /\ stack[c] # <<>>
    /\ Top(c).at = "acquiring"
    /\ CtxDone(c) \/ Top(c).kind = "scrape" \/ free[Top(c).role] > 0
    /\ GiveUp(c)

\* connection.Close: the pool takes the connection back, or replaces it.
Release(c) == free' = [free EXCEPT ![Top(c).role] = @ + 1]

NextQuery(call) ==
    [call EXCEPT !.at = "acquiring", !.conn = "none", !.left = call.left - 1]

\* One query on a connection of its own: a statement, a ping, one query of a scrape.
Query(c) ==
    /\ stack[c] # <<>>
    /\ Top(c).kind # "tx"
    /\ Top(c).at = "acquired"
    /\ Release(c)
    /\ \/ NextPool(c, FALSE)
       \/ /\ ~CtxDone(c)
          /\ IF Top(c).left > 1
             THEN stack' = [stack EXCEPT ![c] = <<NextQuery(Top(c))>>]
             ELSE NextPool(c, TRUE)
    /\ UNCHANGED <<phase, pool, size, txs>>

-----------------------------------------------------------------------------
\* execute after the connection is acquired.
BeginTx(c) ==
    /\ At(c, "tx", "acquired")
    /\ ~CtxDone(c)
    /\ SetTop(c, "callback", "tx")
    /\ IncActive(Top(c).meta)
    /\ UNCHANGED <<pools, started, written, applied, observed>>

\* Mutant: the connection is not closed on this path.
BeginTxFails_Leaks(c) ==
    /\ At(c, "tx", "acquired")
    /\ Observe(Top(c).id, "begin_failed")
    /\ Pop(c, FALSE)
    /\ UNCHANGED <<pools, started, active, written, applied>>

BeginTxFails(c) ==
    /\ At(c, "tx", "acquired")
    /\ Observe(Top(c).id, "begin_failed")
    /\ Release(c)
    /\ Pop(c, FALSE)
    /\ UNCHANGED <<phase, pool, size, started, active, written, applied>>

\* A repository's statement in a callback: getConnectionOrTx finds the
\* transaction in the context.
Statement(c) ==
    /\ InTx(c)
    /\ Top(c).conn = "tx"
    /\ ~CtxDone(c)
    /\ written[Top(c).id] < MaxWrites
    /\ written' = [written EXCEPT ![Top(c).id] = @ + 1]
    /\ UNCHANGED <<pools, stack, started, active, applied, observed>>

StatementFails(c) ==
    /\ InTx(c)
    /\ Top(c).conn = "tx"
    /\ \/ SetTop(c, "callback", "aborted")
       \/ SetTop(c, "callback", "dead")
    /\ UNCHANGED <<pools, txs>>

\* The callback returns nil or an error, whatever happened in it, or panics.
CallbackReturns(c) ==
    /\ InTx(c)
    /\ \E next \in {"commit", "rollback", "panicked"} : SetTop(c, next, Top(c).conn)
    /\ UNCHANGED <<pools, txs>>

\* The outcome is known: the deferred calls give back the gauge and the connection.
Leave(c, outcome, panics) ==
    /\ Observe(Top(c).id, outcome)
    /\ DecActive(Top(c).meta)
    /\ Release(c)
    /\ Pop(c, panics)
    /\ UNCHANGED <<phase, pool, size, started, written>>

Commit(c) ==
    /\ At(c, "tx", "commit")
    /\ Top(c).conn = "tx"
    /\ ~CtxDone(c)
    /\ applied' = [applied EXCEPT ![Top(c).id] = written[Top(c).id]]
    /\ Leave(c, "committed", FALSE)

\* An aborted transaction is rolled back by COMMIT; a lost answer leaves both open.
CommitFails(c) ==
    /\ At(c, "tx", "commit")
    /\ \/ UNCHANGED applied
       \/ /\ Top(c).conn = "tx"
          /\ applied' = [applied EXCEPT ![Top(c).id] = written[Top(c).id]]
    /\ Leave(c, "commit_failed", FALSE)

Rollback(c) ==
    /\ At(c, "tx", "rollback")
    /\ Top(c).conn \in {"tx", "aborted"}
    /\ ~CtxDone(c)
    /\ Leave(c, "rolled_back", FALSE)
    /\ UNCHANGED applied

RollbackFails(c) ==
    /\ At(c, "tx", "rollback")
    /\ Leave(c, "rollback_failed", FALSE)
    /\ UNCHANGED applied

\* Mutant: the recovered panic is rolled back and counted, the deferred DecActive
\* is not reached.
PanicRollback_KeepsActive(c) ==
    /\ At(c, "tx", "panicked")
    /\ \E outcome \in {"panic_rolled_back", "panic_rollback_failed"} :
          Observe(Top(c).id, outcome)
    /\ Release(c)
    /\ Pop(c, TRUE)
    /\ UNCHANGED <<phase, pool, size, started, active, written, applied>>

PanicRollback(c) ==
    /\ At(c, "tx", "panicked")
    /\ \/ Top(c).conn # "dead" /\ ~CtxDone(c) /\ Leave(c, "panic_rolled_back", TRUE)
       \/ Leave(c, "panic_rollback_failed", TRUE)
    /\ UNCHANGED applied

-----------------------------------------------------------------------------
Step(c) ==
    \/ Acquire(c) \/ AcquireFails(c) \/ Query(c)
    \/ BeginTx(c) \/ BeginTxFails(c)
    \/ CallbackReturns(c)
    \/ Commit(c) \/ CommitFails(c)
    \/ Rollback(c) \/ RollbackFails(c) \/ PanicRollback(c)

Next ==
    \/ NewMaster \/ NewReadOnly \/ RegisterCollector
    \/ Close \/ \E r \in Role : CloseReturns(r)
    \/ \E c \in Callers :
         \/ Step(c)
         \/ Statement(c) \/ StatementFails(c)
         \/ CancelContext(c)
         \/ DoWithoutPool(c)
         \/ \E m \in Metas : Do(c, m)
         \/ \E kind \in {"statement", "ping", "scrape"}, r \in Role : Begin(c, kind, r)

Spec == Init /\ [][Next]_vars

\* Callbacks and queries end; the pool serves its waiters in turn.
FairSpec ==
    /\ Spec
    /\ WF_vars(\E r \in Role : CloseReturns(r))
    /\ \A c \in Callers :
         /\ WF_vars(Step(c))
         /\ SF_vars(Acquire(c))

-----------------------------------------------------------------------------
Holds(c, role) == {i \in DOMAIN stack[c] : stack[c][i].role = role /\ stack[c][i].conn # "none"}
Slots == Callers \X (1..(MaxDepth + 1))
HeldIn(role) == {s \in Slots : s[2] \in Holds(s[1], role)}
IsOpenWith(s, meta) == /\ s[2] \in DOMAIN stack[s[1]]
                       /\ stack[s[1]][s[2]].meta = meta
                       /\ stack[s[1]][s[2]].conn \in {"tx", "aborted", "dead"}
OpenWith(meta) == {s \in Slots : IsOpenWith(s, meta)}
Running(id) == \E c \in Callers : \E i \in DOMAIN stack[c] : stack[c][i].id = id

TypeOK ==
    /\ phase \in {"new", "master", "pools", "ready", "failed", "closing", "closed"}
    /\ pool \in [Role -> {"none", "open", "closing", "closed"}]
    /\ size \in [Role -> 0..PoolSize]
    /\ free \in [Role -> 0..PoolSize]
    /\ started \in 0..MaxTx
    /\ active \in [Metas -> Nat]
    /\ written \in [TxId -> 0..MaxWrites]
    /\ applied \in [TxId -> 0..MaxWrites]
    /\ observed \in [TxId -> Seq(Outcome)]
    /\ stack \in [Callers -> Seq(Calls)]
    /\ \A c \in Callers : Len(stack[c]) <= MaxDepth + 1

\* execute closes its connection on every path, the panics and the failed Begin
\* included: what is free and what the calls hold is always the whole pool.
ConnectionsConserved ==
    \A r \in Role : free[r] + Cardinality(HeldIn(r)) = size[r]

\* The active_transactions gauge of each label set is the number of
\* transactions with it that are open, through errors and nested panics.
ActiveCountsOpenTransactions ==
    \A m \in Metas : active[m] = Cardinality(OpenWith(m))

\* execute counts exactly one outcome, and the outcome tells what happened:
\* committed work is there as a whole, work that was rolled back is not, and
\* only a failed commit leaves the question open, never with a part of the work.
OutcomeIsTrue ==
    \A i \in 1..started : ~Running(i) =>
        /\ Len(observed[i]) = 1
        /\ observed[i][1] = "committed" => applied[i] = written[i]
        /\ observed[i][1] = "commit_failed" => applied[i] \in {0, written[i]}
        /\ observed[i][1] \notin {"committed", "commit_failed"} => applied[i] = 0

\* A statement finds the transaction of its context, so only an execute inside
\* a callback can wait for a connection while its caller holds one.
NoHoldAndWait ==
    \A c \in Callers :
        /\ stack[c] # <<>> /\ Top(c).at = "acquiring"
        /\ \E r \in Role : Holds(c, r) # {}
        => Top(c).kind = "tx"

\* NewWithOptions leaves no pool behind when it fails.
FailedConstructionLeavesNoPool ==
    phase = "failed" => \A r \in Role : pool[r] \in {"none", "closed"}

\* However execute ends (a panic out of a callback, a lost connection, a failed
\* rollback, an end of the context), and whatever construction fails: each
\* connection is given back once, the gauge counts the open transactions, the
\* caller is told what became of its writes, and only execute inside a callback
\* waits for a connection while it holds another.
ExecuteSettlesEverything ==
    /\ TypeOK
    /\ ConnectionsConserved
    /\ ActiveCountsOpenTransactions
    /\ OutcomeIsTrue
    /\ NoHoldAndWait
    /\ FailedConstructionLeavesNoPool

\* The strengthening behind it.  A call has a connection once it has acquired
\* one, and a transaction from BEGIN on; only execute is called inside a
\* callback, and whoever called it waits there.
StackInv ==
    \A c \in Callers : \A i \in DOMAIN stack[c] :
        /\ stack[c][i].conn = "none" <=> stack[c][i].at = "acquiring"
        /\ stack[c][i].conn \in {"tx", "aborted", "dead"} <=>
              stack[c][i].at \in {"callback", "commit", "rollback", "panicked"}
        /\ stack[c][i].kind = "tx" => stack[c][i].id \in 1..started
        /\ stack[c][i].kind # "tx" =>
              /\ stack[c][i].id = 0 /\ Len(stack[c]) = 1
              /\ stack[c][i].at \in {"acquiring", "acquired"}
        /\ i < Len(stack[c]) => stack[c][i].at = "callback"

\* No two running calls of execute share their number.
IdInv ==
    \A c, d \in Callers : \A i \in DOMAIN stack[c], j \in DOMAIN stack[d] :
        stack[c][i].kind = "tx" /\ stack[c][i].id = stack[d][j].id => c = d /\ i = j

\* A call of execute that runs or has not begun has no outcome, and nothing of
\* its work is durable.
OutcomeInv ==
    \A i \in TxId : (i <= started => Running(i)) => observed[i] = <<>> /\ applied[i] = 0

\* What there is of the pools as New, Close and their failures go on.
PoolInv ==
    /\ \A r \in Role : pool[r] = "none" <=> size[r] = 0
    /\ phase = "new" => pool["master"] = "none"
    /\ phase \in {"new", "master"} => pool["read_only"] = "none"
    /\ phase \in {"master", "pools", "ready", "closing"} => pool["master"] # "none"
    /\ phase \in {"pools", "ready", "closing"} /\ DedicatedReadOnly => pool["read_only"] # "none"
    /\ phase = "failed" => \A r \in Role : pool[r] \in {"none", "closed"}
    /\ \A r \in Role : pool[r] = "closing" => phase = "closing"
    /\ pool["master"] # "closing" \/ pool["read_only"] # "closing"

\* As the services use the manager: nobody calls execute inside a callback.
Flat == \A c \in Callers : \A i \in DOMAIN stack[c] : stack[c][i].kind = "tx" => i = 1

\* Then whoever has asked for a connection is done some day, although the pool
\* is full and others come.
EveryCallEnds == []Flat => \A c \in Callers : stack[c] # <<>> ~> stack[c] = <<>>

\* And Close returns: every connection that is out comes back.
CloseEnds == []Flat => (phase = "closing" ~> phase = "closed")

\* Even where execute is called inside a callback and the pool is exhausted by
\* it, the end of the context unwinds the caller.
CancellationUnwinds ==
    \A c \in Callers : stack[c] # <<>> /\ CtxDone(c) ~> stack[c] = <<>>
=============================================================================
