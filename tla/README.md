# TLA+ models of GolangProjectTemplate

The repository is a set of Go services around user accounts: a gRPC auth
service, an outbox dispatcher and a VK user consumer, on PostgreSQL and Kafka,
with the libraries under `pkg/` they are built from. This directory holds TLA+
models of the parts whose correctness depends on the order in which several
processes act, TLC configurations that check them on small instances, and
TLAPS proofs for every size.

## The system

| part | state | operations | talks to |
|------|-------|------------|----------|
| auth use cases (`internal/application/auth`) | none of its own | Register, Login, CompleteYandexLogin | account tables, outbox table, Yandex |
| VK use case (`internal/application/vkusers`) | none of its own | Accept | account tables, outbox table |
| account tables (`migrations/postgres`, `internal/repository/{authusers,passwordcredentials,externalidentities}`) | users, credentials, identities | Create, GetBy... | primary and read-only pool |
| outbox table (`internal/repository/outboxmessages`) | one row per event | Create, PickPending, MarkProcessing, MarkSent, MarkFailed | - |
| outbox worker (`internal/application/outbox`) | the batch in memory | Run, RunOnce | outbox table, Kafka. Runs in `cmd/auth` **and** in `cmd/outbox` |
| VK user consumer (`internal/adapters/secondary/kafka`) | consumer group session | Run, ConsumeClaim | VK use case |
| DLQ consumer (`pkg/adapters/kafka/consumer/dql`) | session, batch, timer | Run, ConsumeClaim, both claim modes, processBatch | Kafka, a save function |
| producers (`pkg/adapters/kafka/producer`) | pending transaction, result loop | send, begin/commit/abort, Run, Close | Kafka |
| transaction manager, pools (`pkg/transaction-manager`, `pkg/adapters/postgres`) | connections, open transactions | Do, Dox, GetDefaultOrTx, GetReadOnlyOrTx | PostgreSQL |
| gRPC app, service composition (`pkg/adapters/server_grpc`, `internal/app`) | servers, goroutines | Start, Notify, Run, Close | everything |
| generic repository (`internal/repository/postgresbase`) | none of its own | reads, inserts, upserts, updates, deletes, row and advisory locks | PostgreSQL |
| gRPC handlers, interceptor, generated validation (`internal/adapters/primary`) | call counters | the four methods | auth use cases |
| Avro encoder (`internal/adapters/secondary/kafka`) | cached schema id | Encode, ensureSchemaID | schema registry |
| stack traces (`pkg/smart-span/stacktrace`) | pool of stacks | Capture, Take, Free | - |
| tokens, hashing, logging, tracing, metrics, config, generated code | - | - | - |

What is hard: two workers on one table; a lease that ends while its holder
still works; commits and publications that happen and are reported as failed;
uniqueness checked on a replica before the transaction that relies on it;
redelivered and concurrent events; offsets committed past messages that
failed; shutdown in the middle of a batch; a caller that waits for a connection
while it holds one; a transaction whose commit nobody knows the outcome of;
channels that are closed while somebody sends; bounds that are counted in runes
here and in bytes there. `PROJECT.json` lists each of these
under `hazards`, at its line, with the properties that would catch it.

## Modules

| module | models |
|--------|--------|
| `OutboxWorker` | the table `auth_outbox_messages`, any number of workers, the topic, the clock |
| `OutboxDelivery` | what the outbox promises: at-least-once delivery |
| `OutboxWorkerProofs` | its theorems |
| `AuthAccounts` | the four use cases on the account tables, statement by statement |
| `AccountDirectory` | what the account tables promise their readers |
| `AuthAccountsProofs` | its theorems |
| `DlqConsumer` | one partition of the DLQ consumer, over many sessions |
| `DlqConsumerProofs` | its theorems |
| `TransactionManager` | the pools, `execute` and its callback, nested calls, metrics scrapes |
| `TransactionManagerProofs` | its theorem |
| `GrpcApp` | Start, Notify and Close of the gRPC server with its gateway |
| `ServiceLifecycle` | setup, Run and Close of the three services |
| `ProcessProofs` | theorems about `GrpcApp`, `ServiceLifecycle`, `AuthRpc`, `AvroEncoder` and `StackTrace` |
| `TxProducer`, `AsyncProducer`, `SyncProducer` | the Kafka producers |
| `ProducerProofs` | theorems about the three producers |
| `VKConsumer` | the consumer group of VK events on one partition |
| `VKConsumerProofs` | its theorems |
| `Repository` | the generic repository on one table |
| `RepositoryProofs` | its theorems |
| `AuthRpc` | a gRPC call from the interceptor to the code of its answer |
| `AvroEncoder` | the serializer of user created events |
| `StackTrace` | captured stacks and their pool |
| `MC...` | instances for TLC |

### OutboxWorker

The variables are the columns of the table (`status`, `attempts`, `updatedAge`
for `updated_at`, `nextWait` for `next_attempt_at`, `publishedAt`, and `older`
for the order of `created_at`), the local variables of each worker's `RunOnce`
(`pc`, `batch`, `snapshot` for the `AttemptCount` it read, `current`,
`leaseAge`, `retryIn`) and the topic (`delivered`). `RunOnce` becomes
`PickPending` (the SELECT ... FOR UPDATE SKIP LOCKED), `ClaimCommit`,
`ClaimCommitLost` or `ClaimRollback`, then per message `PublishOk` or
`PublishFails`, and `MarkSent`, `MarkSentError`, `MarkFailed` or
`MarkFailedIgnored`. `Crash` is the end of the process at any point; it also
stands for `Close`, which does not wait for the worker. An UPDATE waits for the
row locks of an open claim. Timestamps are kept relative to the present: ages
stop at five minutes, waits shrink to 0; the conditions of the code cannot tell
the difference. Within a batch the model publishes in any order, a superset of
the order the query returned.

`created_at` is `time.Now()` while the event is built, before the INSERTs and the
commit, so `Enqueue` makes a row visible anywhere in the order of the rows that
are there already. Equal timestamps are left out.

`overrun`, `disturbed` and `late` are history: the rows somebody held beyond the
lease, the rows delivered by a publication whose outcome was then lost, and the
pairs whose older row was committed after the younger one had been claimed. They
let the properties say exactly when the outbox is exactly-once and in order.

### AuthAccounts

A `Request` is one call; its program counter says which statement is next.
Reads outside of a transaction see `replica`, an earlier state of `db`
(`GetReadOnlyOrTx`); Accept reads inside its transaction and sees `db`. A
transaction is the sequence of its INSERTs (`work`) and how many were executed
(`inserted`); `Insert` waits for other transactions that hold one of its unique
keys, `UniqueViolation` is error 23505, `Commit`, `CommitLost` and `Fail` are
the ways out of `execute`. Logins and emails keep their spellings: `trim` and
`norm` are constants with the laws of `TrimSpace` and `ToLower`, and the
instances use texts in several spellings and names that collide with the ones
the code derives (`vk_<id>`, `yandex-<subject>`, `vk-<id>@vk.local`).

### DlqConsumer

Messages are offsets of one partition. A session starts at `committed`, or, as
long as the group has committed nothing, where `initial` says (`StartOffset`):
at the oldest message, or at the newest, which is also what an unknown
`offset_initial` means. `missed` remembers what such a session started behind, be it
messages nobody fetched or messages an earlier session had in its batch when it ended
without a commit; with the newest offset the group passes over them (`PassedOver`). It puts messages into a batch (`first..fetched-1`), processes them (`results`), saves
the failures (`SaveSucceeds`, `SaveFails`, all at once or one by one), and marks
them one at a time (`FinalizeMessage`). sarama's part (committing the highest
mark, giving uncommitted messages to the next session) is external. Rebalances,
shutdown and crashes come at any step.

### TransactionManager

A goroutine has a stack of calls, each with at most one connection; `execute`
goes from acquiring through BEGIN and the callback to commit or rollback, with
the deferred release and the rethrown panic. An ended context or a lost
connection comes at any step. `OutcomeIsTrue` compares what `execute` returned
with what the database did (an error may hide a commit, never the reverse),
`ConnectionsConserved` and `ActiveCountsOpenTransactions` that nothing leaks on
any path. A transaction inside a callback takes a second connection: with a
full pool everybody may wait, until the context ends (`CancellationUnwinds`);
nothing else waits while it holds (`NoHoldAndWait`). `size`, how many
connections a pool has, is chosen in the initial state and never changes.

### GrpcApp and ServiceLifecycle

`GrpcApp` has the owner's program counter, the serving goroutines, the
forwarding goroutines and the three error channels; a panic on a channel would be
recorded in `misuse`. The gateway calls the gRPC server over a client connection
(`conn`), which a goroutine of the registration closes when the context given to
Start is done (`ContextEnds`, `ConnCloses`): calls under way are cut off, their
handlers run on, and requests the gateway accepts later fail at once. The context
ends at any time, before, during or without Close. `ServiceLifecycle` uses what `GrpcApp` shows to its owner
and adds New (a constructor that fails closes what was built), Run and Close of
each service. Close does not wait for the outbox worker: the worker may find its
producer closed and panic, and `PanicHurtsNobody` says that this can only
happen when no handler is left and Close is past the servers. `ChannelInv`,
`OwnerInv` and `GatewayInv` of the first and `CloseInv`, `RunInv` and `WorkInv`
of the second are the strengthenings the proofs use.

### Producers

`TxProducer` has sarama's table of transaction states, `txLock`, and answers
that are lost. Its callers use one producer: `SendTypedMessagesTx`, or the
single operations in any order. A commit that fails and may not be aborted
leaves the transaction open: later calls fail until somebody calls CommitTx or
AbortTx, but none waits for ever (`EveryCallReturns`). A transaction that holds
offsets only is dropped by sarama. `AsyncProducer` has the unbuffered channels,
the result loop and the two phases of Close. `SyncProducer` has batches whose
messages fail one by one; `required_acks` is -1 as in all configurations of the
repository (with 0, which the options accept, no broker answers). Close is called when no call is in progress, as the
services do; `Hasty` of `MCProducers` is the owner that does not wait.

### VKConsumer

Members take turns in owning the partition; a failed message is left unmarked
and the loop goes on, so a later mark commits past it. That is the code's
decision; `PassedOverBehindSuccess` states its exact price, and
`NothingSkippedUnread` that there is no other. Accept is a choice here; what it
does is in `AuthAccounts`. `initial` is where a group without a committed offset
starts.

### Repository

Sessions run every statement of the repository on a table with a key, a unique
column and another one, inside and outside transactions. PostgreSQL is
external: READ COMMITTED, the four row lock modes, NOWAIT and SKIP LOCKED,
waits for uncommitted keys, and the failed transaction. A statement that waits
is not enabled. Options are resolved as the code does (limits replace, orders
add up, zero is none). `LocksProtect` joins what a claim promises (a row
selected for a lock is as it was read) with what the advisory locks promise.

### AuthRpc

A text is its runes, the bytes of a rune and the blanks around it; an e-mail
address is what `mail.ParseAddress` finds. The rules are those of the generated
`validate` methods. The application is reduced to its own check, the hash, the
account and the errors it may return.

### AvroEncoder and StackTrace

The varint is a recursive function on the `Span` values of a long (2^64 in Go);
`ReadsAs` reads a record back by the Avro specification. The schema id is cached under a mutex
that is held during the HTTP request. In `StackTrace` the frames are read from
the storage of a pooled stack when they are formatted, not when they are
captured, so a stack that is freed too early shows another goroutine's frames.

## Runs

Instances that ask related questions share a run: the MC module adds a variable
that is chosen in the initial state and never changes (`load`, `limit`, `atOnce`,
`crowd`, `start`, `topic`, `part`), or the module itself has one (`crew`, the
goroutines that share the producer; `initial`; `size`), and the behaviour is that of one
instance. A property that is a conjunction names its parts, which are stated
in the component's module.

| run | instances | shows |
|-----|-----------|-------|
| `outbox_safety` | 3 workers on 1 row with all backoffs; 2 workers on 2 rows with a coarse clock | `LeaseExclusive`, `SnapshotIsCurrent`, `SentIsFinal`: before an overrun a row has one holder, the attempt count in memory is the row's, sent is final. `OnceUnlessDisturbed`: a duplicate has a cause. `SentWasDelivered`. Refinement of `OutboxDelivery` |
| `outbox_live` | 2 workers on 1 row; 1 worker on 2 rows, one of them unpublishable, batch of 1 and of 2; fair | `NoOvertaking`: no row is delivered before an older one was claimed, unless that was committed too late. `EveryRowIsSettled`: with room in the batch besides the unpublishable rows every other row is sent, and the refinement holds with its liveness |
| `auth` | any 2 of 39 calls; any 3 of 7 external calls; any 3 of 6 calls that compete for names; fair | names unique up to case and blanks; ErrUserAlreadyExists is never false; one account per VK id; an answer without error is backed by committed rows; refinement of `AccountDirectory`; every call returns |
| `dlq` | 3 messages, batch of 2, one undecodable; a group that starts at the oldest message with a saver of batches and of single messages, one that starts at the newest with a saver of batches; fair | no message is lost, and every message is committed, but those a group without a committed offset started behind; duplicate dead letters have a cause; the consumer stops when asked |
| `dlq_disabled` | 2 messages, single mode, `save_to_dlq` off | **violation**, see below |
| `transactions` | 1 goroutine, two pools of 2, nesting, panics, lost connections, options; 2 goroutines that compete for 1 connection; fair | `ExecuteSettlesEverything`: connections are conserved, the gauge counts open transactions, `execute` tells the truth, only a nested call waits while it holds, a failed construction leaves no pool. `EverybodyReturns` |
| `tx_producer` | 2 batchers of 2 messages; a goroutine that calls the single operations in any order; fair | `BatchesAreTransactions`: batches are atomic and alone in their transaction, nil means committed, the counter counts what was committed. `EveryCallReturns` |
| `tx_producer_count` | 2 batchers | **violation**, see below |
| `producers` | asynchronous: 2 senders, the owner closes after them, or at any time; synchronous: 2 callers with own topics; fair | `ClosesCleanly`: no panic, every message answered. `SyncAnswersAreTrue`: nil means written, a bad batch sends nothing, losses are handled. `AsyncEnds`: failures are reported, everybody ends |
| `vk_consumer` | 2 members, 4 messages, 3 faults, one poison; a group that starts at the oldest message, and one at the newest; fair | `PassesOverForAReason`: which messages may be passed over. `CommittedOnlyGrows`. `NoneIsForgotten`: every message is attempted |
| `repository` | 2 sessions: reads and writes on 2 rows; every lock mode on 1 row; locked pages of 2 rows; 2 advisory keys | `ReadsAreRight`: transactions read their writes, pages partition a listing. `LocksProtect`: what was selected for a lock stays as it was read, nobody shares an advisory lock. `ErrorChangesNothing` |
| `process` | the gRPC app; each of the three services; 1 call of every method with two odd fields, 2 calls with 2 interceptors; 42 events at the edges of varints, 2 goroutines with one encoder; 2 goroutines with 2 pooled stacks; fair | one property per module: `AppIsOrderly`, `ServicesCloseInOrder`, `CallsAreAnswered`, `RecordsAreReadable`, `TracesAreOwn`; and `ShutdownIsNoticed`: Close ends, and errors of Serve are not lost |

**Bounds.** `AttemptCap` stops the attempt counter: 5 keeps every delay of
`retryBackoff` apart, 1 is used where delays do not matter. `delivered` and
`dlq` count to 2, enough to see a duplicate. Where the leases are checked one row
is enough, because rows interact only through the query, which the instances
with two rows cover. Two or three calls are enough for the account tables
because a call meets the unique keys of one transaction at a time, and three are
one for each unique index of the chain (login, email, identity). `MaxRestarts` of 1 lets a session repeat what an
earlier one left. Pools of one and two connections are the
smallest on which a caller can block itself and two can block each other;
`MaxDepth` 2 is one call inside another, `MaxTx` two transactions after each
other. Two callers with two messages are
enough to interleave a batch with another; `Pipe` 2 is sarama's buffer of
messages without an answer. `MaxFaults` of 3 allows an eviction,
a crash and an error of Consume in one behaviour. `Full` is 2 instead of 64 in
`StackTrace` and `Span` 2^16 instead of 2^64 in `AvroEncoder`: call stacks and
numbers lie on both sides of every doubling and of every byte, and the times
end at the largest and the smallest long. `Lengths` holds each
bound of the rules and its successor, and 36 runes, which may be 72 bytes. The theorems have no such bounds.

**Fairness.** The ticker of `Run` and the clock go on; a claim, a publication or
a MarkSent that is tried for ever succeeds at some time (outbox); a statement
that is not blocked is executed (accounts); the consumer's goroutine runs,
sarama commits, and the save of a message that is tried for ever succeeds
(DLQ). Elsewhere a goroutine that can go on does (WF, the only kind `GrpcApp`
and `ServiceLifecycle` need), and mutexes, pools and channels do
not starve a waiter (SF: `sync.Mutex` hands over, pgxpool queues, a channel
serves its senders in turn); brokers, the
transaction coordinator and handlers answer, well or badly.
`CHECK_DEADLOCK FALSE` is set where the system
may stop: when a process has ended or every caller is done. Nothing is assumed
about crashes, lost commits or the replica.
`EveryRowIsSettled` speaks of fewer unpublishable rows than the batch has
places, and `EveryMessageIsCommitted` of `batch_timeout > 0`.

**Findings.** Two are runs that end in a violation.

- With `save_to_dlq: false` the consumer logs that the commit of a failed
  message is skipped, but `blockedPartitions` lives only as long as the batch:
  the next batch's mark commits past the message (`dlq_disabled`).
- `CommitTx` of the transactional producer swaps `pendingTx` after the
  transaction was released: messages of the next transaction are counted as
  delivered although it may be aborted (`tx_producer_count`).

More are visible in the models, but no run is about them.

- A signal ends the context given to `App.Start`, and with it the gateway's client
  connection (`auth.pb.gw.go:273`), before `Close` lets the gateway finish: its
  requests fail on every shutdown, although the handlers they reached run on;
  `AcceptedIsServed` says that nothing else cuts them off.
- With `offset_initial` new, or unknown, a session of the DLQ consumer that ends
  before the first commit leaves behind what it had fetched
  (`dql-consumer.go:158`); `NothingLost` excepts these messages.
- Of two registrations at once, the younger event may be delivered before the older
  one is in the table (`user_created_event.go:38`); `NoOvertaking` excepts it.

- `SendTypedMessages` of the synchronous producer counts a batch under the
  producer's topic, also messages that go elsewhere
  (`sync-producer/producer.go:132`); `SyncProducer` counts as the code does.
- `auth.proto:43` and the generated rule (`auth.pb.validate.go:94`) allow
  passwords of up to 128 runes; bcrypt refuses more than 72
  bytes (`bcrypt.go:16`), so Register answers a valid request with Internal;
  `AuthRpc` has this answer.
- A stack trace of "the first frame" (`stacktrace.go:36`) holds two, because its
  slice has two places (`stacktrace.go:74`); so has the one in `StackTrace`.

## Proofs

TLAPS proves the theorems below for every value of the constants. Each module
of proofs extends the module it is about (`ProcessProofs` extends
`MCProcess`, which says how the parts of a process run); the only assumptions are the named
`ASSUME`s next to the constants, which TLC evaluates in every run.

**`OutboxWorkerProofs`** (any rows, workers, batch size, lease and clock step).
`TypeCorrect` is inductive. `LeaseExclusive` is not: a worker may pick a row
whose status looks stale while somebody else publishes it. The strengthening
says how a claim and a row age together: `BatchInv` ties the batch of a worker
to where it is in `RunOnce`, and `LeaseInv` says that, until a lease overruns,
the holder of a row is alone, its claim is younger than `StaleAfter`, the row
says `processing` and is exactly as old as the claim. So `PickPending` cannot
see it as stale. `LeaseExclusion`, `SnapshotAgreement` and `SentFinality`
follow. `SentInv` (whoever is about to `MarkSent` has published) gives
`SentSoundness` and, action by action, `DeliveryRefinement`; `OnceInv` (what was
published by whom and was not disturbed) gives `AtMostOnce`. `CreationOrder`
is about one worker, as the property is false of two: behind a row that waits
for its first claim all younger rows are pending and undelivered, and a
worker that holds a younger one is still claiming and holds the older one too
(`OrderInv`); a row that was committed when a younger one had been claimed
is outside of this order.

**`AuthAccountsProofs`** (any requests, calls and texts; `norm`, `trim` and the
derived names are arbitrary functions with the idempotence stated in
`NormAssumption` and `TrimAssumption`). Every step of a request is first shown
to be of one of six kinds (it returns, moves on, begins a transaction, inserts,
commits, commits without hearing of it). The invariant has three parts.
`KeyInv`: no unique key occurs twice among the committed rows and the rows of
all open transactions; without the open ones, a commit could break it.
`TableInv`: stored names are in normal form, stored subjects are trimmed, every
identity has its account, every account made by Accept has its VK identity, and
the replica has nothing that the primary has not. `RequestInv`: a request that
is writing has one of five transactions, and by the statement it is at, what
it has read is in the primary; account `r` does not exist before request `r`
committed. `NamesAreUnique`, `ExistsAnswersAreTrue`, `SuccessIsDurable` and
`VKUsersAreUnique` follow, and `DirectoryRefinement` maps each of the
transactions to one step of `AccountDirectory`.

**`DlqConsumerProofs`** (any log, batch size, number of attempts and restarts).
`TypeCorrect` needs `RoomInv`: a consumer that polls has room for one more.
`NothingIsLost`, under `DlqSave`, needs `LossInv`: nothing is ever left
unmarked, so a mark is where the batch begins; everything below the mark, and in a
session everything below the batch, is settled or passed over; and
the results and saves of the batch are what they claim. Without `DlqSave` the
first conjunct fails, which is the finding. `RowsAreUnique` needs `RowInv`: a row
of a message that was not given back lies before the part of the batch that is
still to be saved. It holds for every configuration.

**`TransactionManagerProofs`** (any callers, pools, depth of nesting and number
of transactions). `ExecuteSettles`. The counts run over all stacks of calls, so
the invariant counts sets of places in them: for each pool, the free connections
and the calls that hold one (`HeldIn`) make up its size, and the gauge is the
number of calls of `execute` whose transaction is open (`OpenWith`). Every call of a stack
is `Sound` by itself: what it holds fits where it is, and only the top of a
stack is outside its callback (`StackInv`). Every step changes one stack, at its
top, in one of a few ways (a call begins, moves, returns), and a lemma per way
carries the invariant. No two calls have the same transaction (`IdInv`), and
one that is running has no outcome yet (`OutcomeInv`), so what `execute` counts
can be compared with what the database did.

**`VKConsumerProofs`** (any members, log, poison and faults). `PassedOver`: the
offset passes over a message that nobody accepted only behind a later one that
was accepted, and over one that nobody attempted only where the group started
at the newest message. A committed or marked offset lies just behind an accepted
message (`MarksInv`); everything before the position of a claim was attempted or
is older than the group's start, and the mark is not beyond the position
(`ClaimInv`). `OffsetGrows` needs `OwnerInv`: the generation's owner is alone
and neither its position nor its mark is behind the committed offset.

**`ProducerProofs`** (any goroutines, calls, sizes and capacities; the number of
callers is finite where messages are counted). `BatchesAtomic`:
messages of one batch share one fate and are alone in their transaction, and a
call that returned nil was committed; the counter never runs ahead of the
committed messages. While only batches run, one call at a time has the
transaction, and all messages in it are of that call (`OwnerInv`); each place of the call
says what may have become of its messages (`PhaseInv`), so a result is true
when it is given and stays true (`ResultInv`). The single operations share the
producer without such an order: the part about the counter is for a goroutine that
is alone with the producer, and `CountInv` bounds `counted` and `pendingTx` by the
messages that are committed or were reported as delivered.
`AsyncClosesCleanly`: sarama has taken a prefix of every batch, and what was reported
is done with (`QueueInv`); an owner that waits closes the input when nobody can send
any more, so sarama refuses nothing, and when it closes its channels it has answered
everything (`OrderlyInv`). `FailuresAreReported` follows: a failure is handed to the handler
or to the error of Close, in the step that takes it from sarama, and to one of
them only. `SyncAnswersHold`: each place of a call says which of its messages have
an answer (`CallInv`), what is acknowledged is in the log of its topic, and no
message is in another log (`LogInv`), and only the messages of calls that returned nil
are counted (`CountInv`). The counter
is a sum over topics; the invariant compares sizes of sets instead: the counter
of a topic is the number of places it has counted.

**`RepositoryProofs`** (any keys, values, sessions and statements). Every
statement is first shown to be of one of four kinds: it reads, is refused,
changes a row, or locks rows. `LocksHold`: for each of them the rows that others
have locked stay as they are (`Kept`); a lock that was granted is in no conflict
with another (`HeldInv`); so what was selected for a lock stays as it was read
until its transaction ends. Advisory locks have an invariant of their own.
`ErrorsAreHarmless`: a statement that answers with an error leaves the rows
alone. `ReadsOwnWrites`: what a transaction reads
of a key it has written is what it wrote. With it, the types and `PagesDivide`,
`ReadsHold` has the whole of `ReadsAreRight`. `PagesDivide` holds for pages of any
size: a finite set of keys has an order in either direction, and only one, which
Limit and Offset cut into pieces. That an order exists would be an induction over the
number of keys; the proof takes the least number of keys for which a set has none,
and leaves out its smallest key.

**`ProcessProofs`** (any requests and handlers, with or without the gateway, any
batch, any stacks, any events). `AppIsSafe`: a server's channel is untouched until the goroutine that
serves has ended, and it is closed by whoever ended it or by a Close that came
before it started; Notify is closed when no forwarder is left
(`ChannelInv`); the gateway is quiet before `GracefulStop` is called, except
after its timeout or a failure, and its connection is closed only when the context
is done (`GatewayInv`), so until then a request it accepted finds a server. `ServicesAreOrderly` has one proof for the three services: `Life(s)` is
the life of service `s`, and `Orders` is all it knows of the sequences in which
the services set up and close: the same resources, none twice, the server
before the pool and the publisher. What Close has passed over is closed
(`CloseInv`), setup has built everything unless it failed (`RunInv`), handlers
end with the server (`WorkInv`). `CallsAreAnsweredRight` holds for any number of
calls of any methods and for texts of any length: a call keeps its request from Receive
on, has passed validation when its handler runs, and has an account only after a
registration that passed both checks (`CallInv`); all interceptors count in the
collector that is registered, as many calls as got each code (`CountInv`).
What the checks need of the rules is in two lemmas: `Fits`, which puts `auth.proto` and
`validateRegisterInput` together, and `InputChecks`.
`TracesStayOwn`: a storage has one holder, and it holds the frames of its holder's
call, of which `out` is the beginning (`TraceInv`, `HolderInv`). That a full trace
is complete depends on the loop of Capture; `GrowUnfolds` shows that the
recursive function `Grow` satisfies its equation, and `GrowsFarEnough` that it ends
with room to spare. `EventReadsBack` is the encoder's: whatever the event, what `EncodeEvent`
writes is read back by the Avro specification, up to the length of a text and to both
ends of the range of a long. It needs that `Varint` and `VarintValue` satisfy
their equations, which is an induction over data. `RecursionWorks` does it once for
both: a recursion is given by functions (where it stops, where it goes on, how
heavy an argument is, how results are combined), so no operator is a parameter, and
`LeastElement` takes the lightest argument at which no function computes it.
Then `VarintsReadBack` takes the smallest number that would not read back.
`RecordsStayReadable` adds the workers that share an encoder: the cached schema id is
the one of the registry, and a worker that asks holds the mutex and asks first (`EncoderInv`).

Assumptions that are not about types: keys, callers and senders that are
counted or ordered are finite sets; a call stack is deeper than what its callers
skip (`StackTraceAssumption`); the time of an event fits a long
(`AvroEncoderAssumption`).

The strengthenings were checked with TLC on the instances of the runs above
before they were proved. Every invariant and every safety property of the
passing runs is stated by a theorem. What stays with TLC:

- liveness: `EveryRowIsSettled`, `ImplementsConfirmation` (a part of it),
  `EveryCallReturns` of the accounts and of the producer, `EveryMessageIsCommitted`,
  `StopsWhenAsked`, `EverybodyReturns`, `AsyncEnds` (its safety part is
  `FailuresAreReported`), `NoneIsForgotten` and `ShutdownIsNoticed`, since the prover has neither
  fairness nor `ENABLED`;
- the properties of the two violations, which are false.

## Not modelled, and the plan

The plan is carried out. What could be added is the composition of AuthAccounts
and OutboxWorker: an account that exists is announced in the topic. Each of the
two halves is proved, that the event is committed with the account
(`DirectoryRefinement`) and that a row that says sent was delivered (`SentSoundness`).

Left out for good: the clocks of different hosts (the model has one), SQL
text, the routes of the HTTP gateway and its pages (no state), a gateway
registered with a connection of the caller (no service does), tokens, hashes and
the Yandex client (library calls without state; their failures are `Fail` of
`AuthAccounts`), logging and tracing, configuration (its values are constants),
and generated code other than the validation and the gateway's connection.
