------------------------------ MODULE Repository ------------------------------
(***************************************************************************)
(* The generic repository (internal/repository/postgresbase): its          *)
(* statements on one table with a primary key, a unique column "name" and  *)
(* a column "val", called by goroutines inside and outside transactions.   *)
(* Inside a transaction every statement runs on the connection of the      *)
(* transaction (GetDefaultOrTx, GetReadOnlyOrTx); outside, each one is     *)
(* committed by itself.                                                    *)
(*                                                                         *)
(* PostgreSQL is external: READ COMMITTED, row locks with the conflicts of *)
(* their modes, waiting for uncommitted writes, advisory locks, and a      *)
(* transaction that fails with the first SQL error.  A statement that      *)
(* waits is one that is not enabled.                                       *)
(***************************************************************************)
EXTENDS Naturals, FiniteSets, Sequences, SequencesExt, TLC

CONSTANTS Sessions,  \* goroutines, each with at most one transaction
          Ids,       \* primary keys
          Names,     \* values of the unique column
          Vals,      \* values of the other column
          Keys,      \* keys of advisory locks
          LockModes, \* the modes a caller may ask for, and "bad" for any other
          Ops        \* the kinds of statements that are called

ASSUME RepositoryAssumption ==
  /\ Vals \subseteq Nat /\ Ids \subseteq Nat /\ IsFiniteSet(Ids) /\ "-" \notin Names
  /\ Ops \subseteq {"read", "create", "change", "lock", "advisory"}
  /\ LockModes \subseteq {"", "update", "noKeyUpdate", "share", "keyShare", "bad"}

Gone == [name |-> "-", val |-> 0]
Row == [name : Names, val : Vals]
Table == UNION {[S -> Row] : S \in SUBSET Ids}
Writes == UNION {[S -> Row \cup {Gone}] : S \in SUBSET Ids}

\* The lock modes by strength; two modes conflict when their strengths add up
\* to five: FOR KEY SHARE, FOR SHARE, FOR NO KEY UPDATE, FOR UPDATE.
ModeOf == [keyShare |-> 1, share |-> 2, noKeyUpdate |-> 3, update |-> 4]
Conflict(m, n) == m + n >= 5

VARIABLES
  tab,    \* the committed rows
  tx,     \* the transaction of each session: "none", "open", "failed"
  own,    \* its uncommitted writes
  held,   \* its row locks
  claim,  \* the rows its locking selects returned, as they were
  adv,    \* its advisory locks
  told,   \* the keys it was told to hold
  res     \* what the last call returned, and to which session

SessionSymmetry == Permutations(Sessions)

vars == <<tab, tx, own, held, claim, adv, told, res>>

Errors == {"ok", "no_affected_rows", "not_found", "no_rows", "unique", "not_available",
           "invalid"}

\* One type invariant.
TypeOK ==
  /\ tab \in Table
  /\ tx \in [Sessions -> {"none", "open", "failed"}]
  /\ own \in [Sessions -> Writes]
  /\ held \in [Sessions -> UNION {[S -> 1 .. 4] : S \in SUBSET Ids}]
  /\ claim \in [Sessions -> Table]
  /\ adv \in [Sessions -> SUBSET Keys] /\ told \in [Sessions -> SUBSET Keys]
  /\ res.to \in Sessions
  /\ res.out \in [kind : {"none", "read", "write", "lock"}, err : Errors, rows : Table]

Empty == [i \in {} |-> Gone]
Returned(kind, err, rows) == [kind |-> kind, err |-> err, rows |-> rows]
Answered(s, out) == res' = [to |-> s, out |-> out]

UniqueNames(t) == \A i, j \in DOMAIN t : t[i].name = t[j].name => i = j

\* NewRepository, on a table that holds whatever it may.
Init ==
  /\ tab \in {t \in Table : UniqueNames(t)}
  /\ tx = [s \in Sessions |-> "none"]
  /\ own = [s \in Sessions |-> Empty]
  /\ held = [s \in Sessions |-> Empty]
  /\ claim = [s \in Sessions |-> Empty]
  /\ adv = [s \in Sessions |-> {}] /\ told = [s \in Sessions |-> {}]
  /\ \E s \in Sessions : res = [to |-> s, out |-> Returned("none", "ok", Empty)]

-----------------------------------------------------------------------------
(* The database: what a session sees, and what a statement does.           *)

Only(f, S) == [i \in DOMAIN f \cap S |-> f[i]]
Override(f, g) == [i \in DOMAIN f \cup DOMAIN g |-> IF i \in DOMAIN g THEN g[i] ELSE f[i]]
Apply(t, w) ==
  LET all == Override(t, w) IN Only(all, {i \in DOMAIN all : all[i] # Gone})

\* A statement reads what is committed, and the writes of its transaction.
View(s) == Apply(tab, own[s])

\* The transaction of a session that has none is the statement itself.
InTx(s) == tx[s] = "open"

Free(s, i, mode) ==
  \A o \in Sessions \ {s} : i \in DOMAIN held[o] => ~Conflict(held[o][i], mode)

\* A name waits for whoever is about to give it or to take it away.
NameSettled(s, n) ==
  \A o \in Sessions \ {s} : \A i \in DOMAIN own[o] :
    own[o][i].name # n /\ (i \in DOMAIN tab => tab[i].name # n)

\* Adding locks to those a transaction holds keeps the stronger one.
Strongest(h, l) ==
  Override(h, [i \in DOMAIN l |-> IF i \in DOMAIN h /\ h[i] > l[i] THEN h[i] ELSE l[i]])

\* A write locks its rows: FOR NO KEY UPDATE as long as the keys stay.
WriteLocks(s, w) ==
  [i \in DOMAIN w |-> IF i \in DOMAIN View(s) /\ View(s)[i].name = w[i].name THEN 3 ELSE 4]

\* A statement that PostgreSQL refuses ends the transaction it runs in.
Refused(s, out) ==
  /\ Answered(s, out)
  /\ tx' = [tx EXCEPT ![s] = IF InTx(s) THEN "failed" ELSE @]
  /\ UNCHANGED <<tab, own, held, claim, adv, told>>

\* A statement with the writes w waits for the rows and the names it needs.
Stmt(s, w, out) ==
  /\ \A i \in DOMAIN w : Free(s, i, WriteLocks(s, w)[i])
  /\ \A i \in DOMAIN w : w[i] # Gone => NameSettled(s, w[i].name)
  /\ IF ~UniqueNames(Apply(View(s), w))
       THEN Refused(s, Returned("write", "unique", Empty))
       ELSE /\ Answered(s, out)
            /\ IF InTx(s)
                 THEN /\ own' = [own EXCEPT ![s] = Override(@, w)]
                      /\ held' = [held EXCEPT ![s] = Strongest(@, WriteLocks(s, w))]
                      /\ tab' = tab
                 ELSE tab' = Apply(tab, w) /\ UNCHANGED <<own, held>>
            /\ UNCHANGED <<tx, claim, adv, told>>

\* An INSERT with the key i waits for a session that is inserting it.
KeySettled(s, i) == \A o \in Sessions \ {s} : i \notin DOMAIN own[o]

\* A call that sends nothing to the database, or changes nothing there.
Nothing(s, out) ==
  /\ Answered(s, out)
  /\ UNCHANGED <<tab, tx, own, held, claim, adv, told>>

Calls(s, op) == op \in Ops /\ tx[s] # "failed"

BeginTx(s) ==
  /\ tx[s] = "none"
  /\ tx' = [tx EXCEPT ![s] = "open"]
  /\ Answered(s, Returned("none", "ok", Empty))
  /\ UNCHANGED <<tab, own, held, claim, adv, told>>

EndTx(s, t) ==
  /\ tab' = t
  /\ tx' = [tx EXCEPT ![s] = "none"]
  /\ own' = [own EXCEPT ![s] = Empty]
  /\ held' = [held EXCEPT ![s] = Empty]
  /\ claim' = [claim EXCEPT ![s] = Empty]
  /\ adv' = [adv EXCEPT ![s] = {}] /\ told' = [told EXCEPT ![s] = {}]
  /\ Answered(s, Returned("none", "ok", Empty))

Commit(s) == tx[s] = "open" /\ EndTx(s, View(s))
Rollback(s) == tx[s] # "none" /\ EndTx(s, tab)

-----------------------------------------------------------------------------
(* Reading.  A condition is a set of values of "val".                      *)

Where == SUBSET Vals \ {{}}
Matching(s, w) == Only(View(s), {i \in DOMAIN View(s) : View(s)[i].val \in w})

\* A bug: reads take a connection of the read-only pool, transaction or not.
ReadOnlyOrTx_PoolOnly(s) == tab

\* GetReadOnlyOrTx: the table as the connection of the read shows it.
ReadOnlyOrTx(s) == View(s)

\* SelectOption: limits and offsets replace an earlier one, orders add to it.
Option(field, value) == [field |-> field, value |-> value]
OptionLists == {<<>>, <<Option("limit", 2), Option("order", "asc"), Option("offset", 1)>>,
                <<Option("order", "desc"), Option("limit", 1), Option("order", "asc")>>}
ResolveOptions(opts) ==
  FoldLeft(LAMBDA acc, o : [acc EXCEPT ![o.field] = IF o.field = "order" THEN Append(@, o.value)
                                                                          ELSE o.value],
           [limit |-> 0, offset |-> 0, order |-> <<>>], opts)

\* The orders of S that ORDER BY admits: any, without one; the first decides.
Orders(S, order) ==
  {q \in SetToSeqs(S) :
     order # <<>> => \A m, n \in DOMAIN q :
                       m < n => IF Head(order) = "asc" THEN q[m] < q[n] ELSE q[m] > q[n]}

\* applySelectOptions: the rows from the offset, at most limit of them; zero
\* means neither.
Page(q, o) ==
  {q[n] : n \in {m \in DOMAIN q : m > o.offset /\ (o.limit > 0 => m <= o.offset + o.limit)}}

\* The rows up to the end of the page.
UpToPage(q, o) ==
  {q[n] : n \in {m \in DOMAIN q : o.limit > 0 => m <= o.offset + o.limit}}

\* SelectBy and Select.
SelectBy(s) ==
  /\ Calls(s, "read")
  /\ \E w \in Where, opts \in OptionLists :
       LET t == ReadOnlyOrTx(s)
           o == ResolveOptions(opts)
       IN \E q \in Orders({i \in DOMAIN t : t[i].val \in w}, o.order) :
            Nothing(s, Returned("read", "ok", Only(t, Page(q, o))))

\* FindByPrimaryKeys: no keys, no rows, and no statement.
FindByPrimaryKeys(s) ==
  /\ Calls(s, "read")
  /\ \E S \in SUBSET Ids : Nothing(s, Returned("read", "ok", Only(ReadOnlyOrTx(s), S)))

\* Exists and Count tell of the rows there are, an order or a page aside.
Count(s) ==
  /\ Calls(s, "read")
  /\ \E w \in Where :
       LET t == ReadOnlyOrTx(s)
       IN Nothing(s, Returned("read", "ok", Only(t, {i \in DOMAIN t : t[i].val \in w})))

\* SelectOne, behind SelectOneBy and FindByPrimaryKey: a row or ErrNotFound.
SelectOne(s) ==
  /\ Calls(s, "read")
  /\ \E i \in Ids :
       Nothing(s, IF i \in DOMAIN ReadOnlyOrTx(s)
                    THEN Returned("read", "ok", Only(ReadOnlyOrTx(s), {i}))
                    ELSE Returned("read", "not_found", Empty))

-----------------------------------------------------------------------------
(* Writing.                                                                *)

\* A bug: the rows of a batch are sent one by one, and some are stored before
\* one is refused.
Insert_OneByOne(s, w) ==
  IF \E i \in DOMAIN w : i \in DOMAIN View(s)
    THEN LET new == Only(w, Ids \ DOMAIN View(s))
         IN Stmt(s, new, Returned("write", "unique", Empty))
    ELSE Stmt(s, w, Returned("write", "ok", w))

\* Create and CreateReturning: one INSERT, refused when one of its keys exists.
Insert(s, w) ==
  /\ \A i \in DOMAIN w : KeySettled(s, i)
  /\ IF \E i \in DOMAIN w : i \in DOMAIN View(s)
       THEN Refused(s, Returned("write", "unique", Empty))
       ELSE Stmt(s, w, Returned("write", "ok", w))

\* CreateBatch sends all rows in one INSERT; an empty batch is not sent.
CreateBatch(s) ==
  /\ Calls(s, "create")
  /\ \E S \in SUBSET Ids : \E w \in {f \in [S -> Row] : UniqueNames(f)} :
       \/ S = {} /\ Nothing(s, Returned("write", "ok", Empty))
       \/ S # {} /\ Insert(s, w)

\* The updates an upsert may carry; paramsWithout(pk) is all other columns.
Updates == {[x \in {} |-> 0]} \cup {[val |-> v] : v \in Vals} \cup Row

SetFields(row, fields) ==
  [name |-> IF "name" \in DOMAIN fields THEN fields.name ELSE row.name,
   val |-> IF "val" \in DOMAIN fields THEN fields.val ELSE row.val]

\* upsertDataset: with columns to update, ON CONFLICT of the target updates
\* the row that is there, and another conflict is an error.
Upsert(s) ==
  /\ Calls(s, "create")
  /\ \E i \in Ids, r \in Row, u \in Updates, target \in {"id", "name"} :
       LET view == View(s)
           there == IF target = "id" THEN {i} \cap DOMAIN view
                                     ELSE {j \in DOMAIN view : view[j].name = r.name}
           w == [j \in there |-> SetFields(view[j], u)]
       IN /\ DOMAIN u # {}
          /\ KeySettled(s, i) /\ NameSettled(s, r.name)
          /\ IF there = {} THEN Insert(s, [x \in {i} |-> r])
                           ELSE Stmt(s, w, Returned("write", "ok", w))

\* Without columns: DO NOTHING on any conflict.  Upsert returns nil and
\* UpsertReturning the driver's error for no row.
UpsertDoNothing(s) ==
  /\ Calls(s, "create")
  /\ \E i \in Ids, r \in Row :
       /\ KeySettled(s, i) /\ NameSettled(s, r.name)
       /\ IF i \in DOMAIN View(s) \/ (\E j \in DOMAIN View(s) : View(s)[j].name = r.name)
            THEN \E err \in {"ok", "no_rows"} : Nothing(s, Returned("write", err, Empty))
            ELSE Insert(s, [x \in {i} |-> r])

\* Sets columns of the rows S; "none" is what the caller is told of no row.
UpdateRows(s, S, fields, none) ==
  LET w == [i \in S |-> SetFields(View(s)[i], fields)]
  IN IF S = {} \/ DOMAIN fields = {}
       THEN Nothing(s, Returned("write", none, Empty))
       ELSE Stmt(s, w, Returned("write", "ok", w))

\* Update and UpdateReturning set all columns of a row that must exist.
Update(s) ==
  /\ Calls(s, "change")
  /\ \E i \in Ids, r \in Row : UpdateRows(s, {i} \cap DOMAIN View(s), r, "no_affected_rows")

\* UpdateFieldsWhere counts rows; no fields, no statement and no row.
UpdateFieldsWhere(s) ==
  /\ Calls(s, "change")
  /\ \E w \in Where, u \in Updates : UpdateRows(s, DOMAIN Matching(s, w), u, "ok")

UpdateFieldsByPrimaryKey(s) ==
  /\ Calls(s, "change")
  /\ \E i \in Ids, u \in Updates :
       UpdateRows(s, {i} \cap DOMAIN View(s), u, "no_affected_rows")

DeleteRows(s, S, none) ==
  IF S = {} THEN Nothing(s, Returned("write", none, Empty))
  ELSE Stmt(s, [i \in S |-> Gone], Returned("write", "ok", Empty))

\* Delete and DeleteByPrimaryKey: no row is an error, no key is none.
Delete(s) ==
  /\ Calls(s, "change")
  /\ \E S \in SUBSET Ids :
       DeleteRows(s, S \cap DOMAIN View(s), IF S = {} THEN "ok" ELSE "no_affected_rows")

\* DeleteWhere and DeleteWhereReturning.
DeleteWhere(s) ==
  /\ Calls(s, "change")
  /\ \E w \in Where : DeleteRows(s, DOMAIN Matching(s, w), "ok")

\* deleteOneReturning reports ErrNotFound where Delete has ErrNoAffectedRows.
DeleteByPrimaryKeyReturning(s) ==
  /\ Calls(s, "change")
  /\ \E i \in Ids : DeleteRows(s, {i} \cap DOMAIN View(s), "not_found")

-----------------------------------------------------------------------------
(* Selecting for a lock.                                                   *)

\* LockOptions.SQL: an empty mode is FOR UPDATE, anything else unknown is an
\* error before a connection is taken.
LockStrength(mode) == IF mode = "" THEN ModeOf.update ELSE ModeOf[mode]
LockPolicies == {"wait", "nowait", "skip", "bad"}

InvalidLock(s) ==
  /\ Calls(s, "lock")
  /\ \E mode \in LockModes, policy \in LockPolicies :
       /\ mode = "bad" \/ policy = "bad"
       /\ Nothing(s, Returned("lock", "invalid", Empty))

\* A bug: the select runs on a connection of its own, which gives its locks
\* back at once.
Locked_OtherConnection(s, S, seen, mode, none) ==
  /\ claim' = [claim EXCEPT ![s] = IF InTx(s) /\ mode >= 2
                                     THEN Override(@, Only(View(s), seen)) ELSE @]
  /\ Answered(s, Returned("lock", IF seen = {} THEN none ELSE "ok", Empty))
  /\ UNCHANGED <<tab, tx, own, held, adv, told>>

\* The rows S are locked for the rest of the transaction, if there is one, and
\* the rows seen are returned.
Locked(s, S, seen, mode, none) ==
  /\ held' = [held EXCEPT ![s] = IF InTx(s) THEN Strongest(@, [i \in S |-> mode]) ELSE @]
  /\ claim' = [claim EXCEPT ![s] = IF InTx(s) /\ mode >= 2
                                     THEN Override(@, Only(View(s), seen)) ELSE @]
  /\ Answered(s, Returned("lock", IF seen = {} THEN none ELSE "ok", Empty))
  /\ UNCHANGED <<tab, tx, own, adv, told>>

\* A locking select of a page of the rows, as options o say: it locks the rows
\* it skips for the offset too.  SKIP LOCKED pages through the free ones;
\* without it, a row of the page that is not free has the caller wait, or is
\* an error under NOWAIT.
LockPage(s, rows, m, policy, o, none) ==
  LET free == {i \in rows : Free(s, i, m)}
  IN \E q \in Orders(IF policy = "skip" THEN free ELSE rows, o.order) :
       LET S == UpToPage(q, o)
       IN \/ S \subseteq free /\ Locked(s, S, Page(q, o), m, none)
          \/ /\ policy = "nowait" /\ ~ S \subseteq free
             /\ Refused(s, Returned("lock", "not_available", Empty))

\* SelectForLock and LockByPrimaryKeys.
SelectForLock(s) ==
  /\ Calls(s, "lock")
  /\ \E w \in Where, mode \in LockModes \ {"bad"}, policy \in LockPolicies \ {"bad"} :
       \E opts \in OptionLists :
         LockPage(s, DOMAIN Matching(s, w), LockStrength(mode), policy, ResolveOptions(opts), "ok")

\* SelectOneForLock and LockByPrimaryKey: one row, whatever limit was given.
SelectOneForLock(s) ==
  /\ Calls(s, "lock")
  /\ \E w \in Where, mode \in LockModes \ {"bad"}, policy \in LockPolicies \ {"bad"} :
       \E opts \in OptionLists :
         LockPage(s, DOMAIN Matching(s, w), LockStrength(mode), policy,
                  ResolveOptions(Append(opts, Option("limit", 1))), "not_found")

\* AdvisoryTransactionLock and AdvisoryTransactionLock2 wait, the Try variants
\* answer false; outside a transaction the lock ends with the statement.
AdvisoryTransactionLock(s) ==
  /\ Calls(s, "advisory")
  /\ \E k \in Keys :
       /\ \A o \in Sessions \ {s} : k \notin adv[o]
       /\ adv' = [adv EXCEPT ![s] = IF InTx(s) THEN @ \cup {k} ELSE @]
       /\ told' = [told EXCEPT ![s] = IF InTx(s) THEN @ \cup {k} ELSE @]
  /\ UNCHANGED <<tab, tx, own, held, claim, res>>

-----------------------------------------------------------------------------
Next ==
  \E s \in Sessions :
    \/ BeginTx(s) \/ Commit(s) \/ Rollback(s)
    \/ SelectBy(s) \/ FindByPrimaryKeys(s) \/ Count(s) \/ SelectOne(s)
    \/ CreateBatch(s) \/ Upsert(s) \/ UpsertDoNothing(s)
    \/ Update(s) \/ UpdateFieldsWhere(s) \/ UpdateFieldsByPrimaryKey(s)
    \/ Delete(s) \/ DeleteWhere(s) \/ DeleteByPrimaryKeyReturning(s)
    \/ InvalidLock(s) \/ SelectForLock(s) \/ SelectOneForLock(s)
    \/ AdvisoryTransactionLock(s)

Spec == Init /\ [][Next]_vars

-----------------------------------------------------------------------------
\* The rows a transaction selected for a lock stay as it read them until it
\* changes them itself: nobody else changes or deletes them.
ClaimIsCurrent ==
  \A s \in Sessions :
    tx[s] = "open" => \A i \in DOMAIN claim[s] \ DOMAIN own[s] :
                        i \in DOMAIN tab /\ tab[i] = claim[s][i]

\* A call that reports an error has changed nothing, a batch included.
ErrorChangesNothing ==
  [][res' # res /\ res'.out.kind = "write" /\ res'.out.err # "ok"
       => tab' = tab /\ own' = own]_vars

\* A row that a write returned is the row its transaction will commit, and a
\* read inside a transaction shows what the transaction has written.
ReadYourWrites ==
  LET s == res.to
  IN tx[s] = "open" =>
       \A i \in DOMAIN own[s] \cap DOMAIN res.out.rows : res.out.rows[i] = own[s][i]

\* The pages of an ordered listing, one after the other, show every row once.
PageRows(rows, n, k, dir) ==
  UNION {Page(q, [limit |-> n, offset |-> n * k, order |-> <<dir>>]) : q \in Orders(rows, <<dir>>)}

Divided(rows, n, dir) ==
  LET pages == 0 .. Cardinality(rows)
  IN /\ UNION {PageRows(rows, n, k, dir) : k \in pages} = rows
     /\ \A k, l \in pages : k # l => PageRows(rows, n, k, dir) \cap PageRows(rows, n, l, dir) = {}

PagesPartition ==
  \A s \in Sessions, n \in 1 .. 2, dir \in {"asc", "desc"} : Divided(DOMAIN View(s), n, dir)

\* Reads inside a transaction show its own writes (GetReadOnlyOrTx takes the
\* connection of the transaction), and pages divide a listing.
ReadsAreRight == TypeOK /\ ReadYourWrites /\ PagesPartition

\* Two transactions never believe to hold the same advisory lock.
AdvisoryIsExclusive ==
  \A s, o \in Sessions : s # o => told[s] \cap told[o] = {}

\* Locks are taken on the connection of the transaction: rows selected for a lock
\* stay as they were, and an advisory lock has one holder.
LocksProtect == ClaimIsCurrent /\ AdvisoryIsExclusive

\* The strengthening behind them.  Row locks of two sessions never conflict; what
\* a transaction has written it has locked against everybody, what it selected
\* for a lock at least against changes; one that has ended holds nothing.
HeldInv ==
  /\ \A s \in Sessions : \A i \in DOMAIN held[s] : held[s][i] \in 1 .. 4
  /\ \A s, o \in Sessions : s # o =>
       \A i \in DOMAIN held[s] \cap DOMAIN held[o] : ~Conflict(held[s][i], held[o][i])
  /\ \A s \in Sessions : \A i \in DOMAIN own[s] : i \in DOMAIN held[s] /\ held[s][i] >= 3
  /\ \A s \in Sessions : \A i \in DOMAIN claim[s] : i \in DOMAIN held[s] /\ held[s][i] >= 2
  /\ \A s \in Sessions : tx[s] = "none" => DOMAIN claim[s] = {} /\ DOMAIN own[s] = {}
  /\ \A i \in DOMAIN tab : tab[i] # Gone

AdvisoryInv ==
  /\ \A s \in Sessions : told[s] \subseteq adv[s]
  /\ \A s, o \in Sessions : s # o => adv[s] \cap adv[o] = {}
===============================================================================
