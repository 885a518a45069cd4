--------------------------- MODULE RepositoryProofs ---------------------------
(***************************************************************************)
(* Theorems about the repository, for any number of goroutines and any     *)
(* rows, names, values and advisory keys, with proofs that TLAPS checks.   *)
(***************************************************************************)
EXTENDS Repository, FiniteSetTheorems, TLAPS

-----------------------------------------------------------------------------
(* Tables.                                                                 *)

LEMMA OnlyShape ==
  ASSUME NEW f, NEW S
  PROVE  /\ DOMAIN Only(f, S) = DOMAIN f \cap S
         /\ \A i \in DOMAIN f \cap S : Only(f, S)[i] = f[i]
  BY DEF Only

LEMMA OverrideShape ==
  ASSUME NEW f, NEW g
  PROVE  /\ DOMAIN Override(f, g) = DOMAIN f \cup DOMAIN g
         /\ \A i \in DOMAIN g : Override(f, g)[i] = g[i]
         /\ \A i \in DOMAIN f \ DOMAIN g : Override(f, g)[i] = f[i]
  BY DEF Override

\* The writes w on the table t: what they hold is there, or gone.
LEMMA ApplyShape ==
  ASSUME NEW t, NEW w
  PROVE  /\ \A i : i \in DOMAIN Apply(t, w) <=>
              \/ i \in DOMAIN w /\ w[i] # Gone
              \/ i \in DOMAIN t /\ i \notin DOMAIN w /\ t[i] # Gone
         /\ \A i \in DOMAIN Apply(t, w) :
              Apply(t, w)[i] = IF i \in DOMAIN w THEN w[i] ELSE t[i]
  <1> DEFINE all == Override(t, w)
             left == {i \in DOMAIN all : all[i] # Gone}
  <1>1. /\ DOMAIN all = DOMAIN t \cup DOMAIN w
        /\ \A i \in DOMAIN w : all[i] = w[i]
        /\ \A i \in DOMAIN t \ DOMAIN w : all[i] = t[i]
    BY OverrideShape
  <1>2. Apply(t, w) = Only(all, left)
    BY DEF Apply
  <1>3. /\ DOMAIN Only(all, left) = DOMAIN all \cap left
        /\ \A i \in DOMAIN all \cap left : Only(all, left)[i] = all[i]
    BY OnlyShape
  <1>4. \A i : i \in DOMAIN all \cap left <=> i \in DOMAIN all /\ all[i] # Gone
    OBVIOUS
  <1> HIDE DEF all, left
  <1>5. QED
    BY <1>1, <1>2, <1>3, <1>4

LEMMA EmptyShape == DOMAIN Empty = {}
  BY DEF Empty

\* The stronger of two locks.
LEMMA StrongestShape ==
  ASSUME NEW h, NEW l
  PROVE  /\ DOMAIN Strongest(h, l) = DOMAIN h \cup DOMAIN l
         /\ \A i \in DOMAIN h \ DOMAIN l : Strongest(h, l)[i] = h[i]
         /\ \A i \in DOMAIN l :
              \/ i \in DOMAIN h /\ h[i] > l[i] /\ Strongest(h, l)[i] = h[i]
              \/ ~(i \in DOMAIN h /\ h[i] > l[i]) /\ Strongest(h, l)[i] = l[i]
  <1> DEFINE m == [i \in DOMAIN l |-> IF i \in DOMAIN h /\ h[i] > l[i] THEN h[i] ELSE l[i]]
  <1>1. /\ DOMAIN m = DOMAIN l
        /\ \A i \in DOMAIN l : \/ i \in DOMAIN h /\ h[i] > l[i] /\ m[i] = h[i]
                               \/ ~(i \in DOMAIN h /\ h[i] > l[i]) /\ m[i] = l[i]
    OBVIOUS
  <1>2. Strongest(h, l) = Override(h, m)
    BY DEF Strongest
  <1> HIDE DEF m
  <1>3. /\ DOMAIN Override(h, m) = DOMAIN h \cup DOMAIN m
        /\ \A i \in DOMAIN m : Override(h, m)[i] = m[i]
        /\ \A i \in DOMAIN h \ DOMAIN m : Override(h, m)[i] = h[i]
    BY OverrideShape
  <1>4. QED
    BY <1>1, <1>2, <1>3

\* A session reads its own writes.
LEMMA ViewShape ==
  ASSUME NEW s \in Sessions
  PROVE  /\ \A i \in DOMAIN View(s) \cap DOMAIN own[s] : View(s)[i] = own[s][i]
         /\ \A i \in DOMAIN View(s) \ DOMAIN own[s] : i \in DOMAIN tab /\ View(s)[i] = tab[i]
  BY ApplyShape DEF View

-----------------------------------------------------------------------------
(* Every call is one of a few kinds of statements.                         *)

\* What a call returns of the rows its session has written.
Shows(s, out) ==
  \A i \in DOMAIN own[s] \cap DOMAIN out.rows : out.rows[i] = own[s][i]

Reads(s) == \E out : Nothing(s, out) /\ Shows(s, out)
IsRefused(s) == \E out : Refused(s, out) /\ out.rows = Empty
Changes(s) ==
  \E w, out : Stmt(s, w, out) /\ out.err = "ok" /\ out.rows \in {w, Empty}
Locks(s) ==
  \E S, seen, mode, none :
    /\ Locked(s, S, seen, mode, none) /\ mode \in 1 .. 4
    /\ seen \subseteq S /\ S \subseteq DOMAIN View(s)
    /\ \A i \in S : Free(s, i, mode)

Statement(s) == Reads(s) \/ IsRefused(s) \/ Changes(s) \/ Locks(s)

LEMMA ShowsEmpty == ASSUME NEW s, NEW k, NEW e PROVE Shows(s, Returned(k, e, Empty))
  BY EmptyShape DEF Shows, Returned

LEMMA ShowsRead ==
  ASSUME NEW s \in Sessions, NEW S, NEW k, NEW e
  PROVE  Shows(s, Returned(k, e, Only(View(s), S)))
  <1> DEFINE rows == Only(View(s), S)
  <1>1. \A i \in DOMAIN rows : i \in DOMAIN View(s) /\ rows[i] = View(s)[i]
    BY OnlyShape
  <1> HIDE DEF rows
  <1>2. Returned(k, e, rows).rows = rows
    BY DEF Returned
  <1>3. Shows(s, Returned(k, e, rows))
    BY <1>1, <1>2, ViewShape DEF Shows
  <1>4. QED
    BY <1>3 DEF rows

LEMMA StmtKinds ==
  ASSUME NEW s \in Sessions, NEW w, NEW rows \in {w, Empty},
         Stmt(s, w, Returned("write", "ok", rows))
  PROVE  Statement(s)
  BY DEF Statement, Changes, Returned

LEMMA NothingKinds ==
  ASSUME NEW s \in Sessions, NEW k, NEW e, Nothing(s, Returned(k, e, Empty))
  PROVE  Statement(s)
  BY ShowsEmpty DEF Statement, Reads

LEMMA ReadKinds ==
  ASSUME NEW s \in Sessions, SelectBy(s) \/ FindByPrimaryKeys(s) \/ Count(s) \/ SelectOne(s)
  PROVE  Statement(s)
  <1>1. CASE SelectBy(s)
    BY <1>1, ShowsRead DEF SelectBy, ReadOnlyOrTx, Statement, Reads
  <1>2. CASE FindByPrimaryKeys(s)
    BY <1>2, ShowsRead DEF FindByPrimaryKeys, ReadOnlyOrTx, Statement, Reads
  <1>3. CASE Count(s)
    BY <1>3, ShowsRead DEF Count, ReadOnlyOrTx, Statement, Reads
  <1>4. CASE SelectOne(s)
    <2>1. PICK i \in Ids :
            Nothing(s, IF i \in DOMAIN View(s)
                         THEN Returned("read", "ok", Only(View(s), {i}))
                         ELSE Returned("read", "not_found", Empty))
      BY <1>4 DEF SelectOne, ReadOnlyOrTx
    <2>2. CASE i \in DOMAIN View(s)
      BY <2>1, <2>2, ShowsRead DEF Statement, Reads
    <2>3. CASE i \notin DOMAIN View(s)
      BY <2>1, <2>3, NothingKinds
    <2>4. QED
      BY <2>2, <2>3
  <1>5. QED
    BY <1>1, <1>2, <1>3, <1>4

LEMMA InsertKinds ==
  ASSUME NEW s \in Sessions, NEW w, Insert(s, w)
  PROVE  Statement(s)
  <1>1. CASE Refused(s, Returned("write", "unique", Empty))
    BY <1>1 DEF Statement, IsRefused, Returned
  <1>2. CASE Stmt(s, w, Returned("write", "ok", w))
    BY <1>2, StmtKinds
  <1>3. QED
    BY <1>1, <1>2 DEF Insert

LEMMA UpdateRowsKinds ==
  ASSUME NEW s \in Sessions, NEW S, NEW fields, NEW none, UpdateRows(s, S, fields, none)
  PROVE  Statement(s)
  <1> DEFINE w == [i \in S |-> SetFields(View(s)[i], fields)]
  <1>1. \/ Nothing(s, Returned("write", none, Empty))
        \/ Stmt(s, w, Returned("write", "ok", w))
    BY DEF UpdateRows
  <1> HIDE DEF w
  <1>2. QED
    BY <1>1, StmtKinds, NothingKinds

LEMMA DeleteRowsKinds ==
  ASSUME NEW s \in Sessions, NEW S, NEW none, DeleteRows(s, S, none)
  PROVE  Statement(s)
  <1> DEFINE w == [i \in S |-> Gone]
  <1>1. \/ Nothing(s, Returned("write", none, Empty))
        \/ Stmt(s, w, Returned("write", "ok", Empty))
    BY DEF DeleteRows
  <1> HIDE DEF w
  <1>2. QED
    BY <1>1, StmtKinds, NothingKinds

LEMMA CreateKinds ==
  ASSUME NEW s \in Sessions, CreateBatch(s) \/ Upsert(s) \/ UpsertDoNothing(s)
  PROVE  Statement(s)
  <1>1. CASE CreateBatch(s)
    BY <1>1, InsertKinds, NothingKinds DEF CreateBatch
  <1>2. CASE Upsert(s)
    BY <1>2, InsertKinds, StmtKinds DEF Upsert
  <1>3. CASE UpsertDoNothing(s)
    BY <1>3, InsertKinds, NothingKinds DEF UpsertDoNothing
  <1>4. QED
    BY <1>1, <1>2, <1>3

LEMMA ChangeKinds ==
  ASSUME NEW s \in Sessions,
         \/ Update(s) \/ UpdateFieldsWhere(s) \/ UpdateFieldsByPrimaryKey(s)
         \/ Delete(s) \/ DeleteWhere(s) \/ DeleteByPrimaryKeyReturning(s)
  PROVE  Statement(s)
  <1>1. CASE Update(s) \/ UpdateFieldsWhere(s) \/ UpdateFieldsByPrimaryKey(s)
    BY <1>1, UpdateRowsKinds DEF Update, UpdateFieldsWhere, UpdateFieldsByPrimaryKey
  <1>2. CASE Delete(s) \/ DeleteWhere(s) \/ DeleteByPrimaryKeyReturning(s)
    BY <1>2, DeleteRowsKinds DEF Delete, DeleteWhere, DeleteByPrimaryKeyReturning
  <1>3. QED
    BY <1>1, <1>2

\* A page, and the rows before it, are rows of the listing.
LEMMA PageInListing ==
  ASSUME NEW S, NEW order, NEW q \in Orders(S, order), NEW o
  PROVE  Page(q, o) \subseteq UpToPage(q, o) /\ UpToPage(q, o) \subseteq S
  <1>1. q \in [1 .. Cardinality(S) -> S]
    BY DEF Orders, SetToSeqs
  <1>2. UpToPage(q, o) \subseteq S
    BY <1>1 DEF UpToPage
  <1>3. QED
    BY <1>2 DEF Page, UpToPage

LEMMA LockStrengths ==
  ASSUME NEW mode \in LockModes \ {"bad"}
  PROVE  LockStrength(mode) \in 1 .. 4
  <1>1. mode \in {"", "update", "noKeyUpdate", "share", "keyShare"}
    BY RepositoryAssumption
  <1>2. /\ ModeOf.update = 4 /\ ModeOf["update"] = 4 /\ ModeOf["noKeyUpdate"] = 3
        /\ ModeOf["share"] = 2 /\ ModeOf["keyShare"] = 1
    BY DEF ModeOf
  <1>3. LockStrength(mode) = 4 \/ (LockStrength(mode) = ModeOf[mode] /\ mode # "")
    BY <1>2 DEF LockStrength
  <1>4. ModeOf[mode] \in {1, 2, 3, 4} \/ mode = ""
    BY <1>1, <1>2, Zenon
  <1>5. LockStrength(mode) \in {1, 2, 3, 4}
    BY <1>3, <1>4
  <1>6. QED
    BY <1>5

LEMMA LockPageKinds ==
  ASSUME NEW s \in Sessions, NEW rows \in SUBSET DOMAIN View(s), NEW m \in 1 .. 4,
         NEW policy, NEW o, NEW none, LockPage(s, rows, m, policy, o, none)
  PROVE  Statement(s)
  <1> DEFINE free == {i \in rows : Free(s, i, m)}
             all == IF policy = "skip" THEN free ELSE rows
  <1>1. PICK q \in Orders(all, o.order) :
          \/ UpToPage(q, o) \subseteq free /\ Locked(s, UpToPage(q, o), Page(q, o), m, none)
          \/ Refused(s, Returned("lock", "not_available", Empty))
    BY DEF LockPage
  <1>2. /\ \A i \in free : Free(s, i, m)
        /\ free \subseteq DOMAIN View(s)
    OBVIOUS
  <1>3. Page(q, o) \subseteq UpToPage(q, o)
    BY PageInListing
  <1> HIDE DEF free, all
  <1>4. CASE UpToPage(q, o) \subseteq free /\ Locked(s, UpToPage(q, o), Page(q, o), m, none)
    BY <1>2, <1>3, <1>4 DEF Statement, Locks
  <1>5. CASE Refused(s, Returned("lock", "not_available", Empty))
    BY <1>5 DEF Statement, IsRefused, Returned
  <1>6. QED
    BY <1>1, <1>4, <1>5

LEMMA LockKinds ==
  ASSUME NEW s \in Sessions, InvalidLock(s) \/ SelectForLock(s) \/ SelectOneForLock(s)
  PROVE  Statement(s)
  <1>1. ASSUME NEW w PROVE DOMAIN Matching(s, w) \in SUBSET DOMAIN View(s)
    <2>1. DOMAIN Matching(s, w)
            = DOMAIN View(s) \cap {i \in DOMAIN View(s) : View(s)[i].val \in w}
      BY OnlyShape DEF Matching
    <2>2. QED
      BY <2>1
  <1>2. CASE InvalidLock(s)
    BY <1>2, NothingKinds DEF InvalidLock
  <1>3. CASE SelectForLock(s)
    <2>1. PICK w \in Where, mode \in LockModes \ {"bad"}, policy \in LockPolicies \ {"bad"} :
            \E opts \in OptionLists :
              LockPage(s, DOMAIN Matching(s, w), LockStrength(mode), policy,
                       ResolveOptions(opts), "ok")
      BY <1>3 DEF SelectForLock
    <2>2. QED
      BY <1>1, <2>1, LockStrengths, LockPageKinds
  <1>4. CASE SelectOneForLock(s)
    <2>1. PICK w \in Where, mode \in LockModes \ {"bad"}, policy \in LockPolicies \ {"bad"} :
            \E opts \in OptionLists :
              LockPage(s, DOMAIN Matching(s, w), LockStrength(mode), policy,
                       ResolveOptions(Append(opts, Option("limit", 1))), "not_found")
      BY <1>4 DEF SelectOneForLock
    <2>2. QED
      BY <1>1, <2>1, LockStrengths, LockPageKinds
  <1>5. QED
    BY <1>2, <1>3, <1>4

\* Every step begins or ends a transaction, runs a statement, or waits for an
\* advisory lock.
LEMMA StepKinds ==
  ASSUME Next
  PROVE  \E s \in Sessions : \/ BeginTx(s) \/ Commit(s) \/ Rollback(s)
                             \/ Statement(s) \/ AdvisoryTransactionLock(s)
  <1>1. PICK s \in Sessions :
          \/ BeginTx(s) \/ Commit(s) \/ Rollback(s) \/ AdvisoryTransactionLock(s)
          \/ SelectBy(s) \/ FindByPrimaryKeys(s) \/ Count(s) \/ SelectOne(s)
          \/ CreateBatch(s) \/ Upsert(s) \/ UpsertDoNothing(s)
          \/ Update(s) \/ UpdateFieldsWhere(s) \/ UpdateFieldsByPrimaryKey(s)
          \/ Delete(s) \/ DeleteWhere(s) \/ DeleteByPrimaryKeyReturning(s)
          \/ InvalidLock(s) \/ SelectForLock(s) \/ SelectOneForLock(s)
    BY DEF Next
  <1>2. QED
    BY <1>1, ReadKinds, CreateKinds, ChangeKinds, LockKinds
-----------------------------------------------------------------------------
(* Row locks and what they protect.                                        *)

\* What the sessions keep is kept for each of them.
Kept ==
  /\ DOMAIN tx = Sessions /\ DOMAIN own = Sessions /\ DOMAIN held = Sessions
  /\ DOMAIN claim = Sessions /\ DOMAIN adv = Sessions /\ DOMAIN told = Sessions

LInv == Kept /\ HeldInv /\ ClaimIsCurrent

\* What no write can do to a row that another session holds, and no lock.
LEMMA Disjoint ==
  ASSUME HeldInv, NEW s \in Sessions, NEW o \in Sessions, s # o,
         NEW i, NEW m \in 1 .. 4, Free(s, i, m), i \in DOMAIN held[o]
  PROVE  /\ held[o][i] \in 1 .. 4 /\ ~Conflict(held[o][i], m) /\ ~Conflict(m, held[o][i])
         /\ m >= 3 => held[o][i] < 2
  BY DEF HeldInv, Free, Conflict

LEMMA WriteLocksShape ==
  ASSUME NEW s, NEW w
  PROVE  /\ DOMAIN WriteLocks(s, w) = DOMAIN w
         /\ \A i \in DOMAIN w : WriteLocks(s, w)[i] \in 3 .. 4
  BY DEF WriteLocks

\* A step that takes the locks l, all free, for a transaction.
LEMMA HeldGrows ==
  ASSUME Kept, HeldInv, NEW s \in Sessions, NEW l,
         \A i \in DOMAIN l : l[i] \in 1 .. 4 /\ Free(s, i, l[i]),
         held' = [held EXCEPT ![s] = Strongest(@, l)]
  PROVE  /\ DOMAIN held' = Sessions
         /\ \A o \in Sessions : \A i \in DOMAIN held'[o] : held'[o][i] \in 1 .. 4
         /\ \A o \in Sessions : \A i \in DOMAIN held[o] :
              i \in DOMAIN held'[o] /\ held'[o][i] >= held[o][i]
         /\ \A i \in DOMAIN l : i \in DOMAIN held'[s] /\ held'[s][i] >= l[i]
         /\ \A o, p \in Sessions : o # p =>
              \A i \in DOMAIN held'[o] \cap DOMAIN held'[p] :
                ~Conflict(held'[o][i], held'[p][i])
  <1> DEFINE old == held[s]
  <1>o. old = held[s]
    OBVIOUS
  <1> HIDE DEF old
  <1> DEFINE new == Strongest(old, l)
  <1>s. /\ DOMAIN new = DOMAIN old \cup DOMAIN l
        /\ \A i \in DOMAIN old \ DOMAIN l : new[i] = old[i]
        /\ \A i \in DOMAIN l : \/ i \in DOMAIN old /\ old[i] > l[i] /\ new[i] = old[i]
                               \/ ~(i \in DOMAIN old /\ old[i] > l[i]) /\ new[i] = l[i]
    BY StrongestShape
  <1>1. /\ held'[s] = new /\ DOMAIN held' = Sessions
        /\ \A o \in Sessions \ {s} : held'[o] = held[o]
    BY <1>o DEF Kept
  <1> HIDE DEF new
  <1>2. /\ DOMAIN held'[s] = DOMAIN held[s] \cup DOMAIN l
        /\ \A i \in DOMAIN held[s] \ DOMAIN l : held'[s][i] = held[s][i]
        /\ \A i \in DOMAIN l :
             \/ i \in DOMAIN held[s] /\ held[s][i] > l[i] /\ held'[s][i] = held[s][i]
             \/ ~(i \in DOMAIN held[s] /\ held[s][i] > l[i]) /\ held'[s][i] = l[i]
    BY <1>1, <1>s, <1>o
  <1>3. /\ \A o \in Sessions : \A i \in DOMAIN held[o] : held[o][i] \in 1 .. 4
        /\ \A o, p \in Sessions : o # p =>
             \A i \in DOMAIN held[o] \cap DOMAIN held[p] : ~Conflict(held[o][i], held[p][i])
    BY DEF HeldInv
  <1>4. \A i \in DOMAIN held'[s] : held'[s][i] \in 1 .. 4
    BY <1>2, <1>3
  <1>5. \A o \in Sessions : \A i \in DOMAIN held'[o] : held'[o][i] \in 1 .. 4
    BY <1>1, <1>3, <1>4
  <1>6. \A i \in DOMAIN held[s] : i \in DOMAIN held'[s] /\ held'[s][i] >= held[s][i]
    BY <1>2, <1>3
  <1>7. \A o \in Sessions : \A i \in DOMAIN held[o] :
          i \in DOMAIN held'[o] /\ held'[o][i] >= held[o][i]
    BY <1>1, <1>3, <1>6
  <1>8. \A i \in DOMAIN l : i \in DOMAIN held'[s] /\ held'[s][i] >= l[i]
    BY <1>2, <1>3
  <1>9. ASSUME NEW o \in Sessions, o # s, NEW i \in DOMAIN held'[s] \cap DOMAIN held'[o]
        PROVE  ~Conflict(held'[s][i], held'[o][i]) /\ ~Conflict(held'[o][i], held'[s][i])
    <2>1. held'[o] = held[o]
      BY <1>1, <1>9
    <2>2. CASE held'[s][i] = held[s][i] /\ i \in DOMAIN held[s]
      BY <1>3, <1>9, <2>1, <2>2
    <2>3. CASE i \in DOMAIN l /\ held'[s][i] = l[i]
      BY <1>9, <2>1, <2>3, Disjoint
    <2>4. QED
      BY <1>2, <1>9, <2>2, <2>3
  <1>10. \A o, p \in Sessions : o # p =>
           \A i \in DOMAIN held'[o] \cap DOMAIN held'[p] : ~Conflict(held'[o][i], held'[p][i])
    BY <1>1, <1>3, <1>9
  <1>11. QED
    BY <1>1, <1>5, <1>7, <1>8, <1>10
\* HeldInv without the locks of its own: what is written or claimed is locked.
LEMMA HeldParts ==
  ASSUME HeldInv
  PROVE  /\ \A s \in Sessions : \A i \in DOMAIN held[s] : held[s][i] \in 1 .. 4
         /\ \A s \in Sessions : \A i \in DOMAIN own[s] : i \in DOMAIN held[s] /\ held[s][i] >= 3
         /\ \A s \in Sessions : \A i \in DOMAIN claim[s] : i \in DOMAIN held[s] /\ held[s][i] >= 2
         /\ \A s \in Sessions : tx[s] = "none" => DOMAIN claim[s] = {} /\ DOMAIN own[s] = {}
         /\ \A i \in DOMAIN tab : tab[i] # Gone
  BY DEF HeldInv

\* The rows of a transaction and those of another's locking select are apart.
LEMMA WrittenNotClaimed ==
  ASSUME HeldInv, NEW s \in Sessions, NEW o \in Sessions, s # o, NEW i \in DOMAIN own[s]
  PROVE  i \notin DOMAIN claim[o]
  <1> SUFFICES ASSUME i \in DOMAIN claim[o] PROVE FALSE
    OBVIOUS
  <1>1. /\ i \in DOMAIN held[s] /\ held[s][i] >= 3 /\ held[s][i] \in 1 .. 4
        /\ i \in DOMAIN held[o] /\ held[o][i] >= 2 /\ held[o][i] \in 1 .. 4
    BY DEF HeldInv
  <1>2. ~Conflict(held[s][i], held[o][i])
    BY <1>1 DEF HeldInv
  <1>3. QED
    BY <1>1, <1>2 DEF Conflict

LEMMA InitLInv ==
  ASSUME Init
  PROVE  LInv
  <1>1. Kept
    BY DEF Init, Kept
  <1>2. \A s \in Sessions : /\ tx[s] = "none" /\ DOMAIN own[s] = {}
                            /\ DOMAIN held[s] = {} /\ DOMAIN claim[s] = {}
    BY EmptyShape DEF Init
  <1>3. \A i \in DOMAIN tab : tab[i] # Gone
    <2>1. tab \in Table
      BY DEF Init
    <2>2. PICK S \in SUBSET Ids : tab \in [S -> Row]
      BY <2>1 DEF Table
    <2>3. \A i \in DOMAIN tab : tab[i] \in Row
      BY <2>2
    <2>4. ASSUME NEW r \in Row PROVE r # Gone
      <3>1. r.name \in Names /\ Gone.name = "-"
        BY DEF Row, Gone
      <3>2. QED
        BY <3>1, RepositoryAssumption
    <2>5. QED
      BY <2>3, <2>4
  <1>4. QED
    BY <1>1, <1>2, <1>3 DEF LInv, HeldInv, ClaimIsCurrent

\* A step that leaves the rows and their locks alone.
LEMMA SameRows ==
  ASSUME LInv, UNCHANGED <<tab, own, adv, told>>,
         DOMAIN tx' = Sessions, DOMAIN held' = Sessions, DOMAIN claim' = Sessions,
         \A s \in Sessions : /\ tx'[s] \in {tx[s], "failed"}
                            /\ held'[s] = held[s] /\ claim'[s] = claim[s]
  PROVE  LInv'
  <1>1. \A s \in Sessions : /\ tx'[s] = "open" => tx[s] = "open"
                            /\ tx'[s] = "none" => tx[s] = "none"
    OBVIOUS
  <1>2. Kept' /\ HeldInv'
    BY <1>1 DEF LInv, Kept, HeldInv
  <1>3. ClaimIsCurrent'
    BY <1>1 DEF LInv, ClaimIsCurrent
  <1>4. QED
    BY <1>2, <1>3 DEF LInv

LEMMA NothingKeepsLInv ==
  ASSUME LInv, NEW s \in Sessions, NEW out, Nothing(s, out)
  PROVE  LInv'
  BY SameRows DEF Nothing, LInv, Kept

LEMMA RefusedKeepsLInv ==
  ASSUME LInv, NEW s \in Sessions, NEW out, Refused(s, out)
  PROVE  LInv'
  <1>1. DOMAIN tx = Sessions
    BY DEF LInv, Kept
  <1>2. /\ DOMAIN tx' = Sessions
        /\ \A o \in Sessions : tx'[o] \in {tx[o], "failed"}
    BY <1>1 DEF Refused
  <1>3. QED
    BY <1>2, SameRows DEF Refused, LInv, Kept

LEMMA BeginTxKeepsLInv ==
  ASSUME LInv, NEW s \in Sessions, BeginTx(s)
  PROVE  LInv'
  <1>1. /\ DOMAIN tx' = Sessions /\ UNCHANGED <<tab, own, held, claim, adv, told>>
        /\ tx[s] = "none" /\ tx'[s] = "open"
        /\ \A o \in Sessions \ {s} : tx'[o] = tx[o]
    BY DEF BeginTx, LInv, Kept
  <1>2. DOMAIN claim[s] = {}
    BY <1>1, HeldParts DEF LInv
  <1>3. Kept'
    BY <1>1 DEF LInv, Kept
  <1>4. \A o \in Sessions : tx'[o] = "none" => tx[o] = "none"
    BY <1>1
  <1>5. HeldInv'
    BY <1>1, <1>4 DEF LInv, HeldInv
  <1>6. ClaimIsCurrent'
    BY <1>1, <1>2 DEF LInv, ClaimIsCurrent
  <1>7. QED
    BY <1>3, <1>5, <1>6 DEF LInv

LEMMA EndTxKeepsLInv ==
  ASSUME LInv, NEW s \in Sessions, NEW t, EndTx(s, t),
         \A i \in DOMAIN t : t[i] # Gone,
         \A i : i \notin DOMAIN own[s] =>
           /\ i \in DOMAIN t <=> i \in DOMAIN tab
           /\ i \in DOMAIN tab => t[i] = tab[i]
  PROVE  LInv'
  <1>1. /\ tab' = t /\ tx'[s] = "none" /\ own'[s] = Empty /\ held'[s] = Empty
        /\ claim'[s] = Empty
        /\ \A o \in Sessions \ {s} : /\ tx'[o] = tx[o] /\ own'[o] = own[o]
                                      /\ held'[o] = held[o] /\ claim'[o] = claim[o]
    BY DEF EndTx, LInv, Kept
  <1>2. Kept'
    BY DEF EndTx, LInv, Kept
  <1>3. HeldInv'
    BY <1>1, EmptyShape DEF LInv, HeldInv
  <1>4. ASSUME NEW o \in Sessions, tx'[o] = "open", NEW i \in DOMAIN claim'[o] \ DOMAIN own'[o]
        PROVE  i \in DOMAIN tab' /\ tab'[i] = claim'[o][i]
    <2>1. /\ o # s /\ tx[o] = "open" /\ i \in DOMAIN claim[o] \ DOMAIN own[o]
          /\ claim'[o] = claim[o]
      BY <1>1, <1>4
    <2>2. i \notin DOMAIN own[s]
      BY <2>1, WrittenNotClaimed DEF LInv
    <2>3. i \in DOMAIN tab /\ tab[i] = claim[o][i]
      BY <2>1 DEF LInv, ClaimIsCurrent
    <2>4. QED
      BY <1>1, <2>1, <2>2, <2>3
  <1>5. ClaimIsCurrent'
    BY <1>4 DEF ClaimIsCurrent
  <1>6. QED
    BY <1>2, <1>3, <1>5 DEF LInv
\* What a commit leaves in the table.
LEMMA CommitKeepsLInv ==
  ASSUME LInv, NEW s \in Sessions, Commit(s)
  PROVE  LInv'
  <1> DEFINE t == View(s)
             w == own[s]
  <1>1. /\ \A i : i \in DOMAIN t <=>
             \/ i \in DOMAIN w /\ w[i] # Gone
             \/ i \in DOMAIN tab /\ i \notin DOMAIN w /\ tab[i] # Gone
        /\ \A i \in DOMAIN t : t[i] = IF i \in DOMAIN w THEN w[i] ELSE tab[i]
    BY ApplyShape DEF View
  <1>2. EndTx(s, t) /\ w = own[s]
    BY DEF Commit
  <1>3. \A i \in DOMAIN tab : tab[i] # Gone
    BY HeldParts DEF LInv
  <1> HIDE DEF t, w
  <1>4. \A i \in DOMAIN t : t[i] # Gone
    BY <1>1
  <1>5. \A i : i \notin DOMAIN w =>
          /\ i \in DOMAIN t <=> i \in DOMAIN tab
          /\ i \in DOMAIN tab => t[i] = tab[i]
    BY <1>1, <1>3
  <1>6. QED
    BY <1>2, <1>4, <1>5, EndTxKeepsLInv

LEMMA RollbackKeepsLInv ==
  ASSUME LInv, NEW s \in Sessions, Rollback(s)
  PROVE  LInv'
  BY EndTxKeepsLInv, HeldParts DEF Rollback, LInv

\* A write of a transaction: the rows it writes are locked, and new locks
\* conflict with nobody's.
LEMMA TxWriteKeepsLInv ==
  ASSUME LInv, NEW s \in Sessions, NEW w, InTx(s),
         \A i \in DOMAIN w : Free(s, i, WriteLocks(s, w)[i]),
         own' = [own EXCEPT ![s] = Override(@, w)],
         held' = [held EXCEPT ![s] = Strongest(@, WriteLocks(s, w))],
         UNCHANGED <<tab, tx, claim, adv, told>>
  PROVE  LInv'
  <1> DEFINE l == WriteLocks(s, w)
  <1>1. DOMAIN l = DOMAIN w /\ \A i \in DOMAIN w : l[i] \in 3 .. 4
    BY WriteLocksShape
  <1>2. /\ \A i \in DOMAIN l : l[i] \in 1 .. 4 /\ Free(s, i, l[i])
        /\ held' = [held EXCEPT ![s] = Strongest(@, l)]
    BY <1>1
  <1> HIDE DEF l
  <1>3. /\ DOMAIN held' = Sessions
        /\ \A o \in Sessions : \A i \in DOMAIN held'[o] : held'[o][i] \in 1 .. 4
        /\ \A o \in Sessions : \A i \in DOMAIN held[o] :
             i \in DOMAIN held'[o] /\ held'[o][i] >= held[o][i]
        /\ \A i \in DOMAIN l : i \in DOMAIN held'[s] /\ held'[s][i] >= l[i]
        /\ \A o, p \in Sessions : o # p =>
             \A i \in DOMAIN held'[o] \cap DOMAIN held'[p] : ~Conflict(held'[o][i], held'[p][i])
    BY <1>2, HeldGrows DEF LInv
  <1> DEFINE new == Override(own[s], w)
  <1>4. DOMAIN new = DOMAIN own[s] \cup DOMAIN w
    BY OverrideShape
  <1>5. /\ own'[s] = new /\ DOMAIN own' = Sessions
        /\ \A o \in Sessions \ {s} : own'[o] = own[o]
    BY DEF LInv, Kept
  <1> HIDE DEF new
  <1>6. Kept'
    BY <1>3, <1>5 DEF LInv, Kept
  <1>7. /\ \A o \in Sessions : \A i \in DOMAIN held[o] : held[o][i] \in 1 .. 4
        /\ \A o \in Sessions : \A i \in DOMAIN own[o] : i \in DOMAIN held[o] /\ held[o][i] >= 3
        /\ \A o \in Sessions : \A i \in DOMAIN claim[o] : i \in DOMAIN held[o] /\ held[o][i] >= 2
        /\ \A o \in Sessions : tx[o] = "none" => DOMAIN claim[o] = {} /\ DOMAIN own[o] = {}
        /\ \A i \in DOMAIN tab : tab[i] # Gone
    BY HeldParts DEF LInv
  <1>8. ASSUME NEW o \in Sessions, NEW i \in DOMAIN own'[o]
        PROVE  i \in DOMAIN held'[o] /\ held'[o][i] >= 3
    <2>1. CASE i \in DOMAIN own[o]
      BY <1>3, <1>7, <2>1
    <2>2. CASE o = s /\ i \in DOMAIN w
      BY <1>1, <1>3, <2>2
    <2>3. QED
      BY <1>4, <1>5, <1>8, <2>1, <2>2
  <1>9. ASSUME NEW o \in Sessions, NEW i \in DOMAIN claim'[o]
        PROVE  i \in DOMAIN held'[o] /\ held'[o][i] >= 2
    BY <1>3, <1>7, <1>9
  <1>10. \A o \in Sessions : tx'[o] = "none" => DOMAIN claim'[o] = {} /\ DOMAIN own'[o] = {}
    BY <1>5, <1>7 DEF InTx
  <1>11. HeldInv'
    BY <1>3, <1>7, <1>8, <1>9, <1>10 DEF HeldInv
  <1>12. \A o \in Sessions : DOMAIN own[o] \subseteq DOMAIN own'[o]
    BY <1>4, <1>5
  <1>13. ClaimIsCurrent'
    BY <1>12 DEF LInv, ClaimIsCurrent
  <1>14. QED
    BY <1>6, <1>11, <1>13 DEF LInv

\* A write outside a transaction: no row it writes is claimed.
LEMMA OwnWriteKeepsLInv ==
  ASSUME LInv, NEW s \in Sessions, NEW w, ~InTx(s),
         \A i \in DOMAIN w : Free(s, i, WriteLocks(s, w)[i]),
         tab' = Apply(tab, w), UNCHANGED <<own, held, tx, claim, adv, told>>
  PROVE  LInv'
  <1>1. /\ \A i : i \in DOMAIN tab' <=>
             \/ i \in DOMAIN w /\ w[i] # Gone
             \/ i \in DOMAIN tab /\ i \notin DOMAIN w /\ tab[i] # Gone
        /\ \A i \in DOMAIN tab' : tab'[i] = IF i \in DOMAIN w THEN w[i] ELSE tab[i]
    BY ApplyShape
  <1>2. \A i \in DOMAIN w : WriteLocks(s, w)[i] \in 3 .. 4
    BY WriteLocksShape
  <1>3. Kept'
    BY DEF LInv, Kept
  <1>4. HeldInv'
    BY <1>1 DEF LInv, HeldInv
  <1>5. ASSUME NEW o \in Sessions, tx[o] = "open", NEW i \in DOMAIN claim[o] \ DOMAIN own[o]
        PROVE  i \in DOMAIN tab' /\ tab'[i] = claim[o][i]
    <2>1. o # s
      BY <1>5 DEF InTx
    <2>2. i \in DOMAIN held[o] /\ held[o][i] >= 2
      BY <1>5, HeldParts DEF LInv
    <2>3. i \notin DOMAIN w
      <3>1. SUFFICES ASSUME i \in DOMAIN w PROVE FALSE
        OBVIOUS
      <3>2. WriteLocks(s, w)[i] \in 1 .. 4 /\ WriteLocks(s, w)[i] >= 3
        BY <1>2, <3>1
      <3>3. held[o][i] \in 1 .. 4 /\ held[o][i] < 2
        BY <2>1, <2>2, <3>1, <3>2, Disjoint DEF LInv
      <3>4. QED
        BY <2>2, <3>3
    <2>4. i \in DOMAIN tab /\ tab[i] = claim[o][i] /\ tab[i] # Gone
      BY <1>5, HeldParts DEF LInv, ClaimIsCurrent
    <2>5. QED
      BY <1>1, <2>3, <2>4
  <1>6. ClaimIsCurrent'
    BY <1>5 DEF ClaimIsCurrent
  <1>7. QED
    BY <1>3, <1>4, <1>6 DEF LInv
LEMMA StmtKeepsLInv ==
  ASSUME LInv, NEW s \in Sessions, NEW w, NEW out, Stmt(s, w, out)
  PROVE  LInv'
  <1>1. CASE Refused(s, Returned("write", "unique", Empty))
    BY <1>1, RefusedKeepsLInv
  <1>2. CASE UniqueNames(Apply(View(s), w))
    <2>1. /\ \A i \in DOMAIN w : Free(s, i, WriteLocks(s, w)[i])
          /\ UNCHANGED <<tx, claim, adv, told>>
          /\ IF InTx(s)
               THEN /\ own' = [own EXCEPT ![s] = Override(@, w)]
                    /\ held' = [held EXCEPT ![s] = Strongest(@, WriteLocks(s, w))]
                    /\ tab' = tab
               ELSE tab' = Apply(tab, w) /\ UNCHANGED <<own, held>>
      BY <1>2 DEF Stmt
    <2>2. CASE InTx(s)
      BY <2>1, <2>2, TxWriteKeepsLInv
    <2>3. CASE ~InTx(s)
      BY <2>1, <2>3, OwnWriteKeepsLInv
    <2>4. QED
      BY <2>2, <2>3
  <1>3. QED
    BY <1>1, <1>2 DEF Stmt

\* A locking select of a transaction: what it returns is what the table holds,
\* and is locked.
LEMMA TxLockKeepsLInv ==
  ASSUME LInv, NEW s \in Sessions, InTx(s), NEW S, NEW seen \in SUBSET S, NEW mode \in 1 .. 4,
         S \subseteq DOMAIN View(s), \A i \in S : Free(s, i, mode),
         held' = [held EXCEPT ![s] = Strongest(@, [i \in S |-> mode])],
         claim' = [claim EXCEPT ![s] = IF mode >= 2 THEN Override(@, Only(View(s), seen)) ELSE @],
         UNCHANGED <<tab, tx, own, adv, told>>
  PROVE  LInv'
  <1> DEFINE l == [i \in S |-> mode]
             read == Only(View(s), seen)
  <1>1. DOMAIN l = S /\ \A i \in S : l[i] = mode
    OBVIOUS
  <1>2. /\ \A i \in DOMAIN l : l[i] \in 1 .. 4 /\ Free(s, i, l[i])
        /\ held' = [held EXCEPT ![s] = Strongest(@, l)]
    BY <1>1
  <1> HIDE DEF l
  <1>3. /\ DOMAIN held' = Sessions
        /\ \A o \in Sessions : \A i \in DOMAIN held'[o] : held'[o][i] \in 1 .. 4
        /\ \A o \in Sessions : \A i \in DOMAIN held[o] :
             i \in DOMAIN held'[o] /\ held'[o][i] >= held[o][i]
        /\ \A i \in DOMAIN l : i \in DOMAIN held'[s] /\ held'[s][i] >= l[i]
        /\ \A o, p \in Sessions : o # p =>
             \A i \in DOMAIN held'[o] \cap DOMAIN held'[p] : ~Conflict(held'[o][i], held'[p][i])
    BY <1>2, HeldGrows DEF LInv
  <1>4. /\ DOMAIN read = DOMAIN View(s) \cap seen
        /\ \A i \in DOMAIN View(s) \cap seen : read[i] = View(s)[i]
    BY OnlyShape
  <1>5. \A i \in DOMAIN read \ DOMAIN own[s] : i \in DOMAIN tab /\ read[i] = tab[i]
    BY <1>4, ViewShape
  <1> HIDE DEF read
  <1> DEFINE new == Override(claim[s], read)
  <1>6. /\ DOMAIN new = DOMAIN claim[s] \cup DOMAIN read
        /\ \A i \in DOMAIN read : new[i] = read[i]
        /\ \A i \in DOMAIN claim[s] \ DOMAIN read : new[i] = claim[s][i]
    BY OverrideShape
  <1>7. /\ claim'[s] = IF mode >= 2 THEN new ELSE claim[s]
        /\ DOMAIN claim' = Sessions
        /\ \A o \in Sessions \ {s} : claim'[o] = claim[o]
    BY DEF LInv, Kept, read
  <1> HIDE DEF new
  <1>8. Kept'
    BY <1>3, <1>7 DEF LInv, Kept
  <1>9. /\ \A o \in Sessions : \A i \in DOMAIN held[o] : held[o][i] \in 1 .. 4
        /\ \A o \in Sessions : \A i \in DOMAIN own[o] : i \in DOMAIN held[o] /\ held[o][i] >= 3
        /\ \A o \in Sessions : \A i \in DOMAIN claim[o] : i \in DOMAIN held[o] /\ held[o][i] >= 2
        /\ \A o \in Sessions : tx[o] = "none" => DOMAIN claim[o] = {} /\ DOMAIN own[o] = {}
        /\ \A i \in DOMAIN tab : tab[i] # Gone
    BY HeldParts DEF LInv
  <1>10. ASSUME NEW o \in Sessions, NEW i \in DOMAIN own'[o]
         PROVE  i \in DOMAIN held'[o] /\ held'[o][i] >= 3
    BY <1>3, <1>9, <1>10
  <1>11. ASSUME NEW o \in Sessions, NEW i \in DOMAIN claim[o]
         PROVE  i \in DOMAIN held'[o] /\ held'[o][i] >= 2
    BY <1>3, <1>9, <1>11
  <1>12. ASSUME mode >= 2, NEW i \in DOMAIN read
         PROVE  i \in DOMAIN held'[s] /\ held'[s][i] >= 2
    <2>1. i \in S /\ i \in DOMAIN l /\ l[i] = mode
      BY <1>1, <1>4, <1>12
    <2>2. i \in DOMAIN held'[s] /\ held'[s][i] >= mode /\ held'[s][i] \in 1 .. 4
      BY <1>3, <2>1
    <2>3. QED
      BY <1>12, <2>2
  <1>13. \A o \in Sessions : \A i \in DOMAIN claim'[o] : i \in DOMAIN held'[o] /\ held'[o][i] >= 2
    BY <1>6, <1>7, <1>11, <1>12
  <1>14. \A o \in Sessions : tx'[o] = "none" => DOMAIN claim'[o] = {} /\ DOMAIN own'[o] = {}
    BY <1>7, <1>9 DEF InTx
  <1>15. HeldInv'
    BY <1>3, <1>9, <1>10, <1>13, <1>14 DEF HeldInv
  <1>16. ASSUME NEW o \in Sessions, tx[o] = "open", NEW i \in DOMAIN claim'[o] \ DOMAIN own[o]
         PROVE  i \in DOMAIN tab /\ tab[i] = claim'[o][i]
    <2>1. CASE i \in DOMAIN claim[o] /\ claim'[o][i] = claim[o][i]
      BY <1>16, <2>1 DEF LInv, ClaimIsCurrent
    <2>2. CASE o = s /\ i \in DOMAIN read /\ claim'[o][i] = read[i]
      BY <1>5, <1>16, <2>2
    <2>3. QED
      BY <1>6, <1>7, <1>16, <2>1, <2>2
  <1>17. ClaimIsCurrent'
    BY <1>16 DEF ClaimIsCurrent
  <1>18. QED
    BY <1>8, <1>15, <1>17 DEF LInv

LEMMA LocksKeepLInv ==
  ASSUME LInv, NEW s \in Sessions, Locks(s)
  PROVE  LInv'
  <1>1. PICK S, seen, mode, none :
          /\ Locked(s, S, seen, mode, none) /\ mode \in 1 .. 4
          /\ seen \subseteq S /\ S \subseteq DOMAIN View(s)
          /\ \A i \in S : Free(s, i, mode)
    BY DEF Locks
  <1>2. CASE InTx(s)
    <2>1. /\ held' = [held EXCEPT ![s] = Strongest(@, [i \in S |-> mode])]
          /\ claim' = [claim EXCEPT ![s] = IF mode >= 2 THEN Override(@, Only(View(s), seen))
                                                        ELSE @]
          /\ UNCHANGED <<tab, tx, own, adv, told>>
      BY <1>1, <1>2 DEF Locked
    <2>2. QED
      BY <1>1, <1>2, <2>1, TxLockKeepsLInv
  <1>3. CASE ~InTx(s)
    <2>1. DOMAIN held = Sessions /\ DOMAIN claim = Sessions /\ DOMAIN tx = Sessions
      BY DEF LInv, Kept
    <2>2. /\ DOMAIN held' = Sessions /\ DOMAIN claim' = Sessions
          /\ \A o \in Sessions : held'[o] = held[o] /\ claim'[o] = claim[o]
          /\ UNCHANGED <<tab, tx, own, adv, told>>
      BY <1>1, <1>3, <2>1 DEF Locked
    <2>3. QED
      BY <2>1, <2>2, SameRows
  <1>4. QED
    BY <1>2, <1>3

LEMMA AdvisoryKeepsLInv ==
  ASSUME LInv, NEW s \in Sessions, AdvisoryTransactionLock(s)
  PROVE  LInv'
  <1>1. Kept'
    BY DEF AdvisoryTransactionLock, LInv, Kept
  <1>2. HeldInv' /\ ClaimIsCurrent'
    BY DEF AdvisoryTransactionLock, LInv, HeldInv, ClaimIsCurrent
  <1>3. QED
    BY <1>1, <1>2 DEF LInv

LEMMA NextKeepsLInv ==
  ASSUME LInv, [Next]_vars
  PROVE  LInv'
  <1>1. CASE Next
    <2>1. PICK s \in Sessions : \/ BeginTx(s) \/ Commit(s) \/ Rollback(s)
                               \/ Statement(s) \/ AdvisoryTransactionLock(s)
      BY <1>1, StepKinds
    <2>2. CASE Statement(s)
      BY <2>2, NothingKeepsLInv, RefusedKeepsLInv, StmtKeepsLInv, LocksKeepLInv
         DEF Statement, Reads, IsRefused, Changes
    <2>3. QED
      BY <2>1, <2>2, BeginTxKeepsLInv, CommitKeepsLInv, RollbackKeepsLInv, AdvisoryKeepsLInv
  <1>2. CASE UNCHANGED vars
    BY <1>2 DEF vars, LInv, Kept, HeldInv, ClaimIsCurrent
  <1>3. QED
    BY <1>1, <1>2

LEMMA AlwaysLInv == Spec => []LInv
  <1>1. Init => LInv
    BY InitLInv
  <1>2. LInv /\ [Next]_vars => LInv'
    BY NextKeepsLInv
  <1>3. QED
    BY <1>1, <1>2, PTL DEF Spec
-----------------------------------------------------------------------------
(* Advisory locks.                                                         *)

AInv == Kept /\ AdvisoryInv

LEMMA AlwaysAInv == Spec => []AInv
  <1>1. Init => AInv
    BY DEF Init, AInv, Kept, AdvisoryInv
  <1>2. AInv /\ LInv' /\ [Next]_vars => AInv'
    <2> SUFFICES ASSUME AInv, LInv', [Next]_vars PROVE AInv'
      OBVIOUS
    <2>1. SUFFICES AdvisoryInv'
      BY DEF AInv, LInv
    <2>2. ASSUME UNCHANGED <<adv, told>> PROVE AdvisoryInv'
      BY <2>2 DEF AInv, AdvisoryInv
    <2>3. CASE Next
      <3>1. PICK s \in Sessions : \/ BeginTx(s) \/ Commit(s) \/ Rollback(s)
                                 \/ Statement(s) \/ AdvisoryTransactionLock(s)
        BY <2>3, StepKinds
      <3>2. CASE BeginTx(s)
        BY <2>2, <3>2 DEF BeginTx
      <3>3. CASE Commit(s) \/ Rollback(s)
        <4>1. /\ adv' = [adv EXCEPT ![s] = {}] /\ told' = [told EXCEPT ![s] = {}]
          BY <3>3 DEF Commit, Rollback, EndTx
        <4>2. QED
          BY <4>1 DEF AInv, Kept, AdvisoryInv
      <3>4. CASE Statement(s)
        <4>1. UNCHANGED <<adv, told>>
          BY <3>4 DEF Statement, Reads, IsRefused, Changes, Locks, Nothing, Refused, Stmt, Locked
        <4>2. QED
          BY <2>2, <4>1
      <3>5. CASE AdvisoryTransactionLock(s)
        <4>1. PICK k \in Keys :
                /\ \A o \in Sessions \ {s} : k \notin adv[o]
                /\ adv' = [adv EXCEPT ![s] = IF InTx(s) THEN @ \cup {k} ELSE @]
                /\ told' = [told EXCEPT ![s] = IF InTx(s) THEN @ \cup {k} ELSE @]
          BY <3>5 DEF AdvisoryTransactionLock
        <4>2. /\ \A o \in Sessions \ {s} : adv'[o] = adv[o] /\ told'[o] = told[o]
              /\ \/ adv'[s] = adv[s] \cup {k} /\ told'[s] = told[s] \cup {k}
                 \/ adv'[s] = adv[s] /\ told'[s] = told[s]
          BY <4>1 DEF AInv, Kept
        <4>3. QED
          BY <4>1, <4>2 DEF AInv, AdvisoryInv
      <3>6. QED
        BY <3>1, <3>2, <3>3, <3>4, <3>5
    <2>4. CASE UNCHANGED vars
      BY <2>2, <2>4 DEF vars
    <2>5. QED
      BY <2>3, <2>4
  <1>3. QED
    BY <1>1, <1>2, AlwaysLInv, PTL DEF Spec

\* Rows selected for a lock in a transaction stay as they were until it changes
\* them itself, and an advisory lock has one holder: the locking selects and the
\* advisory locks run on the connection of the transaction.
THEOREM LocksHold == Spec => []LocksProtect
  <1>1. LInv /\ AInv => LocksProtect
    BY DEF LInv, AInv, AdvisoryInv, LocksProtect, AdvisoryIsExclusive
  <1>2. QED
    BY <1>1, AlwaysLInv, AlwaysAInv, PTL

-----------------------------------------------------------------------------
(* What a call reports.                                                    *)

\* A call that reports an error has changed nothing: a refused statement leaves
\* no row of its batch behind, and a missing row is told before any write.
THEOREM ErrorsAreHarmless == Spec => ErrorChangesNothing
  <1>1. ASSUME [Next]_vars, res' # res, res'.out.kind = "write", res'.out.err # "ok"
        PROVE  tab' = tab /\ own' = own
    <2>1. Next
      BY <1>1 DEF vars
    <2>2. PICK s \in Sessions : \/ BeginTx(s) \/ Commit(s) \/ Rollback(s)
                               \/ Statement(s) \/ AdvisoryTransactionLock(s)
      BY <2>1, StepKinds
    <2>3. ~BeginTx(s) /\ ~Commit(s) /\ ~Rollback(s) /\ ~AdvisoryTransactionLock(s)
      BY <1>1 DEF BeginTx, Commit, Rollback, EndTx, AdvisoryTransactionLock, Answered, Returned
    <2>4. CASE Reads(s) \/ IsRefused(s)
      BY <2>4 DEF Reads, IsRefused, Nothing, Refused
    <2>5. CASE Locks(s)
      BY <1>1, <2>5 DEF Locks, Locked
    <2>6. CASE Changes(s)
      <3>1. PICK w, out : Stmt(s, w, out) /\ out.err = "ok"
        BY <2>6 DEF Changes
      <3>2. ~(res' = [to |-> s, out |-> out])
        BY <1>1, <3>1
      <3>3. Refused(s, Returned("write", "unique", Empty))
        BY <3>1, <3>2 DEF Stmt, Answered
      <3>4. QED
        BY <3>3 DEF Refused
    <2>7. QED
      BY <2>2, <2>3, <2>4, <2>5, <2>6 DEF Statement
  <1>2. QED
    BY <1>1, PTL DEF Spec, ErrorChangesNothing

\* The last answer went to a session, and shows what it has written.
Answers == res.to \in Sessions /\ ReadYourWrites

LEMMA ShownIsWritten ==
  ASSUME NEW s \in Sessions, NEW out, Answered(s, out),
         tx'[s] = "open" =>
           \A i \in DOMAIN own'[s] \cap DOMAIN out.rows : out.rows[i] = own'[s][i]
  PROVE  Answers'
  <1>1. res'.to = s /\ res'.out = out
    BY DEF Answered
  <1>2. QED
    BY <1>1 DEF Answers, ReadYourWrites

LEMMA EmptyIsShown ==
  ASSUME NEW s \in Sessions, NEW k, NEW e, Answered(s, Returned(k, e, Empty))
  PROVE  Answers'
  <1>1. DOMAIN Returned(k, e, Empty).rows = {}
    BY EmptyShape DEF Returned
  <1>2. QED
    BY <1>1, ShownIsWritten

\* The row that a write returns is the row the transaction has written.
LEMMA ChangesAreShown ==
  ASSUME Kept, NEW s \in Sessions, Changes(s)
  PROVE  Answers'
  <1>1. PICK w, out : Stmt(s, w, out) /\ out.rows \in {w, Empty}
    BY DEF Changes
  <1>2. CASE Refused(s, Returned("write", "unique", Empty))
    BY <1>2, EmptyIsShown DEF Refused
  <1>3. CASE UniqueNames(Apply(View(s), w))
    <2>1. /\ Answered(s, out) /\ tx' = tx
          /\ InTx(s) => own' = [own EXCEPT ![s] = Override(@, w)]
      BY <1>1, <1>3 DEF Stmt
    <2>2. CASE InTx(s)
      <3> DEFINE new == Override(own[s], w)
      <3>1. \A i \in DOMAIN w : new[i] = w[i]
        BY OverrideShape
      <3>2. own'[s] = new
        BY <2>1, <2>2 DEF Kept
      <3> HIDE DEF new
      <3>3. \A i \in DOMAIN out.rows : i \in DOMAIN w /\ out.rows[i] = w[i]
        BY <1>1, EmptyShape
      <3>4. QED
        BY <2>1, <3>1, <3>2, <3>3, ShownIsWritten
    <2>3. CASE ~InTx(s)
      BY <2>1, <2>3, ShownIsWritten DEF InTx
    <2>4. QED
      BY <2>2, <2>3
  <1>4. QED
    BY <1>1, <1>2, <1>3 DEF Stmt

\* Inside a transaction a read shows what the transaction has written, and the
\* row a write returned is the row that will be committed: reads and writes
\* take the connection of the transaction.
THEOREM ReadsOwnWrites == Spec => []ReadYourWrites
  <1>1. Init => Answers
    <2> SUFFICES ASSUME Init PROVE Answers
      OBVIOUS
    <2>1. res.to \in Sessions /\ tx[res.to] = "none"
      BY DEF Init
    <2>2. QED
      BY <2>1 DEF Answers, ReadYourWrites
  <1>2. Answers /\ LInv /\ [Next]_vars => Answers'
    <2> SUFFICES ASSUME Answers, LInv, [Next]_vars PROVE Answers'
      OBVIOUS
    <2>1. CASE Next
      <3>1. PICK s \in Sessions : \/ BeginTx(s) \/ Commit(s) \/ Rollback(s)
                                 \/ Statement(s) \/ AdvisoryTransactionLock(s)
        BY <2>1, StepKinds
      <3>2. CASE BeginTx(s) \/ Commit(s) \/ Rollback(s)
        BY <3>2, EmptyIsShown DEF BeginTx, Commit, Rollback, EndTx
      <3>3. CASE Reads(s)
        <4>1. PICK out : Nothing(s, out) /\ Shows(s, out)
          BY <3>3 DEF Reads
        <4>2. Answered(s, out) /\ own' = own
          BY <4>1 DEF Nothing
        <4>3. QED
          BY <4>1, <4>2, ShownIsWritten DEF Shows
      <3>4. CASE IsRefused(s)
        <4>1. PICK out : Refused(s, out) /\ out.rows = Empty
          BY <3>4 DEF IsRefused
        <4>2. Answered(s, out) /\ DOMAIN out.rows = {}
          BY <4>1, EmptyShape DEF Refused
        <4>3. QED
          BY <4>2, ShownIsWritten
      <3>5. CASE Changes(s)
        BY <3>5, ChangesAreShown DEF LInv
      <3>6. CASE Locks(s)
        BY <3>6, EmptyIsShown DEF Locks, Locked
      <3>7. CASE AdvisoryTransactionLock(s)
        BY <3>7 DEF AdvisoryTransactionLock, Answers, ReadYourWrites
      <3>8. QED
        BY <3>1, <3>2, <3>3, <3>4, <3>5, <3>6, <3>7 DEF Statement
    <2>2. CASE UNCHANGED vars
      BY <2>2 DEF vars, Answers, ReadYourWrites
    <2>3. QED
      BY <2>1, <2>2
  <1>3. Answers => ReadYourWrites
    BY DEF Answers
  <1>4. QED
    BY <1>1, <1>2, <1>3, AlwaysLInv, PTL DEF Spec

-----------------------------------------------------------------------------
(* Pages.                                                                  *)

\* A set of naturals has a least element: what stands for an induction over the
\* places of a listing.
LEMMA LeastElement ==
  ASSUME NEW S \in SUBSET Nat, S # {}
  PROVE  \E m \in S : \A n \in S : m <= n
  <1> DEFINE R == OpToRel(<, Nat)
  <1>1. \E m \in S : \A n \in S : ~(<<n, m>> \in R)
    <2>1. IsWellFoundedOn(R, Nat)
      BY NatLessThanWellFounded, Zenon
    <2> HIDE DEF R
    <2>2. QED
      BY <2>1, WFMin
  <1>2. \A n, m \in Nat : n < m => <<n, m>> \in R
    BY DEF OpToRel
  <1> HIDE DEF R
  <1>3. PICK m \in S : \A n \in S : ~(<<n, m>> \in R)
    BY <1>1
  <1>4. \A n \in S : ~(n < m)
    BY <1>2, <1>3
  <1>5. \A n \in S : m <= n
    BY <1>4
  <1>6. QED
    BY <1>5

\* The order of a listing.
Before(dir, m, n) == IF dir = "asc" THEN m < n ELSE m > n

\* What the orders of a set are: one place for each element, in order.
LEMMA OrderShape ==
  ASSUME NEW S, NEW dir, NEW q
  PROVE  q \in Orders(S, <<dir>>) <=>
           /\ q \in [1 .. Cardinality(S) -> S]
           /\ \A i, j \in 1 .. Cardinality(S) : i # j => q[i] # q[j]
           /\ \A i, j \in 1 .. Cardinality(S) : i < j => Before(dir, q[i], q[j])
  <1>1. <<dir>> # <<>> /\ Head(<<dir>>) = dir
    OBVIOUS
  <1>2. q \in [1 .. Cardinality(S) -> S] => DOMAIN q = 1 .. Cardinality(S)
    OBVIOUS
  <1> DEFINE one == <<dir>>
  <1> HIDE DEF one
  <1>3. one # <<>> /\ Head(one) = dir
    BY <1>1 DEF one
  <1>4. q \in Orders(S, one) <=>
           /\ q \in [1 .. Cardinality(S) -> S]
           /\ \A i, j \in 1 .. Cardinality(S) : i # j => q[i] # q[j]
           /\ \A i, j \in 1 .. Cardinality(S) : i < j => Before(dir, q[i], q[j])
    BY <1>2, <1>3 DEF Orders, SetToSeqs, Before
  <1>5. QED
    BY <1>4 DEF one

\* Every element has its place.
LEMMA OrderCovers ==
  ASSUME NEW S, IsFiniteSet(S), NEW dir, NEW q \in Orders(S, <<dir>>)
  PROVE  \A x \in S : \E i \in 1 .. Cardinality(S) : q[i] = x
  <1> DEFINE D == 1 .. Cardinality(S)
  <1>1. Cardinality(S) \in Nat
    BY FS_CardinalityType
  <1>2. IsFiniteSet(D) /\ Cardinality(D) = Cardinality(S)
    BY <1>1, FS_Interval
  <1>3. q \in [D -> S] /\ \A i, j \in D : i # j => q[i] # q[j]
    BY OrderShape
  <1> HIDE DEF D
  <1>4. q \in Injection(D, S)
    BY <1>3 DEF Injection, IsInjective
  <1>5. q \in Surjection(D, S)
    BY <1>2, <1>4, FS_Injection
  <1>6. QED
    BY <1>5 DEF Surjection, D

\* A set of numbers has one order in each direction.
LEMMA OneOrder ==
  ASSUME NEW S \in SUBSET Nat, IsFiniteSet(S), NEW dir,
         NEW p \in Orders(S, <<dir>>), NEW q \in Orders(S, <<dir>>)
  PROVE  \A i \in 1 .. Cardinality(S) : p[i] = q[i]
  <1> DEFINE D == 1 .. Cardinality(S)
             Differ == {i \in D : p[i] # q[i]}
  <1> SUFFICES ASSUME Differ # {} PROVE FALSE
    OBVIOUS
  <1>1. Cardinality(S) \in Nat
    BY FS_CardinalityType
  <1>2. Differ \in SUBSET Nat
    BY <1>1
  <1>3. PICK i \in Differ : \A j \in Differ : i <= j
    BY <1>2, LeastElement
  <1>4. /\ \A j, k \in D : j # k => p[j] # p[k] /\ q[j] # q[k]
        /\ \A j, k \in D : j < k => Before(dir, p[j], p[k]) /\ Before(dir, q[j], q[k])
        /\ \A j \in D : p[j] \in Nat /\ q[j] \in Nat /\ p[j] \in S /\ q[j] \in S
        /\ \A x \in S : (\E j \in D : p[j] = x) /\ (\E j \in D : q[j] = x)
    <2>1. p \in [D -> S] /\ q \in [D -> S]
      BY OrderShape
    <2>2. /\ \A j, k \in D : j # k => p[j] # p[k] /\ q[j] # q[k]
          /\ \A j, k \in D : j < k => Before(dir, p[j], p[k]) /\ Before(dir, q[j], q[k])
      BY OrderShape
    <2>3. \A x \in S : (\E j \in D : p[j] = x) /\ (\E j \in D : q[j] = x)
      BY OrderCovers
    <2>4. QED
      BY <2>1, <2>2, <2>3
  <1>5. PICK j \in D : q[j] = p[i]
    BY <1>4
  <1>6. PICK k \in D : p[k] = q[i]
    BY <1>4
  <1>7. i \in D /\ p[i] # q[i] /\ \A m \in D : p[m] # q[m] => i <= m
    BY <1>3
  <1>8. \A m \in D : m \in Nat
    BY <1>1
  <1> HIDE DEF D, Differ
  <1>9. i < j
    BY <1>4, <1>5, <1>7, <1>8
  <1>10. i < k
    BY <1>4, <1>6, <1>7, <1>8
  <1>11. Before(dir, q[i], p[i]) /\ Before(dir, p[i], q[i])
    BY <1>4, <1>5, <1>6, <1>7, <1>9, <1>10
  <1>12. QED
    BY <1>4, <1>7, <1>11 DEF Before

\* An order of all but the least element gives one of all: it comes first or last.
LEMMA OrderExtends ==
  ASSUME NEW S \in SUBSET Nat, IsFiniteSet(S), NEW dir, NEW x \in S, \A y \in S : x <= y,
         NEW p \in Orders(S \ {x}, <<dir>>)
  PROVE  Orders(S, <<dir>>) # {}
  <1> DEFINE N == Cardinality(S)
             T == S \ {x}
             q == [i \in 1 .. N |-> IF dir = "asc" THEN IF i = 1 THEN x ELSE p[i - 1]
                                                   ELSE IF i = N THEN x ELSE p[i]]
  <1>1. /\ N \in Nat \ {0} /\ Cardinality(T) = N - 1
        /\ \A i \in 1 .. N : i \in Nat
    <2>1. Cardinality(S) \in Nat /\ Cardinality(T) = Cardinality(S) - 1
      BY FS_CardinalityType, FS_RemoveElement
    <2>2. Cardinality(S) # 0
      BY FS_EmptySet
    <2>3. QED
      BY <2>1, <2>2
  <1>2. /\ \A i \in 1 .. N - 1 : p[i] \in T
        /\ \A i, j \in 1 .. N - 1 : i # j => p[i] # p[j]
        /\ \A i, j \in 1 .. N - 1 : i < j => Before(dir, p[i], p[j])
    <2>1. /\ p \in [1 .. Cardinality(T) -> T]
          /\ \A i, j \in 1 .. Cardinality(T) : i # j => p[i] # p[j]
          /\ \A i, j \in 1 .. Cardinality(T) : i < j => Before(dir, p[i], p[j])
      BY OrderShape
    <2> HIDE DEF T, N
    <2>2. QED
      BY <1>1, <2>1
  <1>3. /\ dir = "asc" => q[1] = x /\ \A i \in 1 .. N : i # 1 => i - 1 \in 1 .. N - 1 /\ q[i] = p[i - 1]
        /\ dir # "asc" => q[N] = x /\ \A i \in 1 .. N : i # N => i \in 1 .. N - 1 /\ q[i] = p[i]
        /\ DOMAIN q = 1 .. N
    <2> HIDE DEF N
    <2>1. 1 \in 1 .. N /\ N \in 1 .. N
      BY <1>1
    <2>2. \A i \in 1 .. N : /\ i # 1 => i - 1 \in 1 .. N - 1
                            /\ i # N => i \in 1 .. N - 1
      BY <1>1
    <2>3. QED
      BY <2>1, <2>2
  <1>4. \A y \in T : y \in S /\ y \in Nat /\ x \in Nat /\ x < y
    BY DEF T
  <1>5. q = [i \in 1 .. N |-> q[i]]
    OBVIOUS
  <1> HIDE DEF N, T, q
  <1>6. /\ \A i \in 1 .. N : q[i] \in S
        /\ \A i, j \in 1 .. N : i # j => q[i] # q[j]
        /\ \A i, j \in 1 .. N : i < j => Before(dir, q[i], q[j])
    <2>1. CASE dir = "asc"
      <3>1. \A i \in 1 .. N : q[i] = x \/ q[i] \in T
        BY <1>2, <1>3, <2>1
      <3>2. ASSUME NEW i \in 1 .. N, NEW j \in 1 .. N, i < j
            PROVE  q[i] < q[j]
        <4>1. j # 1 /\ q[j] = p[j - 1] /\ j - 1 \in 1 .. N - 1 /\ p[j - 1] \in T
          BY <1>1, <1>2, <1>3, <2>1, <3>2
        <4>2. CASE i = 1
          BY <1>3, <1>4, <2>1, <4>1, <4>2
        <4>3. CASE i # 1
          <5>1. q[i] = p[i - 1] /\ i - 1 \in 1 .. N - 1 /\ i - 1 < j - 1
            BY <1>1, <1>3, <2>1, <3>2, <4>3
          <5>2. Before(dir, p[i - 1], p[j - 1])
            BY <1>2, <4>1, <5>1
          <5>3. QED
            BY <2>1, <4>1, <5>1, <5>2 DEF Before
        <4>4. QED
          BY <4>2, <4>3
      <3>3. \A i \in 1 .. N : q[i] \in S /\ q[i] \in Nat
        BY <1>4, <3>1
      <3>4. \A i, j \in 1 .. N : i # j => q[i] # q[j]
        BY <1>1, <3>2, <3>3
      <3>5. QED
        BY <2>1, <3>2, <3>3, <3>4 DEF Before
    <2>2. CASE dir # "asc"
      <3>1. \A i \in 1 .. N : q[i] = x \/ q[i] \in T
        BY <1>2, <1>3, <2>2
      <3>2. ASSUME NEW i \in 1 .. N, NEW j \in 1 .. N, i < j
            PROVE  q[i] > q[j]
        <4>1. i # N /\ q[i] = p[i] /\ i \in 1 .. N - 1 /\ p[i] \in T
          BY <1>1, <1>2, <1>3, <2>2, <3>2
        <4>2. CASE j = N
          BY <1>3, <1>4, <2>2, <4>1, <4>2
        <4>3. CASE j # N
          <5>1. q[j] = p[j] /\ j \in 1 .. N - 1
            BY <1>3, <2>2, <4>3
          <5>2. Before(dir, p[i], p[j])
            BY <1>2, <3>2, <4>1, <5>1
          <5>3. QED
            BY <2>2, <4>1, <5>1, <5>2 DEF Before
        <4>4. QED
          BY <4>2, <4>3
      <3>3. \A i \in 1 .. N : q[i] \in S /\ q[i] \in Nat
        BY <1>4, <3>1
      <3>4. \A i, j \in 1 .. N : i # j => q[i] # q[j]
        BY <1>1, <3>2, <3>3
      <3>5. QED
        BY <2>2, <3>2, <3>3, <3>4 DEF Before
    <2>3. QED
      BY <2>1, <2>2
  <1>7. q \in [1 .. N -> S]
    BY <1>5, <1>6
  <1>8. q \in Orders(S, <<dir>>)
    BY <1>6, <1>7, OrderShape DEF N
  <1>9. QED
    BY <1>8

\* Every finite set of numbers has an order: otherwise there would be a smallest
\* one without.
LEMMA OrderExists ==
  ASSUME NEW S \in SUBSET Nat, IsFiniteSet(S), NEW dir
  PROVE  Orders(S, <<dir>>) # {}
  <1> DEFINE Lacks(n) == \E T \in SUBSET Nat : /\ IsFiniteSet(T) /\ Cardinality(T) = n
                                               /\ Orders(T, <<dir>>) = {}
             B == {n \in Nat : Lacks(n)}
  <1>1. B = {}
    <2> SUFFICES ASSUME B # {} PROVE FALSE
      OBVIOUS
    <2>1. PICK n \in B : \A m \in B : n <= m
      BY LeastElement
    <2>2. PICK T \in SUBSET Nat : /\ IsFiniteSet(T) /\ Cardinality(T) = n
                                  /\ Orders(T, <<dir>>) = {}
      BY <2>1
    <2>3. n \in Nat /\ \A m \in Nat : Lacks(m) => n <= m
      BY <2>1
    <2> HIDE DEF B
    <2>4. CASE T = {}
      <3>1. Cardinality(T) = 0
        BY <2>4, FS_EmptySet
      <3>2. <<>> \in [1 .. 0 -> T] /\ 1 .. 0 = {}
        OBVIOUS
      <3>3. <<>> \in Orders(T, <<dir>>)
        BY <3>1, <3>2, OrderShape
      <3>4. QED
        BY <2>2, <3>3
    <2>5. CASE T # {}
      <3>1. PICK x \in T : \A y \in T : x <= y
        BY <2>5, LeastElement
      <3>2. /\ T \ {x} \in SUBSET Nat /\ IsFiniteSet(T \ {x})
            /\ Cardinality(T \ {x}) = n - 1
        BY <2>2, FS_RemoveElement
      <3>3. n # 0
        BY <2>2, <2>5, FS_EmptySet
      <3>4. n - 1 \in Nat /\ ~(n <= n - 1)
        BY <2>3, <3>3
      <3>5. ~Lacks(n - 1)
        BY <2>3, <3>4
      <3>6. Orders(T \ {x}, <<dir>>) # {}
        BY <3>2, <3>5
      <3>7. PICK p : p \in Orders(T \ {x}, <<dir>>)
        BY <3>6
      <3>8. Orders(T, <<dir>>) # {}
        BY <2>2, <3>1, <3>7, OrderExtends
      <3>9. QED
        BY <2>2, <3>8
    <2>6. QED
      BY <2>4, <2>5
  <1>2. Cardinality(S) \in Nat
    BY FS_CardinalityType
  <1>3. ~Lacks(Cardinality(S))
    BY <1>1, <1>2
  <1>4. QED
    BY <1>3

\* Page k + 1 begins where page k ends, and later pages not before.
LEMMA NextPage ==
  \A n, k \in Nat : n * (k + 1) = n * k + n
  OBVIOUS

LEMMA LaterPage ==
  ASSUME NEW n \in Nat, NEW k \in Nat, NEW l \in Nat, k < l
  PROVE  n * k + n <= n * l
  <1> DEFINE d == l - (k + 1)
  <1>1. d \in Nat /\ l = (k + 1) + d
    OBVIOUS
  <1> HIDE DEF d
  <1>2. n * d \in Nat /\ n * k \in Nat
    BY <1>1
  <1>3. n * ((k + 1) + d) = n * (k + 1) + n * d
    BY <1>1
  <1>4. QED
    BY <1>1, <1>2, <1>3, NextPage

\* The pages of a listing divide it, whatever their size: every row is on one
\* page (Page translates the Limit and Offset of a List).
THEOREM PagesDivide ==
  ASSUME NEW S \in SUBSET Nat, IsFiniteSet(S), NEW dir, NEW n \in Nat \ {0}
  PROVE  Divided(S, n, dir)
  <1> DEFINE N == Cardinality(S)
             Shown(k) == PageRows(S, n, k, dir)
  <1>1. N \in Nat /\ \A i \in 1 .. N : i \in Nat
    BY FS_CardinalityType
  <1>2. PICK q : q \in Orders(S, <<dir>>)
    BY OrderExists
  <1>3. /\ DOMAIN q = 1 .. N
        /\ \A i \in 1 .. N : q[i] \in S
        /\ \A i, j \in 1 .. N : i # j => q[i] # q[j]
        /\ \A x \in S : \E i \in 1 .. N : q[i] = x
    <2>1. q \in [1 .. N -> S] /\ \A i, j \in 1 .. N : i # j => q[i] # q[j]
      BY <1>2, OrderShape
    <2>2. \A x \in S : \E i \in 1 .. N : q[i] = x
      BY <1>2, OrderCovers
    <2> HIDE DEF N
    <2>3. QED
      BY <2>1, <2>2
  <1>4. \A p \in Orders(S, <<dir>>) : p = q
    <2> SUFFICES ASSUME NEW p \in Orders(S, <<dir>>) PROVE p = q
      OBVIOUS
    <2>1. p \in [1 .. N -> S] /\ q \in [1 .. N -> S]
      BY <1>2, OrderShape
    <2>2. \A i \in 1 .. N : p[i] = q[i]
      BY <1>2, OneOrder
    <2> HIDE DEF N
    <2>3. p = [i \in 1 .. N |-> p[i]] /\ q = [i \in 1 .. N |-> q[i]]
      BY <2>1
    <2>4. QED
      BY <2>2, <2>3, Zenon
  <1>5. ASSUME NEW k \in Nat
        PROVE  Shown(k) = {q[i] : i \in {j \in 1 .. N : n * k < j /\ j <= n * k + n}}
    <2> DEFINE o == [limit |-> n, offset |-> n * k, order |-> <<dir>>]
    <2>1. Shown(k) = Page(q, o)
      BY <1>2, <1>4 DEF PageRows
    <2>2. o.limit = n /\ o.offset = n * k /\ n > 0
      OBVIOUS
    <2> HIDE DEF o, N
    <2>3. Page(q, o) = {q[i] : i \in {j \in 1 .. N : j > n * k /\ j <= n * k + n}}
      BY <1>3, <2>2 DEF Page
    <2>4. \A j \in 1 .. N : j > n * k <=> n * k < j
      BY <1>1
    <2>5. QED
      BY <2>1, <2>3, <2>4
  <1> HIDE DEF N, Shown
  <1>6. \A k \in Nat : \A x : x \in Shown(k) <=> \E i \in 1 .. N : q[i] = x /\ n * k < i /\ i <= n * k + n
    BY <1>5
  <1>7. \A i \in 1 .. N : \E k \in 0 .. N : n * k < i /\ i <= n * k + n
    <2> SUFFICES ASSUME NEW i \in 1 .. N PROVE \E k \in 0 .. N : n * k < i /\ i <= n * k + n
      OBVIOUS
    <2> DEFINE A == {k \in Nat : i <= n * k + n}
    <2>1. i \in Nat /\ i <= n * i + n
      BY <1>1
    <2>2. PICK k \in A : \A l \in A : k <= l
      BY <2>1, LeastElement
    <2>3. k \in Nat /\ i <= n * k + n /\ \A l \in Nat : i <= n * l + n => k <= l
      BY <2>2
    <2> HIDE DEF A
    <2>4. k <= i
      BY <2>1, <2>3
    <2>5. n * k < i
      <3>1. CASE k = 0
        BY <1>1, <3>1
      <3>2. CASE k # 0
        <4>1. k - 1 \in Nat /\ ~(k <= k - 1)
          BY <2>3, <3>2
        <4>2. ~(i <= n * (k - 1) + n)
          BY <2>3, <4>1
        <4>3. n * k = n * (k - 1) + n
          <5>1. n * ((k - 1) + 1) = n * (k - 1) + n
            BY <4>1, NextPage
          <5>2. (k - 1) + 1 = k
            BY <2>3
          <5>3. QED
            BY <5>1, <5>2
        <4>4. n * (k - 1) \in Nat
          BY <4>1
        <4>5. QED
          BY <2>1, <4>2, <4>3, <4>4
      <3>3. QED
        BY <3>1, <3>2
    <2>6. k \in 0 .. N
      BY <1>1, <2>3, <2>4
    <2>7. QED
      BY <2>3, <2>5, <2>6
  <1>8. UNION {Shown(k) : k \in 0 .. N} = S
    <2>1. \A k \in 0 .. N : k \in Nat
      BY <1>1
    <2>2. \A k \in 0 .. N : Shown(k) \subseteq S
      BY <1>3, <1>6, <2>1
    <2>3. \A x \in S : \E k \in 0 .. N : x \in Shown(k)
      BY <1>3, <1>6, <1>7, <2>1
    <2>4. QED
      BY <2>2, <2>3
  <1>9. \A k, l \in 0 .. N : k # l => Shown(k) \cap Shown(l) = {}
    <2> SUFFICES ASSUME NEW k \in 0 .. N, NEW l \in 0 .. N, k # l,
                        NEW x, x \in Shown(k), x \in Shown(l)
                 PROVE  FALSE
      OBVIOUS
    <2>1. k \in Nat /\ l \in Nat
      BY <1>1
    <2>2. PICK i \in 1 .. N : q[i] = x /\ n * k < i /\ i <= n * k + n
      BY <1>6, <2>1
    <2>3. PICK j \in 1 .. N : q[j] = x /\ n * l < j /\ j <= n * l + n
      BY <1>6, <2>1
    <2>4. i = j
      BY <1>3, <2>2, <2>3
    <2>5. i \in Nat /\ n * k < i /\ i <= n * k + n /\ n * l < i /\ i <= n * l + n
      BY <1>1, <2>2, <2>3, <2>4
    <2>6. n * k \in Nat /\ n * l \in Nat
      BY <2>1
    <2>7. CASE k < l
      <3>1. n * k + n <= n * l
        BY <2>1, <2>7, LaterPage
      <3>2. QED
        BY <2>5, <2>6, <3>1
    <2>8. CASE l < k
      <3>1. n * l + n <= n * k
        BY <2>1, <2>8, LaterPage
      <3>2. QED
        BY <2>5, <2>6, <3>1
    <2>9. k < l \/ l < k
      BY <2>1
    <2>10. QED
      BY <2>7, <2>8, <2>9
  <1>10. QED
    BY <1>8, <1>9 DEF N, Shown, Divided

-----------------------------------------------------------------------------
(* Types.                                                                  *)

Kinds == {"none", "read", "write", "lock"}
Outs == [kind : Kinds, err : Errors, rows : Table]

\* Tables, writes and locks are functions of some of the keys.
Some(V) == UNION {[S -> V] : S \in SUBSET Ids}
IsFun(f) == f = [i \in DOMAIN f |-> f[i]]

LEMMA SomeShape ==
  ASSUME NEW f, NEW V
  PROVE  f \in Some(V) <=> IsFun(f) /\ \A i \in DOMAIN f : i \in Ids /\ f[i] \in V
  <1>1. ASSUME f \in Some(V) PROVE IsFun(f) /\ \A i \in DOMAIN f : i \in Ids /\ f[i] \in V
    <2>1. PICK S \in SUBSET Ids : f \in [S -> V]
      BY <1>1 DEF Some
    <2>2. QED
      BY <2>1 DEF IsFun
  <1>2. ASSUME IsFun(f), \A i \in DOMAIN f : i \in Ids /\ f[i] \in V PROVE f \in Some(V)
    <2>1. f \in [DOMAIN f -> V]
      BY <1>2 DEF IsFun
    <2>2. DOMAIN f \in SUBSET Ids
      BY <1>2
    <2>3. QED
      BY <2>1, <2>2 DEF Some
  <1>3. QED
    BY <1>1, <1>2

LEMMA FunShape ==
  ASSUME NEW f, NEW g, NEW S
  PROVE  IsFun(Only(f, S)) /\ IsFun(Override(f, g)) /\ IsFun(Empty)
  BY DEF Only, Override, Empty, IsFun

LEMMA SomeParts ==
  ASSUME NEW V
  PROVE  /\ Empty \in Some(V)
         /\ \A f \in Some(V) : \A S : Only(f, S) \in Some(V)
         /\ \A f, g \in Some(V) : Override(f, g) \in Some(V)
  <1>1. Empty \in Some(V)
    BY SomeShape, FunShape, EmptyShape
  <1>2. ASSUME NEW f \in Some(V), NEW S PROVE Only(f, S) \in Some(V)
    <2> DEFINE r == Only(f, S)
    <2>1. IsFun(r) /\ DOMAIN r = DOMAIN f \cap S /\ \A i \in DOMAIN f \cap S : r[i] = f[i]
      BY FunShape, OnlyShape
    <2>2. \A i \in DOMAIN f : i \in Ids /\ f[i] \in V
      BY SomeShape
    <2> HIDE DEF r
    <2>3. \A i \in DOMAIN r : i \in Ids /\ r[i] \in V
      BY <2>1, <2>2
    <2>4. r \in Some(V)
      BY <2>1, <2>3, SomeShape
    <2>5. QED
      BY <2>4 DEF r
  <1>3. ASSUME NEW f \in Some(V), NEW g \in Some(V) PROVE Override(f, g) \in Some(V)
    <2> DEFINE r == Override(f, g)
    <2>1. /\ IsFun(r) /\ DOMAIN r = DOMAIN f \cup DOMAIN g
          /\ \A i \in DOMAIN g : r[i] = g[i]
          /\ \A i \in DOMAIN f \ DOMAIN g : r[i] = f[i]
      BY FunShape, OverrideShape
    <2>2. /\ \A i \in DOMAIN f : i \in Ids /\ f[i] \in V
          /\ \A i \in DOMAIN g : i \in Ids /\ g[i] \in V
      BY SomeShape
    <2> HIDE DEF r
    <2>3. \A i \in DOMAIN r : i \in Ids /\ r[i] \in V
      BY <2>1, <2>2
    <2>4. r \in Some(V)
      BY <2>1, <2>3, SomeShape
    <2>5. QED
      BY <2>4 DEF r
  <1>4. QED
    BY <1>1, <1>2, <1>3

\* Writes on a table leave a table.
LEMMA TableParts ==
  /\ Table = Some(Row) /\ Writes = Some(Row \cup {Gone})
  /\ \A t \in Table : t \in Writes
  /\ \A t \in Table, w \in Writes : Apply(t, w) \in Table
  <1>1. Table = Some(Row) /\ Writes = Some(Row \cup {Gone})
    BY DEF Table, Writes, Some
  <1>2. \A t \in Table : t \in Writes
    BY <1>1, SomeShape
  <1>3. ASSUME NEW t \in Table, NEW w \in Writes PROVE Apply(t, w) \in Table
    <2> DEFINE all == Override(t, w)
               r == Apply(t, w)
    <2>1. all \in Writes
      BY <1>1, <1>2, SomeParts
    <2>2. r \in Writes
      BY <1>1, <2>1, SomeParts DEF Apply
    <2>3. \A i \in DOMAIN r : r[i] # Gone
      <3>1. \A i : i \in DOMAIN r <=>
              \/ i \in DOMAIN w /\ w[i] # Gone
              \/ i \in DOMAIN t /\ i \notin DOMAIN w /\ t[i] # Gone
        BY ApplyShape
      <3>2. \A i \in DOMAIN r : r[i] = IF i \in DOMAIN w THEN w[i] ELSE t[i]
        BY ApplyShape
      <3> HIDE DEF r
      <3>3. QED
        BY <3>1, <3>2
    <2> HIDE DEF r
    <2>4. IsFun(r) /\ \A i \in DOMAIN r : i \in Ids /\ r[i] \in Row \cup {Gone}
      BY <1>1, <2>2, SomeShape
    <2>5. r \in Some(Row)
      BY <2>3, <2>4, SomeShape
    <2>6. QED
      BY <1>1, <2>5 DEF r
  <1>4. QED
    BY <1>1, <1>2, <1>3

\* Locks added to locks.
LEMMA LocksAdd ==
  ASSUME NEW h \in Some(1 .. 4), NEW l \in Some(1 .. 4)
  PROVE  Strongest(h, l) \in Some(1 .. 4)
  <1> DEFINE m == [i \in DOMAIN l |-> IF i \in DOMAIN h /\ h[i] > l[i] THEN h[i] ELSE l[i]]
  <1>1. /\ \A i \in DOMAIN h : i \in Ids /\ h[i] \in 1 .. 4
        /\ \A i \in DOMAIN l : i \in Ids /\ l[i] \in 1 .. 4
    BY SomeShape
  <1>2. IsFun(m) /\ DOMAIN m = DOMAIN l /\ \A i \in DOMAIN l : m[i] \in {l[i], h[i]} /\ (m[i] = l[i] \/ i \in DOMAIN h)
    BY DEF IsFun
  <1>3. Strongest(h, l) = Override(h, m)
    BY DEF Strongest
  <1> HIDE DEF m
  <1>4. \A i \in DOMAIN m : i \in Ids /\ m[i] \in 1 .. 4
    BY <1>1, <1>2
  <1>5. m \in Some(1 .. 4)
    BY <1>2, <1>4, SomeShape
  <1>6. QED
    BY <1>3, <1>5, SomeParts

LEMMA ViewTyped ==
  ASSUME TypeOK, NEW s \in Sessions
  PROVE  /\ View(s) \in Table
         /\ \A i \in DOMAIN View(s) : i \in Ids /\ View(s)[i] \in Row
  <1>1. View(s) \in Table
    BY TableParts DEF TypeOK, View
  <1>2. QED
    BY <1>1, TableParts, SomeShape

LEMMA OutTyped ==
  ASSUME NEW k \in Kinds, NEW e \in Errors, NEW r \in Table
  PROVE  Returned(k, e, r) \in Outs /\ Returned(k, e, Empty) \in Outs
  BY TableParts, SomeParts DEF Outs, Returned

LEMMA FieldsTyped ==
  ASSUME NEW row \in Row, NEW u \in Updates
  PROVE  SetFields(row, u) \in Row
  <1>1. /\ "name" \in DOMAIN u => u.name \in Names
        /\ "val" \in DOMAIN u => u.val \in Vals
    <2>1. CASE u = [x \in {} |-> 0]
      BY <2>1
    <2>2. CASE \E v \in Vals : u = [val |-> v]
      BY <2>2
    <2>3. CASE u \in Row
      BY <2>3 DEF Row
    <2>4. QED
      BY <2>1, <2>2, <2>3 DEF Updates
  <1>2. row.name \in Names /\ row.val \in Vals
    BY DEF Row
  <1>3. QED
    BY <1>1, <1>2 DEF SetFields, Row

\* The statements again, with what they are made of.
Typed(s) ==
  \/ \E out \in Outs : Nothing(s, out) \/ Refused(s, out)
  \/ \E w \in Writes, out \in Outs : Stmt(s, w, out)
  \/ \E S \in SUBSET Ids, mode \in 1 .. 4, none \in Errors : \E seen :
       Locked(s, S, seen, mode, none)

LEMMA ReadTyped ==
  ASSUME TypeOK, NEW s \in Sessions,
         SelectBy(s) \/ FindByPrimaryKeys(s) \/ Count(s) \/ SelectOne(s)
  PROVE  Typed(s)
  <1>1. PICK e \in {"ok", "not_found"} :
          \/ \E S : Nothing(s, Returned("read", e, Only(View(s), S)))
          \/ Nothing(s, Returned("read", e, Empty))
    <2>1. CASE SelectBy(s)
      BY <2>1 DEF SelectBy, ReadOnlyOrTx
    <2>2. CASE FindByPrimaryKeys(s)
      BY <2>2 DEF FindByPrimaryKeys, ReadOnlyOrTx
    <2>3. CASE Count(s)
      BY <2>3 DEF Count, ReadOnlyOrTx
    <2>4. CASE SelectOne(s)
      BY <2>4 DEF SelectOne, ReadOnlyOrTx
    <2>5. QED
      BY <2>1, <2>2, <2>3, <2>4
  <1>2. \A S : Only(View(s), S) \in Table
    BY ViewTyped, TableParts, SomeParts
  <1>3. "read" \in Kinds /\ e \in Errors
    BY DEF Kinds, Errors
  <1>4. QED
    BY <1>1, <1>2, <1>3, OutTyped DEF Typed

LEMMA InsertTyped ==
  ASSUME NEW s \in Sessions, NEW w \in Table, Insert(s, w)
  PROVE  Typed(s)
  <1>1. "write" \in Kinds /\ "unique" \in Errors /\ "ok" \in Errors
    BY DEF Kinds, Errors
  <1>2. Returned("write", "unique", Empty) \in Outs /\ Returned("write", "ok", w) \in Outs
    BY <1>1, OutTyped
  <1>3. Refused(s, Returned("write", "unique", Empty)) \/ Stmt(s, w, Returned("write", "ok", w))
    BY DEF Insert
  <1>4. QED
    BY <1>2, <1>3, TableParts DEF Typed

LEMMA UpdateTyped ==
  ASSUME TypeOK, NEW s \in Sessions, NEW S \in SUBSET DOMAIN View(s), NEW fields \in Updates,
         NEW none \in Errors, UpdateRows(s, S, fields, none)
  PROVE  Typed(s)
  <1> DEFINE w == [i \in S |-> SetFields(View(s)[i], fields)]
  <1>1. \/ Nothing(s, Returned("write", none, Empty))
        \/ Stmt(s, w, Returned("write", "ok", w))
    BY DEF UpdateRows
  <1>2. IsFun(w) /\ \A i \in DOMAIN w : i \in Ids /\ w[i] \in Row
    BY ViewTyped, FieldsTyped DEF IsFun
  <1>3. w \in Table
    BY <1>2, SomeShape, TableParts
  <1>4. "write" \in Kinds /\ "ok" \in Errors
    BY DEF Kinds, Errors
  <1> HIDE DEF w
  <1>5. QED
    BY <1>1, <1>3, <1>4, OutTyped, TableParts DEF Typed

LEMMA DeleteTyped ==
  ASSUME NEW s \in Sessions, NEW S \in SUBSET Ids, NEW none \in Errors, DeleteRows(s, S, none)
  PROVE  Typed(s)
  <1> DEFINE w == [i \in S |-> Gone]
  <1>1. \/ Nothing(s, Returned("write", none, Empty))
        \/ Stmt(s, w, Returned("write", "ok", Empty))
    BY DEF DeleteRows
  <1>2. IsFun(w) /\ \A i \in DOMAIN w : i \in Ids /\ w[i] \in Row \cup {Gone}
    BY DEF IsFun
  <1>3. w \in Writes
    BY <1>2, SomeShape, TableParts
  <1>4. "write" \in Kinds /\ "ok" \in Errors /\ Empty \in Table
    BY SomeParts, TableParts DEF Kinds, Errors
  <1> HIDE DEF w
  <1>5. QED
    BY <1>1, <1>3, <1>4, OutTyped DEF Typed

LEMMA CreateTyped ==
  ASSUME TypeOK, NEW s \in Sessions, CreateBatch(s) \/ Upsert(s) \/ UpsertDoNothing(s)
  PROVE  Typed(s)
  <1>1. "write" \in Kinds /\ {"ok", "no_rows"} \subseteq Errors /\ Empty \in Table
    BY SomeParts, TableParts DEF Kinds, Errors
  <1>2. ASSUME NEW e \in {"ok", "no_rows"}, Nothing(s, Returned("write", e, Empty)) PROVE Typed(s)
    BY <1>1, <1>2, OutTyped DEF Typed
  <1>3. ASSUME NEW i \in Ids, NEW r \in Row PROVE [x \in {i} |-> r] \in Table
    <2>1. [x \in {i} |-> r] \in [{i} -> Row] /\ {i} \in SUBSET Ids
      OBVIOUS
    <2>2. QED
      BY <2>1 DEF Table
  <1>4. CASE CreateBatch(s)
    <2>1. PICK S \in SUBSET Ids : \E w \in [S -> Row] :
            Nothing(s, Returned("write", "ok", Empty)) \/ Insert(s, w)
      BY <1>4 DEF CreateBatch
    <2>2. \A w \in [S -> Row] : w \in Table
      BY DEF Table
    <2>3. QED
      BY <1>2, <2>1, <2>2, InsertTyped
  <1>5. CASE UpsertDoNothing(s)
    BY <1>2, <1>3, <1>5, InsertTyped DEF UpsertDoNothing
  <1>6. CASE Upsert(s)
    <2>1. PICK i \in Ids, r \in Row, u \in Updates, there \in SUBSET DOMAIN View(s) :
            \/ Insert(s, [x \in {i} |-> r])
            \/ Stmt(s, [j \in there |-> SetFields(View(s)[j], u)],
                       Returned("write", "ok", [j \in there |-> SetFields(View(s)[j], u)]))
      BY <1>6 DEF Upsert
    <2> DEFINE w == [j \in there |-> SetFields(View(s)[j], u)]
    <2>2. IsFun(w) /\ \A j \in DOMAIN w : j \in Ids /\ w[j] \in Row
      BY ViewTyped, FieldsTyped DEF IsFun
    <2>3. w \in Table
      BY <2>2, SomeShape, TableParts
    <2>4. Insert(s, [x \in {i} |-> r]) \/ Stmt(s, w, Returned("write", "ok", w))
      BY <2>1
    <2> HIDE DEF w
    <2>5. QED
      BY <1>1, <1>3, <2>3, <2>4, InsertTyped, OutTyped, TableParts DEF Typed
  <1>7. QED
    BY <1>4, <1>5, <1>6

LEMMA MatchingRows ==
  ASSUME NEW s, NEW w
  PROVE  DOMAIN Matching(s, w) \in SUBSET DOMAIN View(s)
  <1>1. DOMAIN Matching(s, w)
          = DOMAIN View(s) \cap {i \in DOMAIN View(s) : View(s)[i].val \in w}
    BY OnlyShape DEF Matching
  <1>2. QED
    BY <1>1

LEMMA ChangeTyped ==
  ASSUME TypeOK, NEW s \in Sessions,
         \/ Update(s) \/ UpdateFieldsWhere(s) \/ UpdateFieldsByPrimaryKey(s)
         \/ Delete(s) \/ DeleteWhere(s) \/ DeleteByPrimaryKeyReturning(s)
  PROVE  Typed(s)
  <1>1. DOMAIN View(s) \in SUBSET Ids
    BY ViewTyped
  <1>2. CASE Update(s) \/ UpdateFieldsWhere(s) \/ UpdateFieldsByPrimaryKey(s)
    <2>1. PICK S \in SUBSET DOMAIN View(s), u \in Updates, none \in {"ok", "no_affected_rows"} :
            UpdateRows(s, S, u, none)
      <3>1. CASE Update(s)
        BY <3>1 DEF Update, Updates
      <3>2. CASE UpdateFieldsWhere(s)
        BY <3>2, MatchingRows DEF UpdateFieldsWhere
      <3>3. CASE UpdateFieldsByPrimaryKey(s)
        BY <3>3 DEF UpdateFieldsByPrimaryKey
      <3>4. QED
        BY <1>2, <3>1, <3>2, <3>3
    <2>2. none \in Errors
      BY DEF Errors
    <2>3. QED
      BY <2>1, <2>2, UpdateTyped
  <1>3. CASE Delete(s) \/ DeleteWhere(s) \/ DeleteByPrimaryKeyReturning(s)
    <2>1. PICK S \in SUBSET Ids, none \in {"ok", "no_affected_rows", "not_found"} :
            DeleteRows(s, S, none)
      <3>1. CASE Delete(s)
        BY <1>1, <3>1 DEF Delete
      <3>2. CASE DeleteWhere(s)
        BY <1>1, <3>2, MatchingRows DEF DeleteWhere
      <3>3. CASE DeleteByPrimaryKeyReturning(s)
        BY <1>1, <3>3 DEF DeleteByPrimaryKeyReturning
      <3>4. QED
        BY <1>3, <3>1, <3>2, <3>3
    <2>2. none \in Errors
      BY DEF Errors
    <2>3. QED
      BY <2>1, <2>2, DeleteTyped
  <1>4. QED
    BY <1>2, <1>3

LEMMA LockPageTyped ==
  ASSUME NEW s \in Sessions, NEW rows \in SUBSET Ids, NEW m \in 1 .. 4,
         NEW policy, NEW o, NEW none \in Errors, LockPage(s, rows, m, policy, o, none)
  PROVE  Typed(s)
  <1> DEFINE free == {i \in rows : Free(s, i, m)}
             all == IF policy = "skip" THEN free ELSE rows
  <1>1. PICK q \in Orders(all, o.order) :
          \/ UpToPage(q, o) \subseteq free /\ Locked(s, UpToPage(q, o), Page(q, o), m, none)
          \/ Refused(s, Returned("lock", "not_available", Empty))
    BY DEF LockPage
  <1>2. free \subseteq Ids
    OBVIOUS
  <1>3. "lock" \in Kinds /\ "not_available" \in Errors /\ Empty \in Table
    BY SomeParts, TableParts DEF Kinds, Errors
  <1> HIDE DEF free, all
  <1>4. QED
    BY <1>1, <1>2, <1>3, OutTyped DEF Typed

LEMMA LockTyped ==
  ASSUME TypeOK, NEW s \in Sessions, InvalidLock(s) \/ SelectForLock(s) \/ SelectOneForLock(s)
  PROVE  Typed(s)
  <1>1. \A w : DOMAIN Matching(s, w) \in SUBSET Ids
    BY ViewTyped, MatchingRows
  <1>2. "lock" \in Kinds /\ {"ok", "not_found", "invalid"} \subseteq Errors /\ Empty \in Table
    BY SomeParts, TableParts DEF Kinds, Errors
  <1>3. CASE InvalidLock(s)
    BY <1>2, <1>3, OutTyped DEF InvalidLock, Typed
  <1>4. CASE SelectForLock(s)
    <2>1. PICK w \in Where, mode \in LockModes \ {"bad"}, policy \in LockPolicies \ {"bad"} :
            \E opts \in OptionLists :
              LockPage(s, DOMAIN Matching(s, w), LockStrength(mode), policy,
                       ResolveOptions(opts), "ok")
      BY <1>4 DEF SelectForLock
    <2>2. QED
      BY <1>1, <1>2, <2>1, LockStrengths, LockPageTyped
  <1>5. CASE SelectOneForLock(s)
    <2>1. PICK w \in Where, mode \in LockModes \ {"bad"}, policy \in LockPolicies \ {"bad"} :
            \E opts \in OptionLists :
              LockPage(s, DOMAIN Matching(s, w), LockStrength(mode), policy,
                       ResolveOptions(Append(opts, Option("limit", 1))), "not_found")
      BY <1>5 DEF SelectOneForLock
    <2>2. QED
      BY <1>1, <1>2, <2>1, LockStrengths, LockPageTyped
  <1>6. QED
    BY <1>3, <1>4, <1>5

\* Every step keeps the types.
LEMMA EndTxTyped ==
  ASSUME TypeOK, NEW s \in Sessions, NEW t \in Table, EndTx(s, t)
  PROVE  TypeOK'
  <1>1. Empty \in Table /\ Empty \in Writes /\ Empty \in Some(1 .. 4)
    BY TableParts, SomeParts
  <1>2. "none" \in Kinds /\ "ok" \in Errors
    BY DEF Kinds, Errors
  <1>3. res'.to \in Sessions /\ res'.out \in Outs
    BY <1>1, <1>2, OutTyped DEF EndTx, Answered
  <1>4. /\ tab' \in Table /\ tx' \in [Sessions -> {"none", "open", "failed"}]
        /\ own' \in [Sessions -> Writes] /\ held' \in [Sessions -> Some(1 .. 4)]
        /\ claim' \in [Sessions -> Table]
    BY <1>1 DEF EndTx, TypeOK, Some
  <1>5. adv' \in [Sessions -> SUBSET Keys] /\ told' \in [Sessions -> SUBSET Keys]
    BY DEF EndTx, TypeOK
  <1>6. QED
    BY <1>3, <1>4, <1>5 DEF TypeOK, Outs, Kinds, Some

\* A step that answers and leaves the data alone.
LEMMA AnswerTyped ==
  ASSUME TypeOK, NEW s \in Sessions, NEW out \in Outs, Answered(s, out),
         UNCHANGED <<tab, own, held, claim, adv, told>>,
         tx' \in [Sessions -> {"none", "open", "failed"}]
  PROVE  TypeOK'
  <1>1. res'.to \in Sessions /\ res'.out \in Outs
    BY DEF Answered
  <1>2. QED
    BY <1>1 DEF TypeOK, Outs, Kinds

LEMMA RefusedTyped ==
  ASSUME TypeOK, NEW s \in Sessions, NEW out \in Outs, Refused(s, out)
  PROVE  TypeOK'
  <1>1. tx' \in [Sessions -> {"none", "open", "failed"}]
    BY DEF Refused, TypeOK
  <1>2. QED
    BY <1>1, AnswerTyped DEF Refused

LEMMA StmtTyped ==
  ASSUME TypeOK, NEW s \in Sessions, NEW w \in Writes, NEW out \in Outs, Stmt(s, w, out)
  PROVE  TypeOK'
  <1>1. CASE Refused(s, Returned("write", "unique", Empty))
    <2>1. "write" \in Kinds /\ "unique" \in Errors /\ Empty \in Table
      BY SomeParts, TableParts DEF Kinds, Errors
    <2>2. QED
      BY <1>1, <2>1, OutTyped, RefusedTyped
  <1>2. CASE /\ Answered(s, out) /\ UNCHANGED <<tx, claim, adv, told>>
             /\ IF InTx(s)
                  THEN /\ own' = [own EXCEPT ![s] = Override(@, w)]
                       /\ held' = [held EXCEPT ![s] = Strongest(@, WriteLocks(s, w))]
                       /\ tab' = tab
                  ELSE tab' = Apply(tab, w) /\ UNCHANGED <<own, held>>
    <2>1. res'.to \in Sessions /\ res'.out \in Outs
      BY <1>2 DEF Answered
    <2>2. tab' \in Table
      <3>1. tab \in Table
        BY DEF TypeOK
      <3>2. Apply(tab, w) \in Table
        BY <3>1, TableParts
      <3>3. QED
        BY <1>2, <3>1, <3>2
    <2>3. own' \in [Sessions -> Writes]
      <3>1. own[s] \in Writes
        BY DEF TypeOK
      <3>2. Override(own[s], w) \in Writes
        BY <3>1, TableParts, SomeParts
      <3>3. QED
        BY <1>2, <3>2 DEF TypeOK
    <2>4. held' \in [Sessions -> Some(1 .. 4)]
      <3>1. held \in [Sessions -> Some(1 .. 4)]
        BY DEF TypeOK, Some
      <3>2. WriteLocks(s, w) \in Some(1 .. 4)
        <4>1. IsFun(WriteLocks(s, w))
          BY DEF WriteLocks, IsFun
        <4>2. \A i \in DOMAIN w : i \in Ids
          BY TableParts, SomeShape
        <4>3. \A i \in DOMAIN WriteLocks(s, w) : i \in Ids /\ WriteLocks(s, w)[i] \in 1 .. 4
          BY <4>2, WriteLocksShape
        <4>4. QED
          BY <4>1, <4>3, SomeShape
      <3>3. held[s] \in Some(1 .. 4)
        BY <3>1
      <3>4. Strongest(held[s], WriteLocks(s, w)) \in Some(1 .. 4)
        BY <3>2, <3>3, LocksAdd
      <3>5. held' = held \/ held' = [held EXCEPT ![s] = Strongest(held[s], WriteLocks(s, w))]
        BY <1>2
      <3>6. QED
        BY <3>1, <3>4, <3>5
    <2>5. QED
      BY <1>2, <2>1, <2>2, <2>3, <2>4 DEF TypeOK, Outs, Kinds, Some
  <1>3. QED
    BY <1>1, <1>2 DEF Stmt

LEMMA LockedTyped ==
  ASSUME TypeOK, NEW s \in Sessions, NEW S \in SUBSET Ids, NEW mode \in 1 .. 4,
         NEW none \in Errors, NEW seen, Locked(s, S, seen, mode, none)
  PROVE  TypeOK'
  <1>1. "lock" \in Kinds /\ "ok" \in Errors /\ Empty \in Table
    BY SomeParts, TableParts DEF Kinds, Errors
  <1>2. res'.to \in Sessions /\ res'.out \in Outs
    <2>1. PICK e \in Errors : Answered(s, Returned("lock", e, Empty))
      BY <1>1 DEF Locked
    <2>2. QED
      BY <1>1, <2>1, OutTyped DEF Answered
  <1>3. held' \in [Sessions -> Some(1 .. 4)]
    <2> DEFINE l == [i \in S |-> mode]
    <2>1. held \in [Sessions -> Some(1 .. 4)]
      BY DEF TypeOK, Some
    <2>2. IsFun(l) /\ \A i \in DOMAIN l : i \in Ids /\ l[i] \in 1 .. 4
      BY DEF IsFun
    <2>3. held' = [held EXCEPT ![s] = IF InTx(s) THEN Strongest(held[s], l) ELSE held[s]]
      BY DEF Locked
    <2> HIDE DEF l
    <2>4. l \in Some(1 .. 4) /\ held[s] \in Some(1 .. 4)
      BY <2>1, <2>2, SomeShape
    <2>5. Strongest(held[s], l) \in Some(1 .. 4)
      BY <2>4, LocksAdd
    <2>6. QED
      BY <2>1, <2>3, <2>5
  <1>4. claim' \in [Sessions -> Table]
    <2>1. claim[s] \in Table /\ Only(View(s), seen) \in Table
      BY ViewTyped, TableParts, SomeParts DEF TypeOK
    <2>2. Override(claim[s], Only(View(s), seen)) \in Table
      BY <2>1, TableParts, SomeParts
    <2>3. claim' = claim \/ claim' = [claim EXCEPT ![s] = Override(claim[s], Only(View(s), seen))]
      BY DEF Locked, TypeOK
    <2>4. QED
      BY <2>2, <2>3 DEF TypeOK
  <1>5. UNCHANGED <<tab, tx, own, adv, told>>
    BY DEF Locked
  <1>6. QED
    BY <1>2, <1>3, <1>4, <1>5 DEF TypeOK, Outs, Kinds, Some

LEMMA AdvisoryTyped ==
  ASSUME TypeOK, NEW s \in Sessions, AdvisoryTransactionLock(s)
  PROVE  TypeOK'
  <1>1. adv' \in [Sessions -> SUBSET Keys] /\ told' \in [Sessions -> SUBSET Keys]
    BY DEF AdvisoryTransactionLock, TypeOK
  <1>2. UNCHANGED <<tab, tx, own, held, claim, res>>
    BY DEF AdvisoryTransactionLock
  <1>3. QED
    BY <1>1, <1>2 DEF TypeOK

\* The repository keeps its types.
LEMMA TypesAreKept == TypeOK /\ [Next]_vars => TypeOK'
  <1> SUFFICES ASSUME TypeOK, [Next]_vars PROVE TypeOK'
    OBVIOUS
  <1>1. ASSUME NEW s \in Sessions, BeginTx(s) PROVE TypeOK'
    <2>1. tx' \in [Sessions -> {"none", "open", "failed"}]
      BY <1>1 DEF BeginTx, TypeOK
    <2>2. "none" \in Kinds /\ "ok" \in Errors /\ Empty \in Table
      BY SomeParts, TableParts DEF Kinds, Errors
    <2>3. QED
      BY <1>1, <2>1, <2>2, OutTyped, AnswerTyped DEF BeginTx
  <1>2. ASSUME NEW s \in Sessions, Commit(s) \/ Rollback(s) PROVE TypeOK'
    <2>1. View(s) \in Table /\ tab \in Table
      BY ViewTyped DEF TypeOK
    <2>2. QED
      BY <1>2, <2>1, EndTxTyped DEF Commit, Rollback
  <1>3. ASSUME NEW s \in Sessions, Typed(s) PROVE TypeOK'
    <2>1. ASSUME NEW out \in Outs, Nothing(s, out) PROVE TypeOK'
      <3>1. tx' \in [Sessions -> {"none", "open", "failed"}]
        BY <2>1 DEF Nothing, TypeOK
      <3>2. QED
        BY <2>1, <3>1, AnswerTyped DEF Nothing
    <2>2. QED
      BY <1>3, <2>1, RefusedTyped, StmtTyped, LockedTyped DEF Typed
  <1>4. CASE Next
    <2>1. PICK s \in Sessions :
            \/ BeginTx(s) \/ Commit(s) \/ Rollback(s) \/ AdvisoryTransactionLock(s)
            \/ SelectBy(s) \/ FindByPrimaryKeys(s) \/ Count(s) \/ SelectOne(s)
            \/ CreateBatch(s) \/ Upsert(s) \/ UpsertDoNothing(s)
            \/ Update(s) \/ UpdateFieldsWhere(s) \/ UpdateFieldsByPrimaryKey(s)
            \/ Delete(s) \/ DeleteWhere(s) \/ DeleteByPrimaryKeyReturning(s)
            \/ InvalidLock(s) \/ SelectForLock(s) \/ SelectOneForLock(s)
      BY <1>4 DEF Next
    <2>2. QED
      BY <1>1, <1>2, <1>3, <2>1, AdvisoryTyped, ReadTyped, CreateTyped, ChangeTyped, LockTyped
  <1>5. CASE UNCHANGED vars
    BY <1>5 DEF vars, TypeOK
  <1>6. QED
    BY <1>4, <1>5

\* The repository keeps its types, a session reads what it has written, and the pages of
\* an ordered listing divide the rows: for every table of finitely many keys.
THEOREM ReadsHold == Spec => []ReadsAreRight
  <1>1. Init => TypeOK
    <2> SUFFICES ASSUME Init PROVE TypeOK
      OBVIOUS
    <2>1. Empty \in Table /\ Empty \in Writes /\ Empty \in Some(1 .. 4)
      BY TableParts, SomeParts
    <2>2. "none" \in Kinds /\ "ok" \in Errors
      BY DEF Kinds, Errors
    <2>3. res.to \in Sessions /\ res.out \in Outs
      BY <2>1, <2>2, OutTyped DEF Init
    <2>4. tab \in Table
      BY DEF Init
    <2>5. QED
      BY <2>1, <2>3, <2>4 DEF Init, TypeOK, Outs, Kinds, Some
  <1>2. Spec => []TypeOK
    BY <1>1, TypesAreKept, PTL DEF Spec
  <1>3. TypeOK => PagesPartition
    <2>1. IsFiniteSet(Ids) /\ Ids \subseteq Nat
      BY RepositoryAssumption, Zenon
    <2>2. ASSUME TypeOK, NEW s \in Sessions, NEW n \in 1 .. 2, NEW dir
          PROVE  Divided(DOMAIN View(s), n, dir)
      <3>1. DOMAIN View(s) \in SUBSET Ids
        BY <2>2, ViewTyped
      <3>2. IsFiniteSet(DOMAIN View(s)) /\ DOMAIN View(s) \in SUBSET Nat
        BY <2>1, <3>1, FS_Subset
      <3>3. QED
        BY <3>2, PagesDivide
    <2>3. QED
      BY <2>2 DEF PagesPartition
  <1>4. QED
    BY <1>2, <1>3, ReadsOwnWrites, PTL DEF ReadsAreRight
=============================================================================
