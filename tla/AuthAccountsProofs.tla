------------------------- MODULE AuthAccountsProofs -------------------------
(***************************************************************************)
(* Proofs about AuthAccounts, for every set of requests, every call and    *)
(* every text the calls may carry.                                         *)
(***************************************************************************)
EXTENDS AuthAccounts, TLAPS

-----------------------------------------------------------------------------
(* Types.                                                                  *)

\* The arguments of a call.
LEMMA CallType ==
    ASSUME TypeOK, NEW r \in Request
    PROVE  /\ call[r].op \in Op
           /\ call[r].login \in Text
           /\ call[r].email \in Text
           /\ call[r].subject \in Text
           /\ call[r].password \in Text
  <1>1. call[r] \in [op : Op, login : Text, email : Text, subject : Text, password : Text]
    BY CallAssumption DEF TypeOK
  <1>2. QED
    BY <1>1

\* The rows the code builds are rows of its tables.
LEMMA RowTypes ==
    ASSUME NEW r \in Request, NEW id \in Request, NEW x \in Text, NEW y \in Text,
           NEW provider \in {"yandex", "vk"}
    PROVE  /\ UserRow(id, x, y) \in Row
           /\ CredentialRow(id, x) \in Row
           /\ IdentityRow(provider, x, id) \in Row
           /\ EventRow(id, r) \in Row
  BY DEF UserRow, CredentialRow, IdentityRow, EventRow, Row

\* A row of a table has the columns of that table.
LEMMA RowFields ==
    ASSUME NEW row \in Row
    PROVE  /\ row.table = "auth_users" =>
                /\ row.id \in Request /\ row.login \in Text /\ row.email \in Text
                /\ row = UserRow(row.id, row.login, row.email)
           /\ row.table = "auth_password_credentials" =>
                /\ row.user \in Request /\ row.hash \in Text
                /\ row = CredentialRow(row.user, row.hash)
           /\ row.table = "auth_external_identities" =>
                /\ row.provider \in {"yandex", "vk"} /\ row.subject \in Text /\ row.user \in Request
                /\ row = IdentityRow(row.provider, row.subject, row.user)
           /\ row.table = "auth_outbox_messages" =>
                /\ row.user \in Request /\ row.by \in Request
                /\ row = EventRow(row.user, row.by)
           /\ row.table \in {"auth_users", "auth_password_credentials",
                             "auth_external_identities", "auth_outbox_messages"}
  <1>1. CASE row \in [table : {"auth_users"}, id : Request, login : Text, email : Text]
    BY <1>1 DEF UserRow
  <1>2. CASE row \in [table : {"auth_password_credentials"}, user : Request, hash : Text]
    BY <1>2 DEF CredentialRow
  <1>3. CASE row \in [table : {"auth_external_identities"}, provider : {"yandex", "vk"},
                      subject : Text, user : Request]
    BY <1>3 DEF IdentityRow
  <1>4. CASE row \in [table : {"auth_outbox_messages"}, user : Request, by : Request]
    BY <1>4 DEF EventRow
  <1>5. QED
    BY <1>1, <1>2, <1>3, <1>4 DEF Row

\* Returning to the caller keeps the types.
LEMMA AnswerType ==
    ASSUME TypeOK, NEW r \in Request,
           NEW result \in {"ok", "exists", "invalid", "error"}, Answer(r, result)
    PROVE  /\ pc' \in [Request -> PC]
           /\ work' \in [Request -> Seq(Row)]
           /\ inserted' \in [Request -> Nat]
           /\ \A s \in Request : inserted'[s] <= Len(work'[s])
           /\ answer' \in [Request -> {"none", "ok", "exists", "invalid", "error"}]
  <1>1. <<>> \in Seq(Row) /\ Len(<<>>) = 0
    OBVIOUS
  <1>2. QED
    BY <1>1 DEF TypeOK, Answer, Goto, PC

\* So does the beginning of a transaction with a known list of rows.
LEMMA PrepareType ==
    ASSUME TypeOK, NEW r \in Request, NEW id \in Request, NEW rows \in Seq(Row),
           Prepare(r, id, rows)
    PROVE  /\ pc' \in [Request -> PC]
           /\ account' \in [Request -> Request \cup {Nobody}]
           /\ work' \in [Request -> Seq(Row)]
           /\ inserted' \in [Request -> Nat]
           /\ \A s \in Request : inserted'[s] <= Len(work'[s])
           /\ answer' \in [Request -> {"none", "ok", "exists", "invalid", "error"}]
  <1>1. Len(rows) >= 0
    OBVIOUS
  <1>2. QED
    BY <1>1 DEF TypeOK, Prepare, Goto, PC

\* And so does going to the next statement.
LEMMA GotoType ==
    ASSUME TypeOK, NEW r \in Request, NEW label \in PC, Goto(r, label)
    PROVE  pc' \in [Request -> PC]
  BY DEF TypeOK, Goto

\* One, three or no rows make a transaction.
LEMMA WorkTypes ==
    ASSUME NEW a \in Row, NEW b \in Row, NEW c \in Row
    PROVE  <<a>> \in Seq(Row) /\ <<a, b, c>> \in Seq(Row) /\ <<>> \in Seq(Row)
  OBVIOUS

\* The transactions of CompleteYandexLogin, of Accept, and of linking an
\* identity to an account that exists.
yandexRows(r) ==
    <<UserRow(r, buildExternalLogin(call[r]), norm[call[r].email]),
      EventRow(r, r),
      IdentityRow("yandex", trim[call[r].subject], r)>>
vkRows(r, login) ==
    <<UserRow(r, login, emailOrPlaceholder(call[r])),
      vkIdentityRow(r, r),
      EventRow(r, r)>>
linkRows(r, id) == <<IdentityRow(call[r].op, trim[call[r].subject], id)>>

\* A name as it is stored.
Normal(t) == t \in Text /\ norm[t] = t

\* The names the code derives are texts in normal form.
LEMMA DerivedNames ==
    ASSUME TypeOK, NEW r \in Request
    PROVE  /\ Normal(norm[call[r].login])
           /\ Normal(norm[call[r].email])
           /\ Normal(buildExternalLogin(call[r]))
           /\ Normal(emailOrPlaceholder(call[r]))
           /\ Normal(fallbackLogin(call[r]))
           /\ Normal(baseLogin(call[r]))
           /\ trim[call[r].subject] \in Text
           /\ trim[trim[call[r].subject]] = trim[call[r].subject]
  <1>1. trim[call[r].subject] \in Text /\ trim[trim[call[r].subject]] = trim[call[r].subject]
    BY CallType, TextFunctionAssumption, TrimAssumption
  <1>2. ASSUME NEW x \in Text
        PROVE  Normal(norm[x]) /\ Normal(yandexName[x]) /\ Normal(vkName[x]) /\ Normal(vkMailbox[x])
    BY TextFunctionAssumption, NormAssumption DEF Normal
  <1>3. /\ Normal(norm[call[r].login])
        /\ Normal(norm[call[r].email])
        /\ Normal(yandexName[call[r].subject])
        /\ Normal(vkName[trim[call[r].subject]])
        /\ Normal(vkMailbox[trim[call[r].subject]])
    BY <1>1, <1>2, CallType
  <1>4. QED
    BY <1>1, <1>3 DEF buildExternalLogin, emailOrPlaceholder, fallbackLogin, baseLogin

\* Every transaction is a list of rows.
LEMMA RowsTypes ==
    ASSUME TypeOK, NEW r \in Request, NEW id \in Request,
           NEW login \in {fallbackLogin(call[r]), baseLogin(call[r])}
    PROVE  /\ registerRows(r) \in Seq(Row)
           /\ yandexRows(r) \in Seq(Row)
           /\ vkRows(r, login) \in Seq(Row)
           /\ call[r].op \in {"yandex", "vk"} => linkRows(r, id) \in Seq(Row)
  <1>1. EventRow(r, r) \in Row
    BY RowTypes, CallType
  <1>2. CredentialRow(r, call[r].password) \in Row
    BY RowTypes, CallType
  <1>3. trim[call[r].subject] \in Text
    BY DerivedNames
  <1>4. /\ IdentityRow("yandex", trim[call[r].subject], r) \in Row
        /\ vkIdentityRow(r, r) \in Row
        /\ call[r].op \in {"yandex", "vk"} =>
              IdentityRow(call[r].op, trim[call[r].subject], id) \in Row
    BY <1>3, RowTypes DEF vkIdentityRow
  <1>5. /\ UserRow(r, norm[call[r].login], norm[call[r].email]) \in Row
        /\ UserRow(r, buildExternalLogin(call[r]), norm[call[r].email]) \in Row
        /\ UserRow(r, login, emailOrPlaceholder(call[r])) \in Row
    <2>1. /\ norm[call[r].login] \in Text /\ norm[call[r].email] \in Text
          /\ buildExternalLogin(call[r]) \in Text /\ emailOrPlaceholder(call[r]) \in Text
          /\ login \in Text
      BY DerivedNames DEF Normal
    <2>2. QED
      BY <2>1, RowTypes
  <1>6. QED
    BY <1>1, <1>2, <1>4, <1>5, WorkTypes DEF registerRows, yandexRows, vkRows, linkRows

\* What the lookups find are rows of the table they look into.
LEMMA LookupTypes ==
    ASSUME NEW rows \in SUBSET Row, NEW t, NEW p
    PROVE  /\ \A u \in GetByLogin(rows, t) :
                u \in Users(rows) /\ u.id \in Request /\ u.login = t
           /\ \A u \in GetByEmail(rows, t) :
                u \in Users(rows) /\ u.id \in Request /\ u.email = t
           /\ \A i \in GetByProviderSubject(rows, p, t) :
                i \in Identities(rows) /\ i.user \in Request /\ i = IdentityRow(p, t, i.user)
  BY RowFields DEF GetByLogin, GetByEmail, GetByProviderSubject, Users, Identities

\* The use cases build exactly these transactions.
LEMMA registerYandexUserEffect ==
    ASSUME TypeOK, NEW r \in Request, call[r].op = "yandex", registerYandexUser(r)
    PROVE  \/ Prepare(r, r, yandexRows(r))
           \/ \E u \in Users(replica) : u.id \in Request /\ Prepare(r, u.id, linkRows(r, u.id))
  BY LookupTypes DEF registerYandexUser, yandexRows, linkRows, TypeOK

\* resolveAccount links to the account of a known email, or goes on to the
\* login.
LEMMA resolveAccountEffect ==
    ASSUME TypeOK, NEW r \in Request, call[r].op = "vk", resolveAccount(r)
    PROVE  \/ \E u \in Users(db) : u.id \in Request /\ Prepare(r, u.id, linkRows(r, u.id))
           \/ Goto(r, "vkLogin") /\ UNCHANGED <<answer, account, txvars>>
  BY LookupTypes DEF resolveAccount, vkIdentityRow, linkRows, TypeOK

\* A known VK identity ends Accept without an INSERT; otherwise the email or
\* the login is next.
LEMMA VKIdentityEffect ==
    ASSUME TypeOK, NEW r \in Request, VKIdentity(r)
    PROVE  \/ \E i \in Identities(db) :
                /\ i.user \in Request /\ i = vkIdentityRow(r, i.user)
                /\ Prepare(r, i.user, <<>>)
           \/ \E label \in {"vkLogin", "vkEmail"} :
                Goto(r, label) /\ UNCHANGED <<answer, account, txvars>>
  <1> DEFINE found == GetByProviderSubject(db, "vk", trim[call[r].subject])
  <1>1. CASE found # {}
    <2>1. PICK i \in found : Prepare(r, i.user, <<>>)
      BY <1>1 DEF VKIdentity
    <2>2. i \in Identities(db) /\ i.user \in Request /\ i = vkIdentityRow(r, i.user)
      <3>1. db \in SUBSET Row
        BY DEF TypeOK
      <3>2. /\ i \in Identities(db) /\ i.user \in Request
            /\ i = IdentityRow("vk", trim[call[r].subject], i.user)
        BY <3>1, RowFields DEF GetByProviderSubject, Identities
      <3>3. QED
        BY <3>2 DEF vkIdentityRow
    <2>3. QED
      BY <2>1, <2>2
  <1>2. CASE found = {}
    BY <1>2, Zenon DEF VKIdentity
  <1>3. QED
    BY <1>1, <1>2

\* A free login is used, a taken one leads to the fallback, a taken fallback
\* to an error.
LEMMA resolveLoginEffect ==
    ASSUME TypeOK, NEW r \in Request, resolveLogin(r) \/ resolveFallback(r)
    PROVE  \/ \E login \in {fallbackLogin(call[r]), baseLogin(call[r])} :
                Prepare(r, r, vkRows(r, login))
           \/ Answer(r, "error") /\ UNCHANGED account
           \/ Goto(r, "vkFallback") /\ UNCHANGED <<answer, account, txvars>>
  BY DEF resolveLogin, resolveFallback, CreateVKAccount, vkRows

-----------------------------------------------------------------------------
(* The invariant.                                                          *)

\* The statements of each use case.
Belongs(label, op) ==
    /\ label \in {"registerLogin", "registerEmail"} => op = "register"
    /\ label \in {"loginFind", "loginCredential"} => op = "login"
    /\ label \in {"yandexIdentity", "yandexAccount", "yandexEmail"} => op = "yandex"
    /\ label \in {"vkIdentity", "vkEmail", "vkLogin", "vkFallback"} => op = "vk"

\* A request only executes statements of its own use case.
OpInv == \A r \in Request : Belongs(pc[r], call[r].op)

TypeInv == TypeOK /\ OpInv

HasAccount(id) == \E u \in Users(db) : u.id = id

\* What the caller of a successful call may rely on.
Durable(r) ==
    /\ HasAccount(account[r])
    /\ call[r].op \in {"register", "login"} => CredentialRow(account[r], call[r].password) \in db
    /\ call[r].op \in {"yandex", "vk"} =>
          IdentityRow(call[r].op, trim[call[r].subject], account[r]) \in db
    /\ call[r].op = "login" =>
          \E u \in findUserByIdentifier(db, call[r].login) : u.id = account[r]

\* What the caller of a call that answered ErrUserAlreadyExists may rely on.
TakenBySomebodyElse(r) ==
    \E u \in Users(db) :
        /\ u.id # r
        /\ \/ u.email = norm[call[r].email]
           \/ u.login = IF call[r].op = "yandex"
                        THEN buildExternalLogin(call[r]) ELSE norm[call[r].login]

\* The five transactions there are.
Transaction(r) ==
    \/ call[r].op = "register" /\ account[r] = r /\ work[r] = registerRows(r)
    \/ call[r].op = "yandex" /\ account[r] = r /\ work[r] = yandexRows(r)
    \/ /\ call[r].op = "vk" /\ account[r] = r
       /\ \E login \in {fallbackLogin(call[r]), baseLogin(call[r])} : work[r] = vkRows(r, login)
    \/ /\ call[r].op \in {"yandex", "vk"} /\ account[r] \in Request /\ HasAccount(account[r])
       /\ work[r] = linkRows(r, account[r])
    \/ call[r].op = "vk" /\ Durable(r) /\ work[r] = <<>>

\* What a request knows, by the statement it is about to execute.
RequestInv(r) ==
    /\ pc[r] # "writing" => work[r] = <<>>
    /\ pc[r] = "writing" => Transaction(r)
    /\ pc[r] = "loginCredential" =>
          \E u \in findUserByIdentifier(db, call[r].login) : u.id = account[r]
    /\ pc[r] = "yandexAccount" => IdentityRow("yandex", trim[call[r].subject], account[r]) \in db
    /\ pc[r] = "tokens" \/ answer[r] = "ok" => Durable(r)
    /\ answer[r] = "exists" => TakenBySomebodyElse(r)
    /\ answer[r] # "none" => pc[r] = "done"
    /\ HasAccount(r) => pc[r] \in {"tokens", "done"}

\* The tables: what is stored is in normal form and refers to accounts that
\* exist; the replica has nothing the primary has not.
TableInv ==
    /\ replica \subseteq db
    /\ \A u \in Users(db) : norm[u.login] = u.login /\ norm[u.email] = u.email
    /\ \A i \in Identities(db) : trim[i.subject] = i.subject /\ HasAccount(i.user)
    /\ \A r \in Request : HasAccount(r) /\ call[r].op = "vk" => vkIdentityRow(r, r) \in db

\* No unique key is used twice, counting the rows of open transactions.
KeyInv ==
    /\ \A a, b \in db : Collide(a, b) => a = b
    /\ \A r \in Request : \A a \in db, b \in Uncommitted(r) : ~Collide(a, b)
    /\ \A r, s \in Request : r # s =>
          \A a \in Uncommitted(r), b \in Uncommitted(s) : ~Collide(a, b)
    /\ \A r \in Request : \A a, b \in Uncommitted(r) : Collide(a, b) => a = b

AccountInv == (\A r \in Request : RequestInv(r)) /\ TableInv /\ KeyInv

-----------------------------------------------------------------------------
(* Type correctness.                                                       *)

\* The types hold at the start.
LEMMA TypeInvInit ==
    Init => TypeInv
  <1>1. <<>> \in Seq(Row) /\ Len(<<>>) = 0
    OBVIOUS
  <1>2. QED
    BY <1>1 DEF Init, TypeInv, TypeOK, OpInv, Belongs, PC

\* A request that returns.
LEMMA AnswerKeepsType ==
    ASSUME TypeInv, NEW r \in Request,
           NEW result \in {"ok", "exists", "invalid", "error"}, Answer(r, result),
           db' \in SUBSET Row, UNCHANGED <<replica, call, account>>
    PROVE  TypeInv'
  <1>1. TypeOK'
    BY AnswerType DEF TypeInv, TypeOK
  <1>2. OpInv'
    BY DEF TypeInv, OpInv, Belongs, TypeOK, Answer, Goto
  <1>3. QED
    BY <1>1, <1>2 DEF TypeInv

\* A request that begins its transaction.
LEMMA PrepareKeepsType ==
    ASSUME TypeInv, NEW r \in Request, NEW id \in Request, NEW rows \in Seq(Row),
           Prepare(r, id, rows), UNCHANGED <<db, replica, call>>
    PROVE  TypeInv'
  <1>1. TypeOK'
    BY PrepareType DEF TypeInv, TypeOK
  <1>2. OpInv'
    BY DEF TypeInv, OpInv, Belongs, TypeOK, Prepare, Goto
  <1>3. QED
    BY <1>1, <1>2 DEF TypeInv

\* A request that goes on to its next statement.
LEMMA GotoKeepsType ==
    ASSUME TypeInv, NEW r \in Request, NEW label \in PC, Belongs(label, call[r].op),
           Goto(r, label),
           UNCHANGED <<db, replica, call, answer, txvars>>,
           account' \in [Request -> Request \cup {Nobody}]
    PROVE  TypeInv'
  <1>1. TypeOK'
    BY GotoType DEF TypeInv, TypeOK, txvars
  <1>2. OpInv'
    BY DEF TypeInv, OpInv, TypeOK, Goto
  <1>3. QED
    BY <1>1, <1>2 DEF TypeInv

\* The six kinds of steps a request can take.
Returns(r) ==
    /\ \E result \in {"ok", "exists", "invalid", "error"} : Answer(r, result)
    /\ UNCHANGED <<db, replica, call, account>>
Begins(r) ==
    /\ \E id \in Request, rows \in Seq(Row) : Prepare(r, id, rows)
    /\ UNCHANGED <<db, replica, call>>
Moves(r) ==
    /\ \E label \in PC \ {"new", "writing", "done"} :
          Belongs(label, call[r].op) /\ Goto(r, label)
    /\ UNCHANGED <<db, replica, call, answer, txvars>>
    /\ account' = account \/ \E id \in Request : account' = [account EXCEPT ![r] = id]

\* The start of a use case returns or moves on.
LEMMA StartKind ==
    ASSUME NEW r \in Request, NEW op, NEW valid, NEW first \in PC \ {"new", "writing", "done"},
           Belongs(first, op), Start(r, op, valid, first)
    PROVE  Returns(r) \/ Moves(r)
  <1>1. CASE Answer(r, "invalid") /\ UNCHANGED <<db, replica, call, account>>
    BY <1>1 DEF Returns
  <1>2. CASE Goto(r, first) /\ UNCHANGED <<answer, txvars, db, replica, call, account>>
    <2>1. Belongs(first, call[r].op)
      BY DEF Start
    <2>2. QED
      BY <1>2, <2>1 DEF Moves
  <1>3. QED
    BY <1>1, <1>2, Zenon DEF Start

\* Every step of a request is of one of these kinds, or an INSERT or a
\* COMMIT.
LEMMA StepKinds ==
    ASSUME TypeInv, NEW r \in Request, Step(r) \/ Fail(r)
    PROVE  \/ Returns(r) \/ Begins(r) \/ Moves(r)
           \/ Insert(r) \/ Commit(r) \/ CommitLost(r)
  <1>0. /\ TypeOK
        /\ Belongs(pc[r], call[r].op)
    BY DEF TypeInv, OpInv
  <1>1. CASE Register(r) \/ Login(r) \/ CompleteYandexLogin(r) \/ Accept(r)
    <2>1. {"registerLogin", "loginFind", "yandexIdentity", "vkIdentity"}
             \subseteq PC \ {"new", "writing", "done"}
      BY DEF PC
    <2>2. /\ Belongs("registerLogin", "register")
          /\ Belongs("loginFind", "login")
          /\ Belongs("yandexIdentity", "yandex")
          /\ Belongs("vkIdentity", "vk")
      BY DEF Belongs
    <2>3. QED
      BY <1>1, <2>1, <2>2, StartKind DEF Register, Login, CompleteYandexLogin, Accept
  <1>2. CASE ensureLoginIsUnique(r)
    BY <1>2, <1>0 DEF ensureLoginIsUnique, Returns, Moves, Belongs, PC
  <1>3. CASE ensureEmailIsUnique(r)
    <2>1. registerRows(r) \in Seq(Row)
      BY <1>0, RowsTypes
    <2>2. QED
      BY <1>3, <2>1 DEF ensureEmailIsUnique, Returns, Begins
  <1>4. CASE FindUser(r)
    BY <1>4, <1>0, LookupTypes DEF FindUser, findUserByIdentifier, Returns, Moves, Belongs, PC, TypeOK
  <1>5. CASE ValidatePassword(r)
    BY <1>5, <1>0 DEF ValidatePassword, Returns, Moves, Belongs, PC
  <1>6. CASE YandexIdentity(r)
    BY <1>6, <1>0, LookupTypes DEF YandexIdentity, Moves, Belongs, PC, TypeOK, txvars
  <1>7. CASE YandexAccount(r)
    BY <1>7, <1>0 DEF YandexAccount, Returns, Moves, Belongs, PC
  <1>8. CASE registerYandexUser(r)
    <2>1. call[r].op = "yandex"
      BY <1>0, <1>8 DEF registerYandexUser, Belongs
    <2>2. yandexRows(r) \in Seq(Row) /\ \A id \in Request : linkRows(r, id) \in Seq(Row)
      BY <1>0, <2>1, RowsTypes
    <2>3. \E id \in Request, rows \in Seq(Row) : Prepare(r, id, rows)
      BY <1>0, <1>8, <2>1, <2>2, registerYandexUserEffect
    <2>4. QED
      BY <1>8, <2>3 DEF registerYandexUser, Begins
  <1>9. CASE VKIdentity(r)
    <2>1. CASE \E i \in Identities(db) : i.user \in Request /\ Prepare(r, i.user, <<>>)
      <3>1. <<>> \in Seq(Row)
        OBVIOUS
      <3>2. UNCHANGED <<db, replica, call>>
        BY <1>9 DEF VKIdentity
      <3>3. QED
        BY <2>1, <3>1, <3>2 DEF Begins
    <2>2. CASE \E label \in {"vkLogin", "vkEmail"} :
                 Goto(r, label) /\ UNCHANGED <<answer, account, txvars>>
      BY <1>9, <1>0, <2>2 DEF VKIdentity, Moves, Belongs, PC
    <2>3. QED
      BY <1>0, <1>9, <2>1, <2>2, VKIdentityEffect
  <1>10. CASE resolveAccount(r)
    <2>1. call[r].op = "vk"
      BY <1>0, <1>10 DEF resolveAccount, Belongs
    <2>2. \A id \in Request : linkRows(r, id) \in Seq(Row)
      BY <1>0, <2>1, RowsTypes
    <2>3. CASE \E u \in Users(db) : u.id \in Request /\ Prepare(r, u.id, linkRows(r, u.id))
      BY <1>10, <2>2, <2>3 DEF resolveAccount, Begins
    <2>4. CASE Goto(r, "vkLogin") /\ UNCHANGED <<answer, account, txvars>>
      BY <1>10, <2>1, <2>4 DEF resolveAccount, Moves, Belongs, PC
    <2>5. QED
      BY <1>0, <1>10, <2>1, <2>3, <2>4, resolveAccountEffect
  <1>11. CASE resolveLogin(r) \/ resolveFallback(r)
    <2>1. call[r].op = "vk"
      BY <1>0, <1>11 DEF resolveLogin, resolveFallback, Belongs
    <2>2. CASE \E login \in {fallbackLogin(call[r]), baseLogin(call[r])} :
                 Prepare(r, r, vkRows(r, login))
      <3>1. PICK login \in {fallbackLogin(call[r]), baseLogin(call[r])} :
              Prepare(r, r, vkRows(r, login))
        BY <2>2
      <3>2. vkRows(r, login) \in Seq(Row)
        BY <1>0, RowsTypes
      <3>3. QED
        BY <1>11, <3>1, <3>2 DEF resolveLogin, resolveFallback, Begins
    <2>3. CASE Answer(r, "error") /\ UNCHANGED account
      BY <1>11, <2>3 DEF resolveLogin, resolveFallback, Returns
    <2>4. CASE Goto(r, "vkFallback") /\ UNCHANGED <<answer, account, txvars>>
      BY <1>11, <2>1, <2>4 DEF resolveLogin, resolveFallback, Moves, Belongs, PC
    <2>5. QED
      BY <1>0, <1>11, <2>2, <2>3, <2>4, resolveLoginEffect
  <1>12. CASE UniqueViolation(r)
    BY <1>12 DEF UniqueViolation, mapCreateError, Returns
  <1>13. CASE IssueTokens(r) \/ Fail(r)
    BY <1>13 DEF IssueTokens, Fail, Returns
  <1>14. QED
    BY <1>1, <1>2, <1>3, <1>4, <1>5, <1>6, <1>7, <1>8, <1>9, <1>10, <1>11, <1>12, <1>13 DEF Step

\* The rows of a transaction are rows of the tables.
LEMMA AllRowsType ==
    ASSUME TypeOK, NEW r \in Request
    PROVE  AllRows(r) \subseteq Row /\ Uncommitted(r) \subseteq Row
  BY DEF TypeOK, AllRows, Uncommitted

\* Every step keeps the types.
LEMMA TypeInvStep ==
    TypeInv /\ [Next]_vars => TypeInv'
  <1> SUFFICES ASSUME TypeInv, [Next]_vars
               PROVE  TypeInv'
    OBVIOUS
  <1>0. TypeOK
    BY DEF TypeInv
  <1>1. ASSUME NEW r \in Request, Step(r) \/ Fail(r)
        PROVE  TypeInv'
    <2>1. CASE Returns(r)
      BY <1>0, <2>1, AnswerKeepsType DEF Returns, TypeOK
    <2>2. CASE Begins(r)
      BY <2>2, PrepareKeepsType DEF Begins
    <2>3. CASE Moves(r)
      <3>1. account' \in [Request -> Request \cup {Nobody}]
        BY <1>0, <2>3 DEF Moves, TypeOK
      <3>2. QED
        BY <2>3, <3>1, GotoKeepsType DEF Moves
    <2>4. CASE Insert(r)
      BY <1>0, <2>4 DEF Insert, HasNextRow, TypeInv, TypeOK, OpInv
    <2>5. CASE Commit(r)
      <3>1. AllRows(r) \subseteq Row
        BY <1>0, AllRowsType
      <3>2. <<>> \in Seq(Row) /\ Len(<<>>) = 0
        OBVIOUS
      <3>3. TypeOK'
        <4>1. pc' \in [Request -> PC]
          <5>1. Goto(r, "done") \/ Goto(r, "tokens")
            BY <2>5 DEF Commit
          <5>2. "done" \in PC /\ "tokens" \in PC
            BY DEF PC
          <5>3. QED
            BY <1>0, <5>1, <5>2, GotoType
        <4>2. answer' \in [Request -> {"none", "ok", "exists", "invalid", "error"}]
          BY <1>0, <2>5 DEF Commit, TypeOK
        <4>3. /\ work' = [work EXCEPT ![r] = <<>>]
              /\ inserted' = [inserted EXCEPT ![r] = 0]
              /\ db' = db \cup AllRows(r)
              /\ UNCHANGED <<replica, call, account>>
          BY <2>5 DEF Commit
        <4>4. QED
          BY <1>0, <3>1, <3>2, <4>1, <4>2, <4>3 DEF TypeOK
      <3>4. OpInv'
        BY <1>0, <2>5 DEF Commit, Goto, TypeOK, TypeInv, OpInv, Belongs
      <3>5. QED
        BY <3>3, <3>4 DEF TypeInv
    <2>6. CASE CommitLost(r)
      <3>1. db' \in SUBSET Row
        BY <1>0, <2>6, AllRowsType DEF CommitLost, TypeOK
      <3>2. QED
        BY <2>6, <3>1, AnswerKeepsType DEF CommitLost
    <2>7. QED
      BY <1>1, <2>1, <2>2, <2>3, <2>4, <2>5, <2>6, StepKinds
  <1>2. CASE Replicate
    BY <1>0, <1>2 DEF Replicate, TypeInv, TypeOK, OpInv, txvars
  <1>3. CASE UNCHANGED vars
    BY <1>0, <1>3 DEF vars, TypeInv, TypeOK, OpInv
  <1>4. QED
    BY <1>1, <1>2, <1>3 DEF Next

\* The use cases keep the tables and their own variables in their types: every
\* transaction is a list of well-formed rows, and no more of them are executed
\* than there are.
THEOREM TypeCorrect ==
    Spec => []TypeOK
  <1>1. TypeInv => TypeOK
    BY DEF TypeInv
  <1>2. QED
    BY <1>1, TypeInvInit, TypeInvStep, PTL DEF Spec

-----------------------------------------------------------------------------
(* Unique keys.                                                            *)

\* Which transactions have inserted what after a step of r.
LEMMA UncommittedStep ==
    ASSUME TypeInv, NEW r \in Request, Step(r) \/ Fail(r)
    PROVE  /\ \A s \in Request \ {r} : Uncommitted(s)' = Uncommitted(s)
           /\ \/ db' = db /\ Uncommitted(r)' = {}
              \/ db' = db /\ Uncommitted(r)' = Uncommitted(r)
              \/ /\ db' = db
                 /\ Uncommitted(r)' = Uncommitted(r) \cup {NextRow(r)}
                 /\ \A row \in db : ~Collide(row, NextRow(r))
                 /\ \A s \in Request : \A row \in Uncommitted(s) : ~Collide(row, NextRow(r))
              \/ db' = db \cup Uncommitted(r) /\ Uncommitted(r)' = {}
  <1>0. TypeOK
    BY DEF TypeInv
  <1>1. ASSUME inserted' = [inserted EXCEPT ![r] = 0], NEW rows, work' = [work EXCEPT ![r] = rows]
        PROVE  Uncommitted(r)' = {} /\ \A s \in Request \ {r} : Uncommitted(s)' = Uncommitted(s)
    BY <1>0, <1>1 DEF Uncommitted, TypeOK
  <1>2. CASE Returns(r)
    BY <1>1, <1>2 DEF Returns, Answer
  <1>3. CASE Begins(r)
    BY <1>1, <1>3 DEF Begins, Prepare
  <1>4. CASE Moves(r)
    BY <1>4 DEF Moves, txvars, Uncommitted
  <1>5. CASE Insert(r)
    <2>1. /\ inserted' = [inserted EXCEPT ![r] = inserted[r] + 1] /\ UNCHANGED <<db, work>>
          /\ \A row \in db : ~Collide(row, NextRow(r))
          /\ \A s \in Request : \A row \in Uncommitted(s) : ~Collide(row, NextRow(r))
      BY <1>5 DEF Insert
    <2>2. 1..(inserted[r] + 1) = 1..inserted[r] \cup {inserted[r] + 1}
      BY <1>0 DEF TypeOK
    <2>3. Uncommitted(r)' = Uncommitted(r) \cup {NextRow(r)}
      BY <1>0, <2>1, <2>2 DEF Uncommitted, NextRow, TypeOK
    <2>4. \A s \in Request \ {r} : Uncommitted(s)' = Uncommitted(s)
      BY <1>0, <2>1 DEF Uncommitted, TypeOK
    <2>5. QED
      BY <2>1, <2>3, <2>4
  <1>6. CASE Commit(r) \/ CommitLost(r)
    <2>1. /\ inserted' = [inserted EXCEPT ![r] = 0] /\ work' = [work EXCEPT ![r] = <<>>]
          /\ db' = db \cup AllRows(r)
          /\ inserted[r] = Len(work[r])
      BY <1>6 DEF Commit, CommitLost, Answer
    <2>2. AllRows(r) = Uncommitted(r)
      BY <2>1 DEF AllRows, Uncommitted
    <2>3. QED
      BY <1>1, <2>1, <2>2
  <1>7. QED
    BY <1>2, <1>3, <1>4, <1>5, <1>6, StepKinds

\* No key is used at the start.
LEMMA KeyInvInit ==
    Init => KeyInv
  BY DEF Init, KeyInv, Uncommitted

\* No step uses a key twice: an INSERT waits or fails, and a COMMIT only
\* moves rows.
LEMMA KeyInvStep ==
    TypeInv /\ KeyInv /\ [Next]_vars => KeyInv'
  <1> SUFFICES ASSUME TypeInv, KeyInv, [Next]_vars
               PROVE  KeyInv'
    OBVIOUS
  <1>s. \A a, b : Collide(a, b) = Collide(b, a)
    BY DEF Collide
  <1>1. ASSUME NEW r \in Request, Step(r) \/ Fail(r)
        PROVE  KeyInv'
    <2>1. \A s \in Request \ {r} : Uncommitted(s)' = Uncommitted(s)
      BY <1>1, UncommittedStep
    <2>2. CASE db' = db /\ (Uncommitted(r)' = {} \/ Uncommitted(r)' = Uncommitted(r))
      <3>1. \A s \in Request : Uncommitted(s)' \subseteq Uncommitted(s)
        BY <2>1, <2>2
      <3>2. QED
        BY <2>2, <3>1 DEF KeyInv
    <2>4. CASE /\ db' = db
               /\ Uncommitted(r)' = Uncommitted(r) \cup {NextRow(r)}
               /\ \A row \in db : ~Collide(row, NextRow(r))
               /\ \A s \in Request : \A row \in Uncommitted(s) : ~Collide(row, NextRow(r))
      <3>1. \A a, b \in db' : Collide(a, b) => a = b
        BY <2>4 DEF KeyInv
      <3>2. ASSUME NEW s \in Request, NEW a \in db', NEW b \in Uncommitted(s)'
            PROVE  ~Collide(a, b)
        <4>1. CASE b \in Uncommitted(s)
          BY <2>4, <3>2, <4>1 DEF KeyInv
        <4>2. CASE b = NextRow(r)
          BY <2>4, <3>2, <4>2
        <4>3. QED
          BY <2>1, <2>4, <3>2, <4>1, <4>2
      <3>3. ASSUME NEW s \in Request, NEW t \in Request, s # t,
                   NEW a \in Uncommitted(s)', NEW b \in Uncommitted(t)'
            PROVE  ~Collide(a, b)
        <4>1. CASE a \in Uncommitted(s) /\ b \in Uncommitted(t)
          BY <3>3, <4>1 DEF KeyInv
        <4>2. CASE s = r /\ a = NextRow(r)
          BY <1>s, <2>1, <2>4, <3>3, <4>2
        <4>3. CASE t = r /\ b = NextRow(r)
          BY <2>1, <2>4, <3>3, <4>3
        <4>4. QED
          BY <2>1, <2>4, <3>3, <4>1, <4>2, <4>3
      <3>4. ASSUME NEW s \in Request, NEW a \in Uncommitted(s)', NEW b \in Uncommitted(s)',
                   Collide(a, b)
            PROVE  a = b
        <4>1. CASE a \in Uncommitted(s) /\ b \in Uncommitted(s)
          BY <3>4, <4>1 DEF KeyInv
        <4>2. CASE s = r /\ (a = NextRow(r) \/ b = NextRow(r))
          BY <1>s, <2>4, <3>4, <4>2
        <4>3. QED
          BY <2>1, <2>4, <3>4, <4>1, <4>2
      <3>5. QED
        BY <3>1, <3>2, <3>3, <3>4 DEF KeyInv
    <2>5. CASE db' = db \cup Uncommitted(r) /\ Uncommitted(r)' = {}
      <3>1. \A a, b \in db' : Collide(a, b) => a = b
        BY <1>s, <2>5 DEF KeyInv
      <3>2. \A s \in Request : Uncommitted(s)' \subseteq Uncommitted(s)
        BY <2>1, <2>5
      <3>3. ASSUME NEW s \in Request, NEW a \in db', NEW b \in Uncommitted(s)'
            PROVE  ~Collide(a, b)
        <4>1. s # r /\ b \in Uncommitted(s)
          BY <2>5, <3>2, <3>3
        <4>2. QED
          BY <2>5, <4>1 DEF KeyInv
      <3>4. QED
        BY <3>1, <3>2, <3>3 DEF KeyInv
    <2>6. QED
      BY <1>1, <2>2, <2>4, <2>5, UncommittedStep
  <1>2. CASE Replicate \/ UNCHANGED vars
    <2>1. UNCHANGED <<db, work, inserted>>
      BY <1>2 DEF Replicate, vars, txvars
    <2>2. \A r \in Request : Uncommitted(r)' = Uncommitted(r)
      BY <2>1 DEF Uncommitted
    <2>3. QED
      BY <2>1, <2>2 DEF KeyInv
  <1>3. QED
    BY <1>1, <1>2 DEF Next

\* Rows that share a name or an identity collide.
LEMMA UserCollision ==
    ASSUME NEW u, NEW v, u.table = "auth_users", v.table = "auth_users",
           u.id = v.id \/ u.login = v.login \/ u.email = v.email
    PROVE  Collide(u, v)
  BY DEF Collide, UniqueKeys

\* Two identities with one provider and subject collide.
LEMMA IdentityCollision ==
    ASSUME NEW i, NEW j, i.table = "auth_external_identities", j.table = "auth_external_identities",
           i.provider = j.provider, i.subject = j.subject
    PROVE  Collide(i, j)
  BY DEF Collide, UniqueKeys

\* A row that collides with an account is an account.
LEMMA UserCollidesWithUser ==
    ASSUME NEW row \in Row, NEW u \in Row, u.table = "auth_users", Collide(row, u)
    PROVE  /\ row.table = "auth_users"
           /\ row.id = u.id \/ row.login = u.login \/ row.email = u.email
  <1>1. PICK key : key \in UniqueKeys(row) /\ key \in UniqueKeys(u)
    BY DEF Collide
  <1>2. key \in {<<"id", u.id>>, <<"login", u.login>>, <<"email", u.email>>}
    BY <1>1 DEF UniqueKeys
  <1>3. CASE row.table = "auth_users"
    BY <1>1, <1>2, <1>3 DEF UniqueKeys
  <1>4. CASE row.table = "auth_password_credentials"
    BY <1>1, <1>2, <1>4 DEF UniqueKeys
  <1>5. CASE row.table = "auth_external_identities"
    BY <1>1, <1>2, <1>5 DEF UniqueKeys
  <1>6. CASE row.table = "auth_outbox_messages"
    BY <1>1, <1>2, <1>6 DEF UniqueKeys
  <1>7. QED
    BY <1>3, <1>4, <1>5, <1>6, RowFields

-----------------------------------------------------------------------------
(* What a commit adds.                                                     *)

\* The rows of a list of no, one and three rows.
LEMMA RowsOfWork ==
    ASSUME NEW r
    PROVE  /\ Len(work[r]) = 0 => \A row : row \notin AllRows(r)
           /\ Len(work[r]) = 1 => \A row : row \in AllRows(r) <=> row = work[r][1]
           /\ Len(work[r]) = 3 => \A row : row \in AllRows(r) <=>
                                     row = work[r][1] \/ row = work[r][2] \/ row = work[r][3]
  <1>1. 1..0 = {} /\ 1..1 = {1} /\ 1..3 = {1, 2, 3}
    OBVIOUS
  <1>2. ASSUME Len(work[r]) = 0
        PROVE  \A row : row \notin AllRows(r)
    BY <1>1, <1>2 DEF AllRows
  <1>3. ASSUME Len(work[r]) = 1
        PROVE  \A row : row \in AllRows(r) <=> row = work[r][1]
    BY <1>1, <1>3 DEF AllRows
  <1>4. ASSUME Len(work[r]) = 3
        PROVE  \A row : row \in AllRows(r) <=>
                           row = work[r][1] \/ row = work[r][2] \/ row = work[r][3]
    BY <1>1, <1>4 DEF AllRows
  <1>5. QED
    BY <1>2, <1>3, <1>4

\* A transaction is one of five sets of rows.
LEMMA TransactionRows ==
    ASSUME NEW r, Transaction(r)
    PROVE  \/ /\ call[r].op = "register" /\ account[r] = r
              /\ AllRows(r) = {UserRow(r, norm[call[r].login], norm[call[r].email]),
                               CredentialRow(r, call[r].password),
                               EventRow(r, r)}
           \/ /\ call[r].op \in {"yandex", "vk"} /\ account[r] = r
              /\ \E login \in {buildExternalLogin(call[r]), fallbackLogin(call[r]), baseLogin(call[r])},
                    email \in {norm[call[r].email], emailOrPlaceholder(call[r])} :
                   AllRows(r) = {UserRow(r, login, email),
                                 IdentityRow(call[r].op, trim[call[r].subject], r),
                                 EventRow(r, r)}
           \/ /\ call[r].op \in {"yandex", "vk"} /\ account[r] \in Request /\ HasAccount(account[r])
              /\ AllRows(r) = {IdentityRow(call[r].op, trim[call[r].subject], account[r])}
           \/ call[r].op = "vk" /\ Durable(r) /\ AllRows(r) = {}
  <1>1. CASE call[r].op = "register" /\ account[r] = r /\ work[r] = registerRows(r)
    <2>1. /\ Len(work[r]) = 3
          /\ work[r][1] = UserRow(r, norm[call[r].login], norm[call[r].email])
          /\ work[r][2] = CredentialRow(r, call[r].password)
          /\ work[r][3] = EventRow(r, r)
      BY <1>1 DEF registerRows
    <2>2. \A row : row \in AllRows(r) <=>
                      row = work[r][1] \/ row = work[r][2] \/ row = work[r][3]
      BY <2>1, RowsOfWork
    <2>3. AllRows(r) = {UserRow(r, norm[call[r].login], norm[call[r].email]),
                        CredentialRow(r, call[r].password),
                        EventRow(r, r)}
      BY <2>1, <2>2
    <2>4. QED
      BY <1>1, <2>3
  <1>2. CASE call[r].op = "yandex" /\ account[r] = r /\ work[r] = yandexRows(r)
    <2>1. /\ Len(work[r]) = 3
          /\ work[r][1] = UserRow(r, buildExternalLogin(call[r]), norm[call[r].email])
          /\ work[r][2] = EventRow(r, r)
          /\ work[r][3] = IdentityRow(call[r].op, trim[call[r].subject], r)
      BY <1>2 DEF yandexRows
    <2>2. \A row : row \in AllRows(r) <=>
                      row = work[r][1] \/ row = work[r][2] \/ row = work[r][3]
      BY <2>1, RowsOfWork
    <2>3. AllRows(r) = {UserRow(r, buildExternalLogin(call[r]), norm[call[r].email]),
                        IdentityRow(call[r].op, trim[call[r].subject], r),
                        EventRow(r, r)}
      BY <2>1, <2>2
    <2>4. QED
      BY <1>2, <2>3
  <1>3. ASSUME call[r].op = "vk" /\ account[r] = r,
               NEW login \in {fallbackLogin(call[r]), baseLogin(call[r])},
               work[r] = vkRows(r, login)
        PROVE  AllRows(r) = {UserRow(r, login, emailOrPlaceholder(call[r])),
                             IdentityRow(call[r].op, trim[call[r].subject], r),
                             EventRow(r, r)}
    <2>1. /\ Len(work[r]) = 3
          /\ work[r][1] = UserRow(r, login, emailOrPlaceholder(call[r]))
          /\ work[r][2] = IdentityRow(call[r].op, trim[call[r].subject], r)
          /\ work[r][3] = EventRow(r, r)
      BY <1>3 DEF vkRows, vkIdentityRow
    <2>2. QED
      BY <2>1, RowsOfWork
  <1>4. CASE /\ call[r].op \in {"yandex", "vk"} /\ account[r] \in Request /\ HasAccount(account[r])
             /\ work[r] = linkRows(r, account[r])
    <2>1. Len(work[r]) = 1 /\ work[r][1] = IdentityRow(call[r].op, trim[call[r].subject], account[r])
      BY <1>4 DEF linkRows
    <2>2. AllRows(r) = {IdentityRow(call[r].op, trim[call[r].subject], account[r])}
      BY <2>1, RowsOfWork
    <2>3. QED
      BY <1>4, <2>2
  <1>5. CASE call[r].op = "vk" /\ Durable(r) /\ work[r] = <<>>
    BY <1>5, RowsOfWork
  <1>6. QED
    BY <1>1, <1>2, <1>3, <1>4, <1>5 DEF Transaction

\* New accounts are the request's own and their names are in normal form; new
\* identities are trimmed and belong to an account that is there; and then
\* the request has what it asked for.
LEMMA CommittedRows ==
    ASSUME TypeInv, NEW r \in Request, Transaction(r)
    PROVE  /\ \A u \in Users(AllRows(r)) :
                /\ u.id = r /\ account[r] = r
                /\ norm[u.login] = u.login /\ norm[u.email] = u.email
                /\ call[r].op = "vk" => vkIdentityRow(r, r) \in AllRows(r)
           /\ \A i \in Identities(AllRows(r)) : trim[i.subject] = i.subject /\ i.user = account[r]
           /\ \E u \in Users(db \cup AllRows(r)) : u.id = account[r]
           /\ call[r].op = "register" =>
                CredentialRow(account[r], call[r].password) \in AllRows(r)
           /\ call[r].op \in {"yandex", "vk"} =>
                IdentityRow(call[r].op, trim[call[r].subject], account[r]) \in db \cup AllRows(r)
           /\ call[r].op # "login"
  <1>0. TypeOK
    BY DEF TypeInv
  <1>1. trim[trim[call[r].subject]] = trim[call[r].subject]
    BY <1>0, DerivedNames
  <1>2. CASE /\ call[r].op = "register" /\ account[r] = r
             /\ AllRows(r) = {UserRow(r, norm[call[r].login], norm[call[r].email]),
                              CredentialRow(r, call[r].password),
                              EventRow(r, r)}
    <2> DEFINE user == UserRow(r, norm[call[r].login], norm[call[r].email])
    <2>1. /\ norm[norm[call[r].login]] = norm[call[r].login]
          /\ norm[norm[call[r].email]] = norm[call[r].email]
      BY <1>0, DerivedNames DEF Normal
    <2>2. /\ user.table = "auth_users" /\ user.id = r
          /\ norm[user.login] = user.login /\ norm[user.email] = user.email
          /\ CredentialRow(r, call[r].password).table = "auth_password_credentials"
          /\ EventRow(r, r).table = "auth_outbox_messages"
      BY <2>1 DEF UserRow, CredentialRow, EventRow
    <2> HIDE DEF user
    <2>3. /\ \A u \in Users(AllRows(r)) : u = user
          /\ \A i : i \notin Identities(AllRows(r))
          /\ user \in Users(db \cup AllRows(r))
      BY <1>2, <2>2 DEF Users, Identities, user
    <2>4. QED
      BY <1>2, <2>2, <2>3
  <1>3. ASSUME call[r].op \in {"yandex", "vk"} /\ account[r] = r,
               NEW login \in {buildExternalLogin(call[r]), fallbackLogin(call[r]), baseLogin(call[r])},
               NEW email \in {norm[call[r].email], emailOrPlaceholder(call[r])},
               AllRows(r) = {UserRow(r, login, email),
                             IdentityRow(call[r].op, trim[call[r].subject], r),
                             EventRow(r, r)}
        PROVE  /\ \A u \in Users(AllRows(r)) :
                    /\ u.id = r /\ account[r] = r
                    /\ norm[u.login] = u.login /\ norm[u.email] = u.email
                    /\ call[r].op = "vk" => vkIdentityRow(r, r) \in AllRows(r)
               /\ \A i \in Identities(AllRows(r)) : trim[i.subject] = i.subject /\ i.user = account[r]
               /\ \E u \in Users(db \cup AllRows(r)) : u.id = account[r]
               /\ IdentityRow(call[r].op, trim[call[r].subject], account[r]) \in db \cup AllRows(r)
    <2> DEFINE user == UserRow(r, login, email)
               identity == IdentityRow(call[r].op, trim[call[r].subject], r)
    <2>1. norm[login] = login /\ norm[email] = email
      BY <1>0, DerivedNames DEF Normal
    <2>2. /\ user.table = "auth_users" /\ user.id = r
          /\ norm[user.login] = user.login /\ norm[user.email] = user.email
      BY <2>1 DEF UserRow
    <2>3. /\ identity.table = "auth_external_identities"
          /\ trim[identity.subject] = identity.subject /\ identity.user = r
          /\ EventRow(r, r).table = "auth_outbox_messages"
      BY <1>1 DEF IdentityRow, EventRow
    <2>4. AllRows(r) = {user, identity, EventRow(r, r)} /\ account[r] = r
      BY <1>3
    <2>5. call[r].op = "vk" => vkIdentityRow(r, r) = identity
      BY DEF vkIdentityRow
    <2>6. identity = IdentityRow(call[r].op, trim[call[r].subject], account[r])
      BY <2>4
    <2> HIDE DEF user, identity
    <2>7. /\ \A u \in Users(AllRows(r)) : u = user
          /\ \A i \in Identities(AllRows(r)) : i = identity
          /\ user \in Users(db \cup AllRows(r))
          /\ identity \in AllRows(r)
      BY <2>2, <2>3, <2>4 DEF Users, Identities
    <2>8. QED
      BY <2>2, <2>3, <2>4, <2>5, <2>6, <2>7
  <1>4. CASE /\ call[r].op \in {"yandex", "vk"} /\ account[r] \in Request /\ HasAccount(account[r])
             /\ AllRows(r) = {IdentityRow(call[r].op, trim[call[r].subject], account[r])}
    <2> DEFINE identity == IdentityRow(call[r].op, trim[call[r].subject], account[r])
    <2>1. /\ identity.table = "auth_external_identities"
          /\ trim[identity.subject] = identity.subject /\ identity.user = account[r]
      BY <1>1 DEF IdentityRow
    <2>2. AllRows(r) = {identity}
      BY <1>4
    <2> HIDE DEF identity
    <2>3. /\ \A u : u \notin Users(AllRows(r))
          /\ \A i \in Identities(AllRows(r)) : i = identity
      BY <2>1, <2>2 DEF Users, Identities
    <2>4. \E u \in Users(db \cup AllRows(r)) : u.id = account[r]
      BY <1>4 DEF HasAccount, Users
    <2>5. identity \in db \cup AllRows(r)
      BY <2>2
    <2>6. QED
      BY <1>4, <2>1, <2>3, <2>4, <2>5 DEF identity
  <1>5. CASE call[r].op = "vk" /\ Durable(r) /\ AllRows(r) = {}
    BY <1>5 DEF Durable, HasAccount, Users, Identities
  <1>6. QED
    BY <1>2, <1>3, <1>4, <1>5, TransactionRows

-----------------------------------------------------------------------------
(* The tables and the other requests in a step of r.                       *)

\* A step of r leaves the other requests alone, and adds the rows of its
\* transaction or none.
LEMMA StepEffect ==
    ASSUME TypeInv, NEW r \in Request, RequestInv(r), Step(r) \/ Fail(r)
    PROVE  /\ replica' = replica /\ call' = call
           /\ \A s \in Request \ {r} :
                /\ pc'[s] = pc[s] /\ account'[s] = account[s]
                /\ work'[s] = work[s] /\ answer'[s] = answer[s]
           /\ \/ db' = db
              \/ /\ db' = db \cup AllRows(r) /\ Transaction(r) /\ pc'[r] \in {"tokens", "done"}
                 /\ AllRows(r) = Uncommitted(r)
  <1>0. TypeOK
    BY DEF TypeInv
  <1>1. CASE Returns(r)
    BY <1>0, <1>1 DEF Returns, Answer, Goto, TypeOK
  <1>2. CASE Begins(r)
    BY <1>0, <1>2 DEF Begins, Prepare, Goto, TypeOK
  <1>3. CASE Moves(r)
    BY <1>0, <1>3 DEF Moves, Goto, TypeOK, txvars
  <1>4. CASE Insert(r)
    BY <1>0, <1>4 DEF Insert, TypeOK
  <1>5. CASE Commit(r)
    <2>1. Transaction(r) /\ db' = db \cup AllRows(r) /\ replica' = replica /\ call' = call
      BY <1>5 DEF Commit, RequestInv
    <2>a. AllRows(r) = Uncommitted(r)
      BY <1>5 DEF Commit, AllRows, Uncommitted
    <2>2. /\ pc' = [pc EXCEPT ![r] = "done"] \/ pc' = [pc EXCEPT ![r] = "tokens"]
          /\ answer' = [answer EXCEPT ![r] = "ok"] \/ answer' = answer
          /\ work' = [work EXCEPT ![r] = <<>>] /\ account' = account
      BY <1>5 DEF Commit, Goto
    <2>3. QED
      BY <1>0, <2>1, <2>a, <2>2 DEF TypeOK
  <1>6. CASE CommitLost(r)
    <2>1. AllRows(r) = Uncommitted(r)
      BY <1>6 DEF CommitLost, AllRows, Uncommitted
    <2>2. QED
      BY <1>0, <1>6, <2>1 DEF CommitLost, Answer, Goto, TypeOK, RequestInv
  <1>7. QED
    BY <1>1, <1>2, <1>3, <1>4, <1>5, <1>6, StepKinds

\* What is in the primary stays there.
LEMMA Growth ==
    ASSUME db \subseteq db', call' = call, NEW s \in Request
    PROVE  /\ \A id : HasAccount(id) => HasAccount(id)'
           /\ (\E u \in findUserByIdentifier(db, call[s].login) : u.id = account[s]) =>
                 \E u \in findUserByIdentifier(db', call[s].login) : u.id = account[s]
           /\ TakenBySomebodyElse(s) => TakenBySomebodyElse(s)'
           /\ account'[s] = account[s] /\ Durable(s) => Durable(s)'
  <1>1. \A id : HasAccount(id) => HasAccount(id)'
    BY DEF HasAccount, Users
  <1>2. \A u \in findUserByIdentifier(db, call[s].login) : u \in findUserByIdentifier(db', call[s].login)
    BY DEF findUserByIdentifier, GetByEmail, GetByLogin, Users
  <1>3. TakenBySomebodyElse(s) => TakenBySomebodyElse(s)'
    <2>1. Users(db) \subseteq Users(db')
      BY DEF Users
    <2>2. QED
      BY <2>1 DEF TakenBySomebodyElse, buildExternalLogin, Users
  <1>4. ASSUME account'[s] = account[s], Durable(s)
        PROVE  Durable(s)'
    <2>1. HasAccount(account[s])'
      BY <1>1, <1>4 DEF Durable
    <2>2. QED
      BY <1>2, <1>4, <2>1 DEF Durable, HasAccount, findUserByIdentifier
  <1>5. QED
    BY <1>1, <1>2, <1>3, <1>4

\* Only r creates the account r.
LEMMA NewAccounts ==
    ASSUME TypeInv, NEW r \in Request, RequestInv(r), Step(r) \/ Fail(r)
    PROVE  /\ db \subseteq db'
           /\ \A s \in Request \ {r} : HasAccount(s)' => HasAccount(s)
           /\ HasAccount(r)' => HasAccount(r) \/ pc'[r] \in {"tokens", "done"}
  <1>1. CASE db' = db
    BY <1>1 DEF HasAccount
  <1>2. CASE db' = db \cup AllRows(r) /\ Transaction(r) /\ pc'[r] \in {"tokens", "done"}
    <2>1. \A u \in Users(AllRows(r)) : u.id = r
      BY <1>2, CommittedRows
    <2>2. QED
      BY <1>2, <2>1 DEF HasAccount, Users
  <1>3. QED
    BY <1>1, <1>2, StepEffect

\* What the other requests know stays true.
LEMMA OtherRequests ==
    ASSUME TypeInv, NEW r \in Request, RequestInv(r), Step(r) \/ Fail(r),
           NEW s \in Request \ {r}, RequestInv(s)
    PROVE  RequestInv(s)'
  <1>1. /\ call' = call /\ db \subseteq db'
        /\ pc'[s] = pc[s] /\ account'[s] = account[s]
        /\ work'[s] = work[s] /\ answer'[s] = answer[s]
        /\ HasAccount(s)' => HasAccount(s)
    BY StepEffect, NewAccounts
  <1>2. Transaction(s) => Transaction(s)'
    <2>1. HasAccount(account[s]) => HasAccount(account[s])'
      BY <1>1, Growth
    <2>2. Durable(s) => Durable(s)'
      BY <1>1, Growth
    <2>3. /\ registerRows(s)' = registerRows(s) /\ yandexRows(s)' = yandexRows(s)
          /\ \A login : vkRows(s, login)' = vkRows(s, login)
          /\ fallbackLogin(call[s])' = fallbackLogin(call[s]) /\ baseLogin(call[s])' = baseLogin(call[s])
          /\ linkRows(s, account[s])' = linkRows(s, account[s])
      BY <1>1 DEF registerRows, yandexRows, vkRows, linkRows, buildExternalLogin, emailOrPlaceholder,
         fallbackLogin, baseLogin, vkIdentityRow
    <2>4. QED
      BY <1>1, <2>1, <2>2, <2>3 DEF Transaction
  <1>3. QED
    BY <1>1, <1>2, Growth DEF RequestInv

\* The tables stay in order.
LEMMA TableInvStep ==
    ASSUME TypeInv, TableInv, NEW r \in Request, RequestInv(r), Step(r) \/ Fail(r)
    PROVE  TableInv'
  <1>0. replica' = replica /\ call' = call /\ db \subseteq db'
    BY StepEffect, NewAccounts
  <1>1. CASE db' = db
    BY <1>0, <1>1 DEF TableInv, HasAccount, vkIdentityRow
  <1>2. CASE db' = db \cup AllRows(r) /\ Transaction(r)
    <2>1. /\ \A u \in Users(db') : u \in Users(db) \/ u \in Users(AllRows(r))
          /\ \A i \in Identities(db') : i \in Identities(db) \/ i \in Identities(AllRows(r))
      BY <1>2 DEF Users, Identities
    <2>2. \A u \in Users(db') : norm[u.login] = u.login /\ norm[u.email] = u.email
      <3>1. \A u \in Users(db) : norm[u.login] = u.login /\ norm[u.email] = u.email
        BY DEF TableInv
      <3>2. \A u \in Users(AllRows(r)) : norm[u.login] = u.login /\ norm[u.email] = u.email
        BY <1>2, CommittedRows
      <3>3. QED
        BY <2>1, <3>1, <3>2
    <2>3. ASSUME NEW i \in Identities(db')
          PROVE  trim[i.subject] = i.subject /\ HasAccount(i.user)'
      <3>1. CASE i \in Identities(db)
        <4>1. trim[i.subject] = i.subject /\ HasAccount(i.user)
          BY <3>1 DEF TableInv
        <4>2. QED
          BY <1>0, <4>1 DEF HasAccount, Users
      <3>2. CASE i \in Identities(AllRows(r))
        <4>1. trim[i.subject] = i.subject /\ i.user = account[r]
          BY <1>2, <3>2, CommittedRows
        <4>2. \E u \in Users(db') : u.id = account[r]
          BY <1>2, CommittedRows
        <4>3. QED
          BY <4>1, <4>2 DEF HasAccount
      <3>3. QED
        BY <2>1, <2>3, <3>1, <3>2
    <2>4. ASSUME NEW s \in Request, HasAccount(s)', call[s].op = "vk"
          PROVE  vkIdentityRow(s, s) \in db'
      <3>1. CASE HasAccount(s)
        BY <1>0, <2>4, <3>1 DEF TableInv
      <3>2. CASE ~HasAccount(s)
        <4>1. PICK u \in Users(AllRows(r)) : u.id = s
          BY <2>1, <2>4, <3>2 DEF HasAccount
        <4>2. s = r /\ vkIdentityRow(r, r) \in AllRows(r)
          BY <1>2, <2>4, <4>1, CommittedRows
        <4>3. QED
          BY <1>2, <4>2
      <3>3. QED
        BY <3>1, <3>2
    <2>5. \A s \in Request : vkIdentityRow(s, s)' = vkIdentityRow(s, s)
      BY <1>0 DEF vkIdentityRow
    <2>6. replica' \subseteq db'
      BY <1>0 DEF TableInv
    <2>7. QED
      BY <1>0, <2>2, <2>3, <2>4, <2>5, <2>6 DEF TableInv
  <1>3. QED
    BY <1>1, <1>2, StepEffect

-----------------------------------------------------------------------------
(* What r knows after its own step.                                        *)

\* A request that returns the right answer keeps its invariant.
LEMMA AnswerKeeps ==
    ASSUME TypeInv, NEW r \in Request,
           NEW result \in {"ok", "exists", "invalid", "error"}, Answer(r, result),
           result = "ok" => Durable(r)', result = "exists" => TakenBySomebodyElse(r)'
    PROVE  RequestInv(r)'
  <1>1. pc'[r] = "done" /\ work'[r] = <<>> /\ answer'[r] = result
    BY DEF Answer, Goto, TypeInv, TypeOK
  <1>2. QED
    BY <1>1 DEF RequestInv

\* A request that goes on to a read keeps its invariant.
LEMMA GotoKeeps ==
    ASSUME TypeInv, NEW r \in Request, RequestInv(r),
           NEW label \in PC \ {"new", "writing", "done"}, Goto(r, label),
           pc[r] \notin {"writing", "tokens", "done"},
           UNCHANGED <<db, call, answer, txvars>>,
           label = "loginCredential" =>
              (\E u \in findUserByIdentifier(db, call[r].login) : u.id = account[r])',
           label = "yandexAccount" =>
              (IdentityRow("yandex", trim[call[r].subject], account[r]) \in db)',
           label = "tokens" => Durable(r)'
    PROVE  RequestInv(r)'
  <1>1. pc'[r] = label /\ work'[r] = <<>> /\ answer'[r] = "none"
    BY DEF Goto, TypeInv, TypeOK, RequestInv, txvars
  <1>2. ~HasAccount(r)'
    BY DEF HasAccount, RequestInv
  <1>3. QED
    BY <1>1, <1>2 DEF RequestInv

\* A request that begins a transaction of the right shape keeps its
\* invariant.
LEMMA PrepareKeeps ==
    ASSUME TypeInv, NEW r \in Request, RequestInv(r), NEW id \in Request, NEW rows \in Seq(Row),
           Prepare(r, id, rows), UNCHANGED <<db, call>>,
           pc[r] \notin {"writing", "tokens", "done"},
           account'[r] = id /\ work'[r] = rows => Transaction(r)'
    PROVE  RequestInv(r)'
  <1>1. pc'[r] = "writing" /\ answer'[r] = "none" /\ account'[r] = id /\ work'[r] = rows
    BY DEF Prepare, Goto, TypeInv, TypeOK, RequestInv
  <1>2. ~HasAccount(r)'
    BY DEF HasAccount, RequestInv
  <1>3. QED
    BY <1>1, <1>2 DEF RequestInv

\* The transactions that the use cases prepare.
LEMMA PreparedTransactions ==
    ASSUME TypeInv, NEW r \in Request, call' = call, db' = db
    PROVE  /\ call[r].op = "register" /\ account'[r] = r /\ work'[r] = registerRows(r) => Transaction(r)'
           /\ call[r].op = "yandex" /\ account'[r] = r /\ work'[r] = yandexRows(r) => Transaction(r)'
           /\ \A login \in {fallbackLogin(call[r]), baseLogin(call[r])} :
                call[r].op = "vk" /\ account'[r] = r /\ work'[r] = vkRows(r, login) => Transaction(r)'
           /\ \A id \in Request :
                /\ call[r].op \in {"yandex", "vk"} /\ HasAccount(id)
                /\ account'[r] = id /\ work'[r] = linkRows(r, id)
                => Transaction(r)'
  <1>1. /\ registerRows(r)' = registerRows(r) /\ yandexRows(r)' = yandexRows(r)
        /\ \A login : vkRows(r, login)' = vkRows(r, login)
        /\ fallbackLogin(call[r])' = fallbackLogin(call[r]) /\ baseLogin(call[r])' = baseLogin(call[r])
        /\ \A id : linkRows(r, id)' = linkRows(r, id)
        /\ \A id : HasAccount(id)' = HasAccount(id)
    BY DEF registerRows, yandexRows, vkRows, linkRows, buildExternalLogin, emailOrPlaceholder,
       fallbackLogin, baseLogin, vkIdentityRow, HasAccount
  <1>2. ASSUME NEW id \in Request,
               call[r].op \in {"yandex", "vk"} /\ HasAccount(id),
               account'[r] = id /\ work'[r] = linkRows(r, id)
        PROVE  Transaction(r)'
    <2>1. HasAccount(account[r])'
      BY <1>2 DEF HasAccount
    <2>2. linkRows(r, account[r])' = linkRows(r, id)
      BY <1>2 DEF linkRows
    <2>3. QED
      BY <1>2, <2>1, <2>2 DEF Transaction
  <1>3. QED
    BY <1>1, <1>2 DEF Transaction

\* What a read of the replica finds is in the primary.
LEMMA ReplicaReads ==
    ASSUME TableInv
    PROVE  /\ Users(replica) \subseteq Users(db)
           /\ \A t : GetByLogin(replica, t) \subseteq GetByLogin(db, t)
           /\ \A t : GetByEmail(replica, t) \subseteq GetByEmail(db, t)
           /\ \A t : findUserByIdentifier(replica, t) \subseteq findUserByIdentifier(db, t)
           /\ \A p, t : GetByProviderSubject(replica, p, t) \subseteq GetByProviderSubject(db, p, t)
           /\ \A id : GetByUserID(replica, id) \subseteq GetByUserID(db, id)
  BY DEF TableInv, Users, Identities, Credentials, GetByLogin, GetByEmail, findUserByIdentifier,
     GetByProviderSubject, GetByUserID

\* The start of a use case keeps the invariant of the request.
LEMMA StartKeeps ==
    ASSUME TypeInv, NEW r \in Request, RequestInv(r), NEW op, NEW valid,
           NEW first \in {"registerLogin", "loginFind", "yandexIdentity", "vkIdentity"},
           Start(r, op, valid, first)
    PROVE  RequestInv(r)'
  <1>1. CASE Answer(r, "invalid")
    BY <1>1, AnswerKeeps
  <1>2. CASE Goto(r, first) /\ UNCHANGED <<answer, txvars, db, call>>
    <2>1. first \in PC \ {"new", "writing", "done"} /\ pc[r] = "new"
      BY DEF PC, Start
    <2>2. QED
      BY <1>2, <2>1, GotoKeeps
  <1>3. QED
    BY <1>1, <1>2, Zenon DEF Start

\* Register's two checks.
LEMMA RegisterKeeps ==
    ASSUME TypeInv, NEW r \in Request, RequestInv(r), TableInv,
           ensureLoginIsUnique(r) \/ ensureEmailIsUnique(r)
    PROVE  RequestInv(r)'
  <1>0. /\ TypeOK /\ call[r].op = "register" /\ pc[r] \in {"registerLogin", "registerEmail"}
        /\ db' = db /\ call' = call
    BY DEF TypeInv, OpInv, Belongs, ensureLoginIsUnique, ensureEmailIsUnique
  <1>1. CASE /\ Answer(r, "exists")
             /\ \/ GetByLogin(replica, norm[call[r].login]) # {}
                \/ GetByEmail(replica, norm[call[r].email]) # {}
    <2>1. PICK u \in Users(db) : u.login = norm[call[r].login] \/ u.email = norm[call[r].email]
      BY <1>1, ReplicaReads DEF GetByLogin, GetByEmail
    <2>2. u.id # r
      BY <1>0, <2>1 DEF RequestInv, HasAccount
    <2>3. TakenBySomebodyElse(r)
      BY <1>0, <2>1, <2>2 DEF TakenBySomebodyElse
    <2>4. TakenBySomebodyElse(r)'
      BY <1>0, <2>3, Growth
    <2>5. QED
      BY <1>1, <2>4, AnswerKeeps
  <1>2. CASE Goto(r, "registerEmail") /\ UNCHANGED <<answer, txvars>>
    <2>1. "registerEmail" \in PC \ {"new", "writing", "done"}
      BY DEF PC
    <2>2. QED
      BY <1>0, <1>2, <2>1, GotoKeeps
  <1>3. CASE Prepare(r, r, registerRows(r))
    <2>1. registerRows(r) \in Seq(Row)
      BY <1>0, RowsTypes
    <2>2. account'[r] = r /\ work'[r] = registerRows(r) => Transaction(r)'
      BY <1>0, PreparedTransactions
    <2>3. QED
      BY <1>0, <1>3, <2>1, <2>2, PrepareKeeps
  <1>4. QED
    BY <1>1, <1>2, <1>3 DEF ensureLoginIsUnique, ensureEmailIsUnique

\* Login's two reads.
LEMMA LoginKeeps ==
    ASSUME TypeInv, NEW r \in Request, RequestInv(r), TableInv,
           FindUser(r) \/ ValidatePassword(r)
    PROVE  RequestInv(r)'
  <1>0. /\ TypeOK /\ call[r].op = "login" /\ pc[r] \in {"loginFind", "loginCredential"}
        /\ db' = db /\ call' = call
    BY DEF TypeInv, OpInv, Belongs, FindUser, ValidatePassword
  <1>1. CASE Answer(r, "invalid")
    BY <1>1, AnswerKeeps
  <1>2. ASSUME NEW u \in findUserByIdentifier(replica, call[r].login),
               account' = [account EXCEPT ![r] = u.id], Goto(r, "loginCredential"),
               UNCHANGED <<answer, txvars>>
        PROVE  RequestInv(r)'
    <2>1. "loginCredential" \in PC \ {"new", "writing", "done"}
      BY DEF PC
    <2>2. u \in findUserByIdentifier(db, call[r].login) /\ account'[r] = u.id
      BY <1>0, <1>2, ReplicaReads DEF TypeOK
    <2>3. (\E v \in findUserByIdentifier(db, call[r].login) : v.id = account[r])'
      BY <1>0, <2>2 DEF findUserByIdentifier
    <2>4. QED
      BY <1>0, <1>2, <2>1, <2>3, GotoKeeps
  <1>3. CASE /\ ValidatePassword(r)
             /\ \E c \in GetByUserID(replica, account[r]) : c.hash = call[r].password
             /\ Goto(r, "tokens") /\ UNCHANGED <<answer, txvars>>
    <2>1. PICK c \in GetByUserID(db, account[r]) : c.hash = call[r].password
      BY <1>3, ReplicaReads
    <2>2. c \in db /\ c = CredentialRow(account[r], call[r].password)
      BY <1>0, <2>1, RowFields DEF GetByUserID, Credentials, TypeOK
    <2>3. \E u \in findUserByIdentifier(db, call[r].login) : u.id = account[r]
      BY <1>3 DEF ValidatePassword, RequestInv
    <2>4. HasAccount(account[r])
      BY <2>3 DEF HasAccount, findUserByIdentifier, GetByEmail, GetByLogin
    <2>5. Durable(r)
      BY <1>0, <2>2, <2>3, <2>4 DEF Durable
    <2>6. account' = account
      BY <1>3 DEF ValidatePassword
    <2>7. Durable(r)'
      BY <1>0, <2>5, <2>6, Growth
    <2>8. "tokens" \in PC \ {"new", "writing", "done"}
      BY DEF PC
    <2>9. QED
      BY <1>0, <1>3, <2>7, <2>8, GotoKeeps
  <1>4. QED
    BY <1>1, <1>2, <1>3 DEF FindUser, ValidatePassword

\* CompleteYandexLogin: a stored subject is trimmed, so the subject that was
\* found as Yandex sent it is its own trimmed form.
LEMMA YandexKeeps ==
    ASSUME TypeInv, NEW r \in Request, RequestInv(r), TableInv,
           YandexIdentity(r) \/ YandexAccount(r) \/ registerYandexUser(r)
    PROVE  RequestInv(r)'
  <1>0. /\ TypeOK /\ call[r].op = "yandex"
        /\ pc[r] \in {"yandexIdentity", "yandexAccount", "yandexEmail"}
        /\ db' = db /\ call' = call
    BY DEF TypeInv, OpInv, Belongs, YandexIdentity, YandexAccount, registerYandexUser
  <1>1. CASE Goto(r, "yandexEmail") /\ UNCHANGED <<answer, txvars>>
    <2>1. "yandexEmail" \in PC \ {"new", "writing", "done"}
      BY DEF PC
    <2>2. QED
      BY <1>0, <1>1, <2>1, GotoKeeps
  <1>2. ASSUME NEW i \in GetByProviderSubject(replica, "yandex", call[r].subject),
               account' = [account EXCEPT ![r] = i.user], Goto(r, "yandexAccount"),
               UNCHANGED <<answer, txvars>>
        PROVE  RequestInv(r)'
    <2>1. /\ i \in Identities(db) /\ i \in db /\ i \in Row
          /\ i.provider = "yandex" /\ i.subject = call[r].subject
      BY <1>0, ReplicaReads DEF GetByProviderSubject, Identities, TypeOK, TableInv
    <2>2. i = IdentityRow("yandex", call[r].subject, i.user)
      BY <2>1, RowFields DEF Identities
    <2>3. trim[call[r].subject] = call[r].subject
      BY <2>1 DEF TableInv
    <2>4. account'[r] = i.user
      BY <1>0, <1>2 DEF TypeOK
    <2>5. (IdentityRow("yandex", trim[call[r].subject], account[r]) \in db)'
      BY <1>0, <2>1, <2>2, <2>3, <2>4
    <2>6. "yandexAccount" \in PC \ {"new", "writing", "done"}
      BY DEF PC
    <2>7. QED
      BY <1>0, <1>2, <2>5, <2>6, GotoKeeps
  <1>3. CASE Answer(r, "error")
    BY <1>3, AnswerKeeps
  <1>4. CASE /\ YandexAccount(r)
             /\ \E u \in Users(replica) : u.id = account[r]
             /\ Goto(r, "tokens") /\ UNCHANGED <<answer, txvars>>
    <2>1. HasAccount(account[r])
      BY <1>4, ReplicaReads DEF HasAccount
    <2>2. IdentityRow("yandex", trim[call[r].subject], account[r]) \in db
      BY <1>4 DEF YandexAccount, RequestInv
    <2>3. Durable(r) /\ account' = account
      BY <1>0, <1>4, <2>1, <2>2 DEF Durable, YandexAccount
    <2>4. Durable(r)'
      BY <1>0, <2>3, Growth
    <2>5. "tokens" \in PC \ {"new", "writing", "done"}
      BY DEF PC
    <2>6. QED
      BY <1>0, <1>4, <2>4, <2>5, GotoKeeps
  <1>5. CASE registerYandexUser(r)
    <2>1. CASE Prepare(r, r, yandexRows(r))
      <3>1. yandexRows(r) \in Seq(Row)
        BY <1>0, RowsTypes
      <3>2. account'[r] = r /\ work'[r] = yandexRows(r) => Transaction(r)'
        BY <1>0, PreparedTransactions
      <3>3. QED
        BY <1>0, <2>1, <3>1, <3>2, PrepareKeeps
    <2>2. ASSUME NEW u \in Users(replica), u.id \in Request, Prepare(r, u.id, linkRows(r, u.id))
          PROVE  RequestInv(r)'
      <3>1. linkRows(r, u.id) \in Seq(Row)
        BY <1>0, <2>2, RowsTypes
      <3>2. HasAccount(u.id)
        BY <2>2, ReplicaReads DEF HasAccount
      <3>3. account'[r] = u.id /\ work'[r] = linkRows(r, u.id) => Transaction(r)'
        BY <1>0, <2>2, <3>2, PreparedTransactions
      <3>4. QED
        BY <1>0, <2>2, <3>1, <3>3, PrepareKeeps
    <2>3. QED
      BY <1>0, <1>5, <2>1, <2>2, registerYandexUserEffect
  <1>6. QED
    BY <1>1, <1>2, <1>3, <1>4, <1>5 DEF YandexIdentity, YandexAccount

\* Accept's reads of the primary.
LEMMA AcceptKeeps ==
    ASSUME TypeInv, NEW r \in Request, RequestInv(r), TableInv,
           VKIdentity(r) \/ resolveAccount(r) \/ resolveLogin(r) \/ resolveFallback(r)
    PROVE  RequestInv(r)'
  <1>0. /\ TypeOK /\ call[r].op = "vk"
        /\ pc[r] \in {"vkIdentity", "vkEmail", "vkLogin", "vkFallback"}
        /\ db' = db /\ call' = call
    BY DEF TypeInv, OpInv, Belongs, VKIdentity, resolveAccount, resolveLogin, resolveFallback
  <1>1. ASSUME NEW label \in {"vkEmail", "vkLogin", "vkFallback"}, Goto(r, label),
               UNCHANGED <<answer, txvars>>
        PROVE  RequestInv(r)'
    <2>1. label \in PC \ {"new", "writing", "done"}
      BY DEF PC
    <2>2. QED
      BY <1>0, <1>1, <2>1, GotoKeeps
  <1>2. ASSUME NEW i \in Identities(db), i.user \in Request, i = vkIdentityRow(r, i.user),
               Prepare(r, i.user, <<>>)
        PROVE  RequestInv(r)'
    <2>1. <<>> \in Seq(Row)
      OBVIOUS
    <2>2. HasAccount(i.user) /\ IdentityRow("vk", trim[call[r].subject], i.user) \in db
      BY <1>2 DEF TableInv, vkIdentityRow, Identities
    <2>3. ASSUME account'[r] = i.user, work'[r] = <<>>
          PROVE  Transaction(r)'
      <3>1. HasAccount(account[r])'
        BY <1>0, <2>2, <2>3 DEF HasAccount
      <3>2. Durable(r)'
        BY <1>0, <2>2, <2>3, <3>1 DEF Durable
      <3>3. QED
        BY <1>0, <2>3, <3>2 DEF Transaction
    <2>4. QED
      BY <1>0, <1>2, <2>1, <2>3, PrepareKeeps
  <1>3. ASSUME NEW u \in Users(db), u.id \in Request, Prepare(r, u.id, linkRows(r, u.id))
        PROVE  RequestInv(r)'
    <2>1. linkRows(r, u.id) \in Seq(Row)
      BY <1>0, <1>3, RowsTypes
    <2>2. HasAccount(u.id)
      BY DEF HasAccount
    <2>3. account'[r] = u.id /\ work'[r] = linkRows(r, u.id) => Transaction(r)'
      BY <1>0, <1>3, <2>2, PreparedTransactions
    <2>4. QED
      BY <1>0, <1>3, <2>1, <2>3, PrepareKeeps
  <1>4. ASSUME NEW login \in {fallbackLogin(call[r]), baseLogin(call[r])},
               Prepare(r, r, vkRows(r, login))
        PROVE  RequestInv(r)'
    <2>1. vkRows(r, login) \in Seq(Row)
      BY <1>0, RowsTypes
    <2>2. account'[r] = r /\ work'[r] = vkRows(r, login) => Transaction(r)'
      BY <1>0, PreparedTransactions
    <2>3. QED
      BY <1>0, <1>4, <2>1, <2>2, PrepareKeeps
  <1>5. CASE Answer(r, "error")
    BY <1>5, AnswerKeeps
  <1>6. QED
    BY <1>0, <1>1, <1>2, <1>3, <1>4, <1>5, VKIdentityEffect, resolveAccountEffect, resolveLoginEffect

\* A unique violation that is reported as ErrUserAlreadyExists was caused by
\* an account of somebody else.
LEMMA ViolationKeeps ==
    ASSUME TypeInv, NEW r \in Request, RequestInv(r), UniqueViolation(r)
    PROVE  RequestInv(r)'
  <1>0. /\ TypeOK /\ pc[r] = "writing" /\ Transaction(r) /\ inserted[r] < Len(work[r])
        /\ call' = call /\ db' = db
        /\ Answer(r, mapCreateError(r))
    BY DEF TypeInv, UniqueViolation, HasNextRow, RequestInv
  <1>1. ASSUME mapCreateError(r) = "exists"
        PROVE  TakenBySomebodyElse(r)
    <2>1. NextRow(r).table = "auth_users" /\ call[r].op # "vk"
      BY <1>1 DEF mapCreateError
    <2>2. NextRow(r) \in AllRows(r) /\ NextRow(r) \in Row
      <3>1. work[r] \in Seq(Row) /\ inserted[r] \in Nat
        BY <1>0 DEF TypeOK
      <3>2. inserted[r] + 1 \in 1..Len(work[r])
        BY <1>0, <3>1
      <3>3. work[r][inserted[r] + 1] \in Row
        BY <3>1, <3>2
      <3>4. QED
        BY <3>2, <3>3 DEF NextRow, AllRows
    <2>3. /\ NextRow(r).id = r /\ NextRow(r).email = norm[call[r].email]
          /\ NextRow(r).login = IF call[r].op = "yandex"
                                THEN buildExternalLogin(call[r]) ELSE norm[call[r].login]
      <3>1. CASE call[r].op = "register" /\ work[r] = registerRows(r)
        <4>1. /\ Len(work[r]) = 3
              /\ work[r][1] = UserRow(r, norm[call[r].login], norm[call[r].email])
              /\ work[r][2] = CredentialRow(r, call[r].password)
              /\ work[r][3] = EventRow(r, r)
          BY <3>1 DEF registerRows
        <4>2. work[r][2].table # "auth_users" /\ work[r][3].table # "auth_users"
          BY <4>1 DEF CredentialRow, EventRow
        <4>3. inserted[r] + 1 \in {1, 2, 3}
          <5>1. inserted[r] \in Nat
            BY <1>0 DEF TypeOK
          <5>2. inserted[r] < 3
            BY <1>0, <4>1
          <5>3. \A n \in Nat : n < 3 => n + 1 = 1 \/ n + 1 = 2 \/ n + 1 = 3
            OBVIOUS
          <5>4. QED
            BY <5>1, <5>2, <5>3
        <4>4. inserted[r] + 1 = 1
          BY <2>1, <4>2, <4>3 DEF NextRow
        <4>5. NextRow(r) = UserRow(r, norm[call[r].login], norm[call[r].email])
          BY <4>1, <4>4 DEF NextRow
        <4>6. QED
          BY <3>1, <4>5 DEF UserRow
      <3>2. CASE call[r].op = "yandex" /\ work[r] = yandexRows(r)
        <4>1. /\ Len(work[r]) = 3
              /\ work[r][1] = UserRow(r, buildExternalLogin(call[r]), norm[call[r].email])
              /\ work[r][2] = EventRow(r, r)
              /\ work[r][3] = IdentityRow("yandex", trim[call[r].subject], r)
          BY <3>2 DEF yandexRows
        <4>2. work[r][2].table # "auth_users" /\ work[r][3].table # "auth_users"
          BY <4>1 DEF IdentityRow, EventRow
        <4>3. inserted[r] + 1 \in {1, 2, 3}
          <5>1. inserted[r] \in Nat
            BY <1>0 DEF TypeOK
          <5>2. inserted[r] < 3
            BY <1>0, <4>1
          <5>3. \A n \in Nat : n < 3 => n + 1 = 1 \/ n + 1 = 2 \/ n + 1 = 3
            OBVIOUS
          <5>4. QED
            BY <5>1, <5>2, <5>3
        <4>4. inserted[r] + 1 = 1
          BY <2>1, <4>2, <4>3 DEF NextRow
        <4>5. NextRow(r) = UserRow(r, buildExternalLogin(call[r]), norm[call[r].email])
          BY <4>1, <4>4 DEF NextRow
        <4>6. QED
          BY <3>2, <4>5 DEF UserRow
      <3>3. CASE work[r] = linkRows(r, account[r])
        <4>1. Len(work[r]) = 1 /\ work[r][1].table = "auth_external_identities"
          BY <3>3 DEF linkRows, IdentityRow
        <4>2. QED
          BY <1>0, <2>1, <4>1 DEF NextRow, TypeOK
      <3>4. QED
        BY <1>0, <2>1, <3>1, <3>2, <3>3 DEF Transaction
    <2>4. PICK row \in db : Collide(row, NextRow(r))
      BY DEF UniqueViolation
    <2>5. /\ row \in Users(db)
          /\ row.id = r \/ row.login = NextRow(r).login \/ row.email = NextRow(r).email
      <3>1. row \in Row
        BY <1>0 DEF TypeOK
      <3>2. /\ row.table = "auth_users"
            /\ row.id = NextRow(r).id \/ row.login = NextRow(r).login \/ row.email = NextRow(r).email
        BY <2>1, <2>2, <2>4, <3>1, UserCollidesWithUser
      <3>3. QED
        BY <2>3, <3>2 DEF Users
    <2>6. row.id # r
      BY <1>0, <2>5 DEF RequestInv, HasAccount
    <2>7. QED
      BY <2>3, <2>5, <2>6 DEF TakenBySomebodyElse
  <1>2. mapCreateError(r) \in {"exists", "error"}
    BY DEF mapCreateError
  <1>3. mapCreateError(r) = "exists" => TakenBySomebodyElse(r)'
    BY <1>0, <1>1, Growth
  <1>4. CASE mapCreateError(r) = "exists"
    BY <1>0, <1>3, <1>4, AnswerKeeps
  <1>5. CASE mapCreateError(r) = "error"
    BY <1>0, <1>5, AnswerKeeps
  <1>6. QED
    BY <1>2, <1>4, <1>5

\* Nothing that RequestInv speaks of has changed.
LEMMA UnchangedKeeps ==
    ASSUME NEW r \in Request, RequestInv(r), UNCHANGED <<db, pc, call, account, work, answer>>
    PROVE  RequestInv(r)'
  <1>1. Durable(r)' = Durable(r) /\ TakenBySomebodyElse(r)' = TakenBySomebodyElse(r)
    BY DEF Durable, TakenBySomebodyElse, HasAccount, findUserByIdentifier, buildExternalLogin
  <1>2. Transaction(r) => Transaction(r)'
    <2>1. /\ registerRows(r)' = registerRows(r) /\ yandexRows(r)' = yandexRows(r)
          /\ \A login : vkRows(r, login)' = vkRows(r, login)
          /\ fallbackLogin(call[r])' = fallbackLogin(call[r]) /\ baseLogin(call[r])' = baseLogin(call[r])
          /\ linkRows(r, account[r])' = linkRows(r, account[r])
          /\ HasAccount(account[r])' = HasAccount(account[r])
      BY DEF registerRows, yandexRows, vkRows, linkRows, buildExternalLogin, emailOrPlaceholder,
         fallbackLogin, baseLogin, vkIdentityRow, HasAccount
    <2>2. QED
      BY <1>1, <2>1 DEF Transaction
  <1>3. (HasAccount(r)' = HasAccount(r))
    BY DEF HasAccount
  <1>4. QED
    BY <1>1, <1>2, <1>3 DEF RequestInv, findUserByIdentifier

\* INSERT, COMMIT, the tokens and every failure.
LEMMA TransactionKeeps ==
    ASSUME TypeInv, NEW r \in Request, RequestInv(r),
           Insert(r) \/ Commit(r) \/ CommitLost(r) \/ IssueTokens(r) \/ Fail(r)
    PROVE  RequestInv(r)'
  <1>0. TypeOK
    BY DEF TypeInv
  <1>1. CASE Insert(r)
    <2>1. UNCHANGED <<db, pc, call, account, work, answer>>
      BY <1>1 DEF Insert
    <2>2. QED
      BY <2>1, UnchangedKeeps
  <1>2. CASE Commit(r)
    <2>1. /\ Transaction(r) /\ db' = db \cup AllRows(r) /\ call' = call /\ account' = account
          /\ work' = [work EXCEPT ![r] = <<>>]
          /\ answer[r] # "exists" /\ answer[r] # "ok"
      BY <1>2 DEF Commit, RequestInv
    <2>2. /\ \E u \in Users(db') : u.id = account[r]
          /\ call[r].op = "register" => CredentialRow(account[r], call[r].password) \in db'
          /\ call[r].op \in {"yandex", "vk"} =>
                IdentityRow(call[r].op, trim[call[r].subject], account[r]) \in db'
          /\ call[r].op # "login"
      BY <2>1, CommittedRows
    <2>3. Durable(r)'
      BY <2>1, <2>2 DEF Durable, HasAccount
    <2>4. \/ pc' = [pc EXCEPT ![r] = "done"] /\ answer' = [answer EXCEPT ![r] = "ok"]
          \/ pc' = [pc EXCEPT ![r] = "tokens"] /\ answer' = answer
      BY <1>2 DEF Commit, Goto
    <2>5. \/ pc'[r] = "done" /\ answer'[r] = "ok"
          \/ pc'[r] = "tokens" /\ answer'[r] = answer[r]
      BY <1>0, <2>4 DEF TypeOK
    <2>6. work'[r] = <<>>
      BY <1>0, <2>1 DEF TypeOK
    <2>7. answer[r] = "none"
      BY <1>2 DEF Commit, RequestInv
    <2>8. QED
      BY <2>3, <2>5, <2>6, <2>7 DEF RequestInv
  <1>3. CASE CommitLost(r) \/ Fail(r)
    BY <1>3, AnswerKeeps DEF CommitLost, Fail
  <1>4. CASE IssueTokens(r)
    <2>1. Durable(r) /\ account' = account /\ call' = call /\ db' = db /\ Answer(r, "ok")
      BY <1>4 DEF IssueTokens, RequestInv
    <2>2. Durable(r)'
      BY <2>1, Growth
    <2>3. QED
      BY <2>1, <2>2, AnswerKeeps
  <1>5. QED
    BY <1>1, <1>2, <1>3, <1>4

\* The invariant holds at the start.
LEMMA AccountInvInit ==
    Init => AccountInv
  <1> SUFFICES ASSUME Init PROVE AccountInv
    OBVIOUS
  <1>1. TableInv
    BY DEF Init, TableInv, Users, Identities, HasAccount
  <1>2. \A r \in Request : RequestInv(r)
    BY DEF Init, RequestInv, HasAccount, Users
  <1>3. QED
    BY <1>1, <1>2, KeyInvInit DEF AccountInv

\* Every step keeps the invariant: by the use cases for the request that
\* moves, and for all others.
LEMMA AccountInvStep ==
    TypeInv /\ AccountInv /\ [Next]_vars => AccountInv'
  <1> SUFFICES ASSUME TypeInv, AccountInv, [Next]_vars
               PROVE  AccountInv'
    OBVIOUS
  <1>0. /\ \A r \in Request : RequestInv(r)
        /\ TableInv /\ KeyInv
        /\ KeyInv'
    BY KeyInvStep DEF AccountInv
  <1>1. ASSUME NEW r \in Request, Step(r) \/ Fail(r)
        PROVE  AccountInv'
    <2>1. RequestInv(r)'
      <3>1. CASE Register(r) \/ Login(r) \/ CompleteYandexLogin(r) \/ Accept(r)
        BY <1>0, <3>1, StartKeeps DEF Register, Login, CompleteYandexLogin, Accept
      <3>2. QED
        BY <1>0, <1>1, <3>1, RegisterKeeps, LoginKeeps, YandexKeeps, AcceptKeeps, ViolationKeeps,
           TransactionKeeps DEF Step
    <2>2. \A s \in Request \ {r} : RequestInv(s)'
      BY <1>0, <1>1, OtherRequests
    <2>3. TableInv'
      BY <1>0, <1>1, TableInvStep
    <2>4. QED
      BY <1>0, <2>1, <2>2, <2>3 DEF AccountInv
  <1>2. CASE UNCHANGED <<db, pc, call, account, work, answer>> /\ replica' \in {replica, db}
    <2>1. \A r \in Request : RequestInv(r)'
      BY <1>0, <1>2, UnchangedKeeps
    <2>2. TableInv'
      BY <1>0, <1>2 DEF TableInv, HasAccount, vkIdentityRow
    <2>3. QED
      BY <1>0, <2>1, <2>2 DEF AccountInv
  <1>3. QED
    BY <1>1, <1>2 DEF Next, Replicate, vars, txvars

\* The invariant holds in every reachable state.
LEMMA AccountInvHolds ==
    Spec => [](TypeInv /\ AccountInv)
  BY TypeInvInit, TypeInvStep, AccountInvInit, AccountInvStep, PTL DEF Spec

-----------------------------------------------------------------------------
(* The theorems.                                                           *)

\* Register, CompleteYandexLogin and Accept never store two accounts whose
\* logins or emails differ only in case or in the blanks around them, although
\* their own checks read a replica that may lag: the unique keys decide, and
\* every name is stored in normal form.
THEOREM NamesAreUnique ==
    Spec => []UniqueUpToCase
  <1>1. ASSUME TypeInv, AccountInv
        PROVE  UniqueUpToCase
    <2>1. ASSUME NEW u \in Users(db), NEW v \in Users(db),
                 norm[u.login] = norm[v.login] \/ norm[u.email] = norm[v.email]
          PROVE  u = v
      <3>1. u.login = v.login \/ u.email = v.email
        BY <1>1, <2>1 DEF AccountInv, TableInv
      <3>2. Collide(u, v)
        BY <3>1, UserCollision DEF Users
      <3>3. QED
        BY <1>1, <3>2 DEF AccountInv, KeyInv, Users
    <2>2. QED
      BY <2>1 DEF UniqueUpToCase
  <1>2. QED
    BY <1>1, AccountInvHolds, PTL

\* ErrUserAlreadyExists is never returned because of the caller's own row or
\* of a transaction that was rolled back: somebody else's account has the
\* login or the email.
THEOREM ExistsAnswersAreTrue ==
    Spec => []ExistsIsTrue
  <1>1. AccountInv => ExistsIsTrue
    BY DEF AccountInv, RequestInv, TakenBySomebodyElse, ExistsIsTrue
  <1>2. QED
    BY <1>1, AccountInvHolds, PTL

\* A call that returned success has its account and its credential or identity
\* in the primary, however stale the replica was that it read.
THEOREM SuccessIsDurable ==
    Spec => []OkIsDurable
  <1>1. AccountInv => OkIsDurable
    BY DEF AccountInv, RequestInv, Durable, HasAccount, OkIsDurable
  <1>2. QED
    BY <1>1, AccountInvHolds, PTL

\* Accept creates at most one account for a VK id, however often and however
\* concurrently its event is delivered.
THEOREM VKUsersAreUnique ==
    Spec => []OneAccountPerVKUser
  <1>1. ASSUME TypeInv, AccountInv
        PROVE  OneAccountPerVKUser
    <2>1. ASSUME NEW r \in Request, NEW s \in Request,
                 call[r].op = "vk", call[s].op = "vk",
                 trim[call[r].subject] = trim[call[s].subject],
                 HasAccount(r), HasAccount(s)
          PROVE  r = s
      <3>1. vkIdentityRow(r, r) \in db /\ vkIdentityRow(s, s) \in db
        BY <1>1, <2>1 DEF AccountInv, TableInv
      <3>2. Collide(vkIdentityRow(r, r), vkIdentityRow(s, s))
        <4> DEFINE i == vkIdentityRow(r, r)
                   j == vkIdentityRow(s, s)
        <4>1. /\ i.table = "auth_external_identities" /\ j.table = "auth_external_identities"
              /\ i.provider = j.provider /\ i.subject = j.subject
          BY <2>1 DEF vkIdentityRow, IdentityRow
        <4> HIDE DEF i, j
        <4>2. Collide(i, j)
          BY <4>1, IdentityCollision
        <4>3. QED
          BY <4>2 DEF i, j
      <3>3. vkIdentityRow(r, r) = vkIdentityRow(s, s)
        BY <1>1, <3>1, <3>2 DEF AccountInv, KeyInv
      <3>4. QED
        BY <3>3 DEF vkIdentityRow, IdentityRow
    <2>2. QED
      BY <2>1 DEF OneAccountPerVKUser, HasAccount
  <1>2. QED
    BY <1>1, AccountInvHolds, PTL

-----------------------------------------------------------------------------
(* The refinement of AccountDirectory.                                     *)

\* What a reader makes of the other three tables.
Passwords(rows) == {c.user : c \in Credentials(rows)}
Links(rows) ==
    {[provider |-> i.provider, subject |-> i.subject, user |-> i.user] : i \in Identities(rows)}
Announced(rows) == {[user |-> e.user, by |-> e.by] : e \in Events(rows)}

\* More rows, more to read.
LEMMA Readers ==
    ASSUME NEW D, NEW N
    PROVE  /\ People(D \cup N) = People(D) \cup People(N)
           /\ Passwords(D \cup N) = Passwords(D) \cup Passwords(N)
           /\ Links(D \cup N) = Links(D) \cup Links(N)
           /\ Announced(D \cup N) = Announced(D) \cup Announced(N)
  BY DEF People, Passwords, Links, Announced, Users, Credentials, Identities, Events

\* A row of an open transaction is new to the readers.
LEMMA NewIsFresh ==
    ASSUME TypeInv, KeyInv, NEW r \in Request, NEW row \in Uncommitted(r)
    PROVE  /\ row.table = "auth_users" =>
                \A u \in Users(db) : row.id # u.id /\ row.login # u.login /\ row.email # u.email
           /\ row.table = "auth_external_identities" =>
                \A j \in Identities(db) : row.provider # j.provider \/ row.subject # j.subject
  <1>1. \A a \in db : ~Collide(a, row)
    BY DEF KeyInv
  <1>2. QED
    BY <1>1, UserCollision, IdentityCollision DEF Users, Identities

\* Register's transaction is one new account with a password.
LEMMA RegisterCommit ==
    ASSUME TypeInv, KeyInv, NEW r \in Request, NEW x, NEW y, NEW h,
           AllRows(r) = Uncommitted(r), db' = db \cup AllRows(r),
           AllRows(r) = {UserRow(r, x, y), CredentialRow(r, h), EventRow(r, r)}
    PROVE  Directory!DNext
  <1> DEFINE user == UserRow(r, x, y)
             cred == CredentialRow(r, h)
             event == EventRow(r, r)
             p == [id |-> r, login |-> x, email |-> y]
  <1>1. /\ user.table = "auth_users" /\ user.id = r /\ user.login = x /\ user.email = y
        /\ cred.table = "auth_password_credentials" /\ cred.user = r
        /\ event.table = "auth_outbox_messages" /\ event.user = r /\ event.by = r
    BY DEF UserRow, CredentialRow, EventRow
  <1>2. AllRows(r) = {user, cred, event}
    OBVIOUS
  <1> HIDE DEF user, cred, event
  <1>3. /\ Users(AllRows(r)) = {user} /\ Credentials(AllRows(r)) = {cred}
        /\ Identities(AllRows(r)) = {} /\ Events(AllRows(r)) = {event}
    BY <1>1, <1>2 DEF Users, Credentials, Identities, Events
  <1>4. People(AllRows(r)) = {p}
    <2>1. People(AllRows(r)) = {[id |-> u.id, login |-> u.login, email |-> u.email] : u \in {user}}
      BY <1>3 DEF People
    <2>2. QED
      BY <1>1, <2>1
  <1>5. Passwords(AllRows(r)) = {r} /\ Links(AllRows(r)) = {}
    <2>1. Passwords(AllRows(r)) = {c.user : c \in {cred}}
      BY <1>3 DEF Passwords
    <2>2. Passwords(AllRows(r)) = {r}
      BY <1>1, <2>1
    <2>3. \A i : i \notin Links(AllRows(r))
      BY <1>3 DEF Links
    <2>4. QED
      BY <2>2, <2>3
  <1>6. Announced(AllRows(r)) = {[user |-> p.id, by |-> p.id]}
    <2>1. Announced(AllRows(r)) = {[user |-> e.user, by |-> e.by] : e \in {event}}
      BY <1>3 DEF Announced
    <2>2. QED
      BY <1>1, <2>1
  <1>7. \A u \in Users(db) : r # u.id /\ x # u.login /\ y # u.email
    <2>1. user \in Uncommitted(r)
      BY <1>2
    <2>2. \A u \in Users(db) : user.id # u.id /\ user.login # u.login /\ user.email # u.email
      BY <1>1, <2>1, NewIsFresh
    <2>3. QED
      BY <1>1, <2>2
  <1>8. Directory!FreshPerson(p)
    BY <1>7 DEF Directory!FreshPerson, People
  <1>9. /\ People(db') = People(db) \cup {p}
        /\ Passwords(db') = Passwords(db) \cup {p.id}
        /\ Links(db') = Links(db)
        /\ Announced(db') = Announced(db) \cup {[user |-> p.id, by |-> p.id]}
    <2>1. /\ People(db') = People(db) \cup People(AllRows(r))
          /\ Passwords(db') = Passwords(db) \cup Passwords(AllRows(r))
          /\ Links(db') = Links(db) \cup Links(AllRows(r))
          /\ Announced(db') = Announced(db) \cup Announced(AllRows(r))
      BY Readers
    <2>2. QED
      BY <1>4, <1>5, <1>6, <2>1
  <1>10. Directory!CreateWithPassword(p)
    BY <1>8, <1>9 DEF Directory!CreateWithPassword, Directory!Announce, People, Passwords, Links, Announced
  <1>11. p \in People(db)'
    BY <1>9 DEF People
  <1>12. QED
    BY <1>10, <1>11 DEF Directory!DNext

\* The transactions of CompleteYandexLogin and Accept for somebody new are one
\* new account with an identity.
LEMMA ExternalCommit ==
    ASSUME TypeInv, KeyInv, NEW r \in Request, NEW x, NEW y, NEW provider, NEW subject,
           AllRows(r) = Uncommitted(r), db' = db \cup AllRows(r),
           AllRows(r) = {UserRow(r, x, y), IdentityRow(provider, subject, r), EventRow(r, r)}
    PROVE  Directory!DNext
  <1> DEFINE user == UserRow(r, x, y)
             identity == IdentityRow(provider, subject, r)
             event == EventRow(r, r)
             p == [id |-> r, login |-> x, email |-> y]
             i == [provider |-> provider, subject |-> subject, user |-> r]
  <1>1. /\ user.table = "auth_users" /\ user.id = r /\ user.login = x /\ user.email = y
        /\ event.table = "auth_outbox_messages" /\ event.user = r /\ event.by = r
    BY DEF UserRow, EventRow
  <1>2. /\ identity.table = "auth_external_identities"
        /\ identity.provider = provider /\ identity.subject = subject /\ identity.user = r
    BY DEF IdentityRow
  <1>3. AllRows(r) = {user, identity, event}
    OBVIOUS
  <1> HIDE DEF user, identity, event
  <1>4. /\ Users(AllRows(r)) = {user} /\ Credentials(AllRows(r)) = {}
        /\ Identities(AllRows(r)) = {identity} /\ Events(AllRows(r)) = {event}
    BY <1>1, <1>2, <1>3 DEF Users, Credentials, Identities, Events
  <1>5. People(AllRows(r)) = {p}
    <2>1. People(AllRows(r)) = {[id |-> u.id, login |-> u.login, email |-> u.email] : u \in {user}}
      BY <1>4 DEF People
    <2>2. [id |-> user.id, login |-> user.login, email |-> user.email] = p
      BY <1>1
    <2> HIDE DEF p
    <2>3. QED
      BY <2>1, <2>2
  <1>6. Links(AllRows(r)) = {i}
    <2>1. Links(AllRows(r)) =
            {[provider |-> j.provider, subject |-> j.subject, user |-> j.user] : j \in {identity}}
      BY <1>4 DEF Links
    <2>2. QED
      BY <1>2, <2>1
  <1>7. Passwords(AllRows(r)) = {}
    <2>1. \A c : c \notin Passwords(AllRows(r))
      BY <1>4 DEF Passwords
    <2>2. QED
      BY <2>1
  <1>8. Announced(AllRows(r)) = {[user |-> p.id, by |-> p.id]}
    <2>1. Announced(AllRows(r)) = {[user |-> e.user, by |-> e.by] : e \in {event}}
      BY <1>4 DEF Announced
    <2>2. QED
      BY <1>1, <2>1
  <1>9. Directory!FreshPerson(p)
    <2>1. user \in Uncommitted(r)
      BY <1>3
    <2>2. \A u \in Users(db) : user.id # u.id /\ user.login # u.login /\ user.email # u.email
      BY <1>1, <2>1, NewIsFresh
    <2>3. \A u \in Users(db) : r # u.id /\ x # u.login /\ y # u.email
      BY <1>1, <2>2
    <2>4. QED
      BY <2>3 DEF Directory!FreshPerson, People
  <1>10. Directory!FreshIdentity(i)
    <2>1. identity \in Uncommitted(r)
      BY <1>3
    <2>2. \A j \in Identities(db) : identity.provider # j.provider \/ identity.subject # j.subject
      BY <1>2, <2>1, NewIsFresh
    <2>3. \A j \in Identities(db) : provider # j.provider \/ subject # j.subject
      BY <1>2, <2>2
    <2>4. QED
      BY <2>3 DEF Directory!FreshIdentity
  <1>11. /\ People(db') = People(db) \cup {p}
         /\ Passwords(db') = Passwords(db)
         /\ Links(db') = Links(db) \cup {i}
         /\ Announced(db') = Announced(db) \cup {[user |-> p.id, by |-> p.id]}
    <2>1. /\ People(db') = People(db) \cup People(AllRows(r))
          /\ Passwords(db') = Passwords(db) \cup Passwords(AllRows(r))
          /\ Links(db') = Links(db) \cup Links(AllRows(r))
          /\ Announced(db') = Announced(db) \cup Announced(AllRows(r))
      BY Readers
    <2>2. QED
      BY <1>5, <1>6, <1>7, <1>8, <2>1
  <1>12. Directory!CreateWithIdentity(p, i)
    BY <1>9, <1>10, <1>11 DEF Directory!CreateWithIdentity, Directory!Announce, People, Passwords,
       Links, Announced
  <1>13. p \in People(db)' /\ i \in Links(db)'
    BY <1>11 DEF People, Links
  <1>14. QED
    BY <1>12, <1>13 DEF Directory!DNext, Links

\* The transaction that links is one new identity of an account that is there.
LEMMA LinkCommit ==
    ASSUME TypeInv, KeyInv, NEW r \in Request, NEW provider, NEW subject, NEW id, HasAccount(id),
           AllRows(r) = Uncommitted(r), db' = db \cup AllRows(r),
           AllRows(r) = {IdentityRow(provider, subject, id)}
    PROVE  Directory!DNext
  <1> DEFINE identity == IdentityRow(provider, subject, id)
             i == [provider |-> provider, subject |-> subject, user |-> id]
  <1>1. /\ identity.table = "auth_external_identities"
        /\ identity.provider = provider /\ identity.subject = subject /\ identity.user = id
    BY DEF IdentityRow
  <1>2. AllRows(r) = {identity}
    OBVIOUS
  <1> HIDE DEF identity
  <1>3. /\ Users(AllRows(r)) = {} /\ Credentials(AllRows(r)) = {}
        /\ Identities(AllRows(r)) = {identity} /\ Events(AllRows(r)) = {}
    BY <1>1, <1>2 DEF Users, Credentials, Identities, Events
  <1>4. Links(AllRows(r)) = {i}
    <2>1. Links(AllRows(r)) =
            {[provider |-> j.provider, subject |-> j.subject, user |-> j.user] : j \in {identity}}
      BY <1>3 DEF Links
    <2>2. QED
      BY <1>1, <2>1
  <1>5. /\ \A x : x \notin People(AllRows(r))
        /\ \A x : x \notin Passwords(AllRows(r))
        /\ \A x : x \notin Announced(AllRows(r))
    BY <1>3 DEF People, Passwords, Announced
  <1>6. Directory!FreshIdentity(i)
    <2>1. identity \in Uncommitted(r)
      BY <1>2
    <2>2. \A j \in Identities(db) : identity.provider # j.provider \/ identity.subject # j.subject
      BY <1>1, <2>1, NewIsFresh
    <2>3. \A j \in Identities(db) : provider # j.provider \/ subject # j.subject
      BY <1>1, <2>2
    <2>4. QED
      BY <2>3 DEF Directory!FreshIdentity
  <1>7. /\ People(db') = People(db)
        /\ Passwords(db') = Passwords(db)
        /\ Links(db') = Links(db) \cup {i}
        /\ Announced(db') = Announced(db)
    <2>1. /\ People(db') = People(db) \cup People(AllRows(r))
          /\ Passwords(db') = Passwords(db) \cup Passwords(AllRows(r))
          /\ Links(db') = Links(db) \cup Links(AllRows(r))
          /\ Announced(db') = Announced(db) \cup Announced(AllRows(r))
      BY Readers
    <2>2. QED
      BY <1>4, <1>5, <2>1
  <1>8. \E p \in People(db) : p.id = i.user
    <2>1. PICK u \in Users(db) : u.id = id
      BY DEF HasAccount
    <2>2. [id |-> u.id, login |-> u.login, email |-> u.email] \in People(db)
      BY DEF People
    <2>3. QED
      BY <2>1, <2>2
  <1>9. Directory!Link(i)
    BY <1>6, <1>7, <1>8 DEF Directory!Link, People, Passwords, Links, Announced
  <1>10. i \in Links(db)'
    BY <1>7 DEF Links
  <1>11. QED
    BY <1>9, <1>10 DEF Directory!DNext, Links

\* Every commit of Register, CompleteYandexLogin and Accept is one step of the
\* directory and every other step of theirs is invisible in it: readers of the
\* tables never see an account without its event or without a way to log in,
\* an identity without its account, or a name that is used twice.
THEOREM DirectoryRefinement ==
    Spec => ImplementsDirectory
  <1>1. Init => Directory!DInit
    BY DEF Init, Directory!DInit, People, Users, Credentials, Identities, Events
  <1>2. ASSUME TypeInv, AccountInv, [Next]_vars
        PROVE  [Directory!DNext]_(Directory!dvars)
    <2>1. ASSUME db' = db
          PROVE  UNCHANGED Directory!dvars
      BY <2>1 DEF Directory!dvars, People
    <2>2. ASSUME NEW r \in Request, Transaction(r), AllRows(r) = Uncommitted(r),
                 db' = db \cup AllRows(r)
          PROVE  Directory!DNext \/ db' = db
      <3>1. KeyInv
        BY <1>2 DEF AccountInv
      <3>2. CASE AllRows(r) = {UserRow(r, norm[call[r].login], norm[call[r].email]),
                               CredentialRow(r, call[r].password),
                               EventRow(r, r)}
        <4> DEFINE x == norm[call[r].login]
                   y == norm[call[r].email]
                   h == call[r].password
        <4>1. AllRows(r) = {UserRow(r, x, y), CredentialRow(r, h), EventRow(r, r)}
          BY <3>2
        <4> HIDE DEF x, y, h
        <4>2. QED
          BY <1>2, <2>2, <3>1, <4>1, RegisterCommit
      <3>3. ASSUME NEW login, NEW email,
                   AllRows(r) = {UserRow(r, login, email),
                                 IdentityRow(call[r].op, trim[call[r].subject], r),
                                 EventRow(r, r)}
            PROVE  Directory!DNext
        BY <1>2, <2>2, <3>1, <3>3, ExternalCommit
      <3>4. CASE /\ HasAccount(account[r])
                 /\ AllRows(r) = {IdentityRow(call[r].op, trim[call[r].subject], account[r])}
        BY <1>2, <2>2, <3>1, <3>4, LinkCommit
      <3>5. CASE AllRows(r) = {}
        BY <2>2, <3>5
      <3>6. CASE \E login \in {buildExternalLogin(call[r]), fallbackLogin(call[r]), baseLogin(call[r])},
                    email \in {norm[call[r].email], emailOrPlaceholder(call[r])} :
                   AllRows(r) = {UserRow(r, login, email),
                                 IdentityRow(call[r].op, trim[call[r].subject], r),
                                 EventRow(r, r)}
        BY <3>3, <3>6
      <3>7. QED
        BY <2>2, <3>2, <3>4, <3>5, <3>6, TransactionRows
    <2>3. CASE \E r \in Request : Step(r) \/ Fail(r)
      BY <1>2, <2>1, <2>2, <2>3, StepEffect DEF AccountInv
    <2>4. CASE Replicate \/ UNCHANGED vars
      BY <2>1, <2>4 DEF Replicate, vars
    <2>5. QED
      BY <1>2, <2>3, <2>4 DEF Next
  <1>3. QED
    BY <1>1, <1>2, AccountInvHolds, PTL DEF Spec, ImplementsDirectory, Directory!DSpec
=============================================================================
