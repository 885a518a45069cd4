---------------------------- MODULE AuthAccounts ----------------------------
(***************************************************************************)
(* The use cases that create and read accounts: Register, Login and        *)
(* CompleteYandexLogin of the auth service, and Accept of the vkusers      *)
(* service, running at the same time on the tables auth_users,             *)
(* auth_password_credentials, auth_external_identities and                 *)
(* auth_outbox_messages.                                                   *)
(*                                                                         *)
(* One Request is one call of a use case.  Every SELECT, INSERT and COMMIT *)
(* is a step.  A SELECT outside of a transaction goes to the read-only     *)
(* pool, which may be a replica that lags behind; inside a transaction it  *)
(* goes to the primary, under READ COMMITTED.  An INSERT waits for an open *)
(* transaction that has inserted the same unique key.                      *)
(*                                                                         *)
(* A table row is a record with its table's name.  The id of an account is *)
(* the request that created it (a fresh UUID in the code).                 *)
(***************************************************************************)
EXTENDS Naturals, Sequences, FiniteSets

CONSTANTS
    Request,     \* the calls
    Nobody,      \* "no account yet"
    Text,        \* logins, emails, subjects and passwords as they arrive
    Blank,       \* the empty string
    Emails,      \* the texts that contain an "@"
    trim,        \* strings.TrimSpace
    norm,        \* strings.ToLower(strings.TrimSpace(..))
    yandexName,  \* "yandex-" + the subject in lower case
    vkName,      \* "vk_" + the VK id in lower case
    vkMailbox,   \* "vk-" + the VK id in lower case + "@vk.local"
    Call         \* the arguments of the calls

Op == {"register", "login", "yandex", "vk"}

ASSUME NobodyAssumption == Nobody \notin Request
ASSUME BlankAssumption == Blank \in Text
ASSUME TextFunctionAssumption ==
    /\ trim \in [Text -> Text]
    /\ norm \in [Text -> Text]
    /\ yandexName \in [Text -> Text]
    /\ vkName \in [Text -> Text]
    /\ vkMailbox \in [Text -> Text]
\* Trimming twice is trimming once.
ASSUME TrimAssumption == \A t \in Text : trim[trim[t]] = trim[t]
\* Names are compared in normal form, and the derived names are in it.
ASSUME NormAssumption ==
    \A t \in Text :
        /\ norm[norm[t]] = norm[t]
        /\ norm[yandexName[t]] = yandexName[t]
        /\ norm[vkName[t]] = vkName[t]
        /\ norm[vkMailbox[t]] = vkMailbox[t]
ASSUME CallAssumption ==
    Call \subseteq [op : Op, login : Text, email : Text, subject : Text, password : Text]

VARIABLES
    db,       \* the committed rows of the primary
    replica,  \* the rows the read-only pool returns
    pc,       \* Request -> the statement it is about to execute
    call,     \* Request -> its arguments
    account,  \* Request -> the account it is about
    work,     \* Request -> the INSERTs of its transaction, in order
    inserted, \* Request -> how many of them have been executed
    answer    \* Request -> what it returned to its caller

vars == <<db, replica, pc, call, account, work, inserted, answer>>
txvars == <<work, inserted>>

-----------------------------------------------------------------------------
(* The tables.                                                             *)

UserRow(id, login, email) ==
    [table |-> "auth_users", id |-> id, login |-> login, email |-> email]
CredentialRow(id, password) ==
    [table |-> "auth_password_credentials", user |-> id, hash |-> password]
IdentityRow(provider, subject, id) ==
    [table |-> "auth_external_identities", provider |-> provider, subject |-> subject, user |-> id]
EventRow(id, r) ==
    [table |-> "auth_outbox_messages", user |-> id, by |-> r]

Users(rows) == {u \in rows : u.table = "auth_users"}
Credentials(rows) == {c \in rows : c.table = "auth_password_credentials"}
Identities(rows) == {i \in rows : i.table = "auth_external_identities"}
Events(rows) == {e \in rows : e.table = "auth_outbox_messages"}

\* The values under which a row must be alone in its table.
UniqueKeys(row) ==
    CASE row.table = "auth_users" ->
            {<<"id", row.id>>, <<"login", row.login>>, <<"email", row.email>>}
      [] row.table = "auth_password_credentials" -> {<<"credential", row.user>>}
      [] row.table = "auth_external_identities" -> {<<"identity", row.provider, row.subject>>}
      [] row.table = "auth_outbox_messages" -> {<<"event", row.by>>}

Collide(a, b) == UniqueKeys(a) \cap UniqueKeys(b) # {}

\* The rows a request has inserted and not yet committed.
Uncommitted(r) == {work[r][i] : i \in 1..inserted[r]}

GetByLogin(rows, login) == {u \in Users(rows) : u.login = login}
GetByEmail(rows, email) == {u \in Users(rows) : u.email = email}
GetByProviderSubject(rows, provider, subject) ==
    {i \in Identities(rows) : i.provider = provider /\ i.subject = subject}
GetByUserID(rows, id) == {c \in Credentials(rows) : c.user = id}

-----------------------------------------------------------------------------
Init ==
    /\ db = {}
    /\ replica = {}
    /\ pc = [r \in Request |-> "new"]
    /\ call \in [Request -> Call]
    /\ account = [r \in Request |-> Nobody]
    /\ work = [r \in Request |-> <<>>]
    /\ inserted = [r \in Request |-> 0]
    /\ answer = [r \in Request |-> "none"]

Goto(r, label) == pc' = [pc EXCEPT ![r] = label]

\* The call returns; an open transaction is rolled back.
Answer(r, result) ==
    /\ Goto(r, "done")
    /\ answer' = [answer EXCEPT ![r] = result]
    /\ work' = [work EXCEPT ![r] = <<>>]
    /\ inserted' = [inserted EXCEPT ![r] = 0]

\* The INSERTs of the transaction are known, for account id.
Prepare(r, id, rows) ==
    /\ account' = [account EXCEPT ![r] = id]
    /\ work' = [work EXCEPT ![r] = rows]
    /\ inserted' = [inserted EXCEPT ![r] = 0]
    /\ Goto(r, "writing")
    /\ UNCHANGED answer

-----------------------------------------------------------------------------
(* The start of a call: its arguments are checked.  The password stands    *)
(* for all other required fields of Register; the Yandex code, the state   *)
(* token and the exchange of the code end in Fail when they are refused.   *)

validateRegisterInput(c) == Blank \notin {trim[c.login], trim[c.email], trim[c.password]}
validateLoginInput(c) == Blank \notin {trim[c.login], trim[c.password]}
YandexProfileComplete(c) == Blank \notin {trim[c.subject], trim[c.email]}
VKEventHasId(c) == trim[c.subject] # Blank

Start(r, op, valid, first) ==
    /\ pc[r] = "new"
    /\ call[r].op = op
    /\ IF valid
       THEN Goto(r, first) /\ UNCHANGED <<answer, txvars>>
       ELSE Answer(r, "invalid")
    /\ UNCHANGED <<db, replica, call, account>>

Register(r) == Start(r, "register", validateRegisterInput(call[r]), "registerLogin")
Login(r) == Start(r, "login", validateLoginInput(call[r]), "loginFind")
CompleteYandexLogin(r) == Start(r, "yandex", YandexProfileComplete(call[r]), "yandexIdentity")
Accept(r) == Start(r, "vk", VKEventHasId(call[r]), "vkIdentity")

-----------------------------------------------------------------------------
(* Register.                                                               *)

ensureLoginIsUnique(r) ==
    /\ pc[r] = "registerLogin"
    /\ IF GetByLogin(replica, norm[call[r].login]) # {}
       THEN Answer(r, "exists")
       ELSE Goto(r, "registerEmail") /\ UNCHANGED <<answer, txvars>>
    /\ UNCHANGED <<db, replica, call, account>>

\* Mutant: the event is published by the caller, not by the transaction.
registerRows_NoEvent(r) ==
    <<UserRow(r, norm[call[r].login], norm[call[r].email]),
      CredentialRow(r, call[r].password)>>

\* Mutant: the login is stored as it was typed.
registerRows_Raw(r) ==
    <<UserRow(r, call[r].login, norm[call[r].email]),
      CredentialRow(r, call[r].password),
      EventRow(r, r)>>

registerRows(r) ==
    <<UserRow(r, norm[call[r].login], norm[call[r].email]),
      CredentialRow(r, call[r].password),
      EventRow(r, r)>>

ensureEmailIsUnique(r) ==
    /\ pc[r] = "registerEmail"
    /\ IF GetByEmail(replica, norm[call[r].email]) # {}
       THEN Answer(r, "exists") /\ UNCHANGED account
       ELSE Prepare(r, r, registerRows(r))
    /\ UNCHANGED <<db, replica, call>>

-----------------------------------------------------------------------------
(* Login.                                                                  *)

findUserByIdentifier(rows, identifier) ==
    IF trim[identifier] \in Emails
    THEN GetByEmail(rows, norm[trim[identifier]])
    ELSE GetByLogin(rows, norm[trim[identifier]])

FindUser(r) ==
    /\ pc[r] = "loginFind"
    /\ LET found == findUserByIdentifier(replica, call[r].login) IN
       IF found = {}
       THEN Answer(r, "invalid") /\ UNCHANGED account
       ELSE /\ \E u \in found : account' = [account EXCEPT ![r] = u.id]
            /\ Goto(r, "loginCredential")
            /\ UNCHANGED <<answer, txvars>>
    /\ UNCHANGED <<db, replica, call>>

ValidatePassword(r) ==
    /\ pc[r] = "loginCredential"
    /\ IF \E c \in GetByUserID(replica, account[r]) : c.hash = call[r].password
       THEN Goto(r, "tokens") /\ UNCHANGED <<answer, txvars>>
       ELSE Answer(r, "invalid")
    /\ UNCHANGED <<db, replica, call, account>>

-----------------------------------------------------------------------------
(* CompleteYandexLogin.  The lookup uses the subject as Yandex sent it,    *)
(* the INSERT the trimmed one.                                             *)

YandexIdentity(r) ==
    /\ pc[r] = "yandexIdentity"
    /\ LET found == GetByProviderSubject(replica, "yandex", call[r].subject) IN
       IF found = {}
       THEN Goto(r, "yandexEmail") /\ UNCHANGED account
       ELSE /\ \E i \in found : account' = [account EXCEPT ![r] = i.user]
            /\ Goto(r, "yandexAccount")
    /\ UNCHANGED <<db, replica, call, answer, txvars>>

YandexAccount(r) ==
    /\ pc[r] = "yandexAccount"
    /\ IF \E u \in Users(replica) : u.id = account[r]
       THEN Goto(r, "tokens") /\ UNCHANGED <<answer, txvars>>
       ELSE Answer(r, "error")
    /\ UNCHANGED <<db, replica, call, account>>

buildExternalLogin(c) ==
    IF norm[c.login] # Blank THEN norm[c.login] ELSE yandexName[c.subject]

registerYandexUser(r) ==
    /\ pc[r] = "yandexEmail"
    /\ LET c == call[r]
           found == GetByEmail(replica, norm[c.email])
       IN IF found # {}
          THEN \E u \in found :
                  Prepare(r, u.id, <<IdentityRow("yandex", trim[c.subject], u.id)>>)
          ELSE Prepare(r, r, <<UserRow(r, buildExternalLogin(c), norm[c.email]),
                               EventRow(r, r),
                               IdentityRow("yandex", trim[c.subject], r)>>)
    /\ UNCHANGED <<db, replica, call>>

-----------------------------------------------------------------------------
(* Accept.  All of it is one transaction, so it reads the primary.         *)

VKIdentity(r) ==
    /\ pc[r] = "vkIdentity"
    /\ LET found == GetByProviderSubject(db, "vk", trim[call[r].subject]) IN
       IF found # {}
       THEN \E i \in found : Prepare(r, i.user, <<>>)
       ELSE /\ Goto(r, IF norm[call[r].email] = Blank THEN "vkLogin" ELSE "vkEmail")
            /\ UNCHANGED <<answer, account, txvars>>
    /\ UNCHANGED <<db, replica, call>>

\* Mutant: the id of the event is stored with the blanks around it.
vkIdentityRow_Raw(r, id) == IdentityRow("vk", call[r].subject, id)

vkIdentityRow(r, id) == IdentityRow("vk", trim[call[r].subject], id)

\* resolveAccount, an email that is known: link to its account.
resolveAccount(r) ==
    /\ pc[r] = "vkEmail"
    /\ LET found == GetByEmail(db, norm[call[r].email]) IN
       IF found # {}
       THEN \E u \in found : Prepare(r, u.id, <<vkIdentityRow(r, u.id)>>)
       ELSE Goto(r, "vkLogin") /\ UNCHANGED <<answer, account, txvars>>
    /\ UNCHANGED <<db, replica, call>>

emailOrPlaceholder(c) ==
    IF norm[c.email] # Blank THEN norm[c.email] ELSE vkMailbox[trim[c.subject]]

CreateVKAccount(r, login) ==
    Prepare(r, r, <<UserRow(r, login, emailOrPlaceholder(call[r])),
                    vkIdentityRow(r, r),
                    EventRow(r, r)>>)

fallbackLogin(c) == vkName[trim[c.subject]]
baseLogin(c) == IF norm[c.login] # Blank THEN norm[c.login] ELSE fallbackLogin(c)

resolveLogin(r) ==
    /\ pc[r] = "vkLogin"
    /\ IF GetByLogin(db, baseLogin(call[r])) = {}
       THEN CreateVKAccount(r, baseLogin(call[r]))
       ELSE /\ IF fallbackLogin(call[r]) = baseLogin(call[r])
               THEN Answer(r, "error")
               ELSE Goto(r, "vkFallback") /\ UNCHANGED <<answer, txvars>>
            /\ UNCHANGED account
    /\ UNCHANGED <<db, replica, call>>

resolveFallback(r) ==
    /\ pc[r] = "vkFallback"
    /\ IF GetByLogin(db, fallbackLogin(call[r])) = {}
       THEN CreateVKAccount(r, fallbackLogin(call[r]))
       ELSE Answer(r, "error") /\ UNCHANGED account
    /\ UNCHANGED <<db, replica, call>>

-----------------------------------------------------------------------------
(* The transaction.                                                        *)

NextRow(r) == work[r][inserted[r] + 1]
HasNextRow(r) == pc[r] = "writing" /\ inserted[r] < Len(work[r])

Insert(r) ==
    /\ HasNextRow(r)
    /\ \A row \in db : ~Collide(row, NextRow(r))
    /\ \A s \in Request : \A row \in Uncommitted(s) : ~Collide(row, NextRow(r))
    /\ inserted' = [inserted EXCEPT ![r] = @ + 1]
    /\ UNCHANGED <<db, replica, pc, call, account, work, answer>>

\* Mutant: every unique violation is reported as an existing user.
mapCreateError_All(r) == "exists"

\* Only the INSERT into auth_users of the auth service goes through
\* mapCreateError; Accept and all other INSERTs return the error itself.
mapCreateError(r) ==
    IF NextRow(r).table = "auth_users" /\ call[r].op # "vk" THEN "exists" ELSE "error"

\* Mutant: a duplicate is taken for success.
UniqueViolation_Swallowed(r) ==
    /\ HasNextRow(r)
    /\ \E row \in db : Collide(row, NextRow(r))
    /\ Answer(r, "ok")
    /\ UNCHANGED <<db, replica, call, account>>

UniqueViolation(r) ==
    /\ HasNextRow(r)
    /\ \E row \in db : Collide(row, NextRow(r))
    /\ Answer(r, mapCreateError(r))
    /\ UNCHANGED <<db, replica, call, account>>

AllRows(r) == {work[r][i] : i \in 1..Len(work[r])}

\* Mutant: the transaction is not taken out of the context.
Commit_KeepsCount(r) ==
    /\ pc[r] = "writing"
    /\ inserted[r] = Len(work[r])
    /\ db' = db \cup AllRows(r)
    /\ work' = [work EXCEPT ![r] = <<>>]
    /\ Goto(r, "tokens")
    /\ UNCHANGED <<replica, call, account, inserted, answer>>

Commit(r) ==
    /\ pc[r] = "writing"
    /\ inserted[r] = Len(work[r])
    /\ db' = db \cup AllRows(r)
    /\ work' = [work EXCEPT ![r] = <<>>]
    /\ inserted' = [inserted EXCEPT ![r] = 0]
    /\ IF call[r].op = "vk"
       THEN Goto(r, "done") /\ answer' = [answer EXCEPT ![r] = "ok"]
       ELSE Goto(r, "tokens") /\ UNCHANGED answer
    /\ UNCHANGED <<replica, call, account>>

\* The server commits, the client sees an error.
CommitLost(r) ==
    /\ pc[r] = "writing"
    /\ inserted[r] = Len(work[r])
    /\ db' = db \cup AllRows(r)
    /\ Answer(r, "error")
    /\ UNCHANGED <<replica, call, account>>

IssueTokens(r) ==
    /\ pc[r] = "tokens"
    /\ Answer(r, "ok")
    /\ UNCHANGED <<db, replica, call, account>>

\* Mutant: the error path of the transaction forgets to roll back.
Fail_KeepsTransaction(r) ==
    /\ pc[r] \notin {"new", "done"}
    /\ Goto(r, "done")
    /\ answer' = [answer EXCEPT ![r] = "error"]
    /\ UNCHANGED <<db, replica, call, account, txvars>>

\* A query, an INSERT, the COMMIT, the hash or the token fails, the context
\* is cancelled or the process dies: what is not committed is rolled back,
\* what is committed stays.
Fail(r) ==
    /\ pc[r] \notin {"new", "done"}
    /\ Answer(r, "error")
    /\ UNCHANGED <<db, replica, call, account>>

\* The replica catches up.  It may do so after every commit, so it can be at
\* every state the primary has been in.
Replicate ==
    /\ replica # db
    /\ replica' = db
    /\ UNCHANGED <<db, pc, call, account, txvars, answer>>

Step(r) ==
    \/ Register(r) \/ ensureLoginIsUnique(r) \/ ensureEmailIsUnique(r)
    \/ Login(r) \/ FindUser(r) \/ ValidatePassword(r)
    \/ CompleteYandexLogin(r) \/ YandexIdentity(r) \/ YandexAccount(r) \/ registerYandexUser(r)
    \/ Accept(r) \/ VKIdentity(r) \/ resolveAccount(r) \/ resolveLogin(r) \/ resolveFallback(r)
    \/ Insert(r) \/ UniqueViolation(r) \/ Commit(r) \/ CommitLost(r)
    \/ IssueTokens(r)

Next == (\E r \in Request : Step(r) \/ Fail(r)) \/ Replicate

Spec == Init /\ [][Next]_vars

\* A statement that is not blocked by a lock is executed; nothing is assumed
\* about failures or about the replica.
FairSpec == Spec /\ \A r \in Request : WF_vars(Step(r))

-----------------------------------------------------------------------------
(* Properties.                                                             *)

Row ==
    [table : {"auth_users"}, id : Request, login : Text, email : Text]
    \cup [table : {"auth_password_credentials"}, user : Request, hash : Text]
    \cup [table : {"auth_external_identities"}, provider : {"yandex", "vk"},
          subject : Text, user : Request]
    \cup [table : {"auth_outbox_messages"}, user : Request, by : Request]

PC == {"new", "registerLogin", "registerEmail", "loginFind", "loginCredential",
       "yandexIdentity", "yandexAccount", "yandexEmail", "vkIdentity", "vkEmail",
       "vkLogin", "vkFallback", "writing", "tokens", "done"}

\* Every variable has its type, and a request never has executed more
\* INSERTs than its transaction has.
TypeOK ==
    /\ db \subseteq Row
    /\ replica \subseteq Row
    /\ pc \in [Request -> PC]
    /\ call \in [Request -> Call]
    /\ account \in [Request -> Request \cup {Nobody}]
    /\ work \in [Request -> Seq(Row)]
    /\ inserted \in [Request -> Nat]
    /\ \A r \in Request : inserted[r] <= Len(work[r])
    /\ answer \in [Request -> {"none", "ok", "exists", "invalid", "error"}]

\* Two accounts never have logins or emails that differ only in case or in
\* blanks around them, whichever use case created them and however stale
\* its uniqueness check was.
UniqueUpToCase ==
    \A u, v \in Users(db) :
        norm[u.login] = norm[v.login] \/ norm[u.email] = norm[v.email] => u = v

\* Register and CompleteYandexLogin answer ErrUserAlreadyExists only when
\* somebody else's account really has the login or the email, also when the
\* row that was in the way belonged to a transaction that was then rolled
\* back.
ExistsIsTrue ==
    \A r \in Request : answer[r] = "exists" =>
        \E u \in Users(db) :
            /\ u.id # r
            /\ \/ u.email = norm[call[r].email]
               \/ u.login = IF call[r].op = "yandex"
                            THEN buildExternalLogin(call[r]) ELSE norm[call[r].login]

\* What a successful call says is in the primary for good: the account, and
\* the credential or the identity that was asked for, although Login and
\* CompleteYandexLogin read a replica and IssueTokens runs after the
\* transaction.
OkIsDurable ==
    \A r \in Request : answer[r] = "ok" =>
        LET c == call[r] IN
        /\ \E u \in Users(db) : u.id = account[r]
        /\ c.op \in {"register", "login"} =>
              CredentialRow(account[r], c.password) \in db
        /\ c.op \in {"yandex", "vk"} =>
              IdentityRow(c.op, trim[c.subject], account[r]) \in db
        /\ c.op = "login" =>
              \E u \in findUserByIdentifier(db, c.login) : u.id = account[r]

\* However often a VK event is delivered, and whatever else links to the
\* same account, one VK id creates at most one account.
OneAccountPerVKUser ==
    \A r, s \in Request :
        /\ call[r].op = "vk" /\ call[s].op = "vk"
        /\ trim[call[r].subject] = trim[call[s].subject]
        /\ \E u \in Users(db) : u.id = r
        /\ \E u \in Users(db) : u.id = s
        => r = s

\* Every call returns: no cycle of transactions waits for each other's
\* unique keys, and no transaction stays open.
EveryCallReturns == \A r \in Request : <>(pc[r] = "done")

People(rows) ==
    {[id |-> u.id, login |-> u.login, email |-> u.email] : u \in Users(rows)}

\* What a reader of the committed rows sees.
Directory == INSTANCE AccountDirectory WITH
    people <- People(db),
    passwords <- {c.user : c \in Credentials(db)},
    identities <- {[provider |-> i.provider, subject |-> i.subject, user |-> i.user] :
                      i \in Identities(db)},
    announced <- {[user |-> e.user, by |-> e.by] : e \in Events(db)}

\* The account tables behave as AccountDirectory: every commit creates one
\* account with one way to log in and its one event, or links one identity
\* to an account that exists; no half of it is ever visible, and no foreign
\* key is ever violated.
ImplementsDirectory == Directory!DSpec
=============================================================================
