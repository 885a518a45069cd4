-------------------------------- MODULE AuthRpc --------------------------------
(***************************************************************************)
(* The gRPC side of the auth service: the unary interceptor, which         *)
(* validates a request by the rules generated from auth.proto and counts   *)
(* the call by its code, the handlers of the service, and the mapping of   *)
(* the application's errors to codes.                                      *)
(*                                                                         *)
(* A text is its length in runes, how many bytes a rune takes, and how     *)
(* many of its runes are white space around it.  The application is what   *)
(* it does to a call: its own check of the input, the hash of the          *)
(* password, the account it stores, and the errors it may meet (its        *)
(* transactions are the module AuthAccounts).                              *)
(***************************************************************************)
EXTENDS Naturals, FiniteSets, Sequences

CONSTANTS Calls,         \* concurrent calls
          Interceptors,  \* interceptors built in the process, on one registry
          Methods,       \* the methods that are called
          Lengths,       \* the lengths of texts to try
          MaxOdd         \* how many fields of a request differ from a good one

None == "none"
NoAccount == [x \in {} |-> 0]

\* What the constants may be; the module that instantiates this one assumes it.
AuthRpcAssumption ==
  /\ IsFiniteSet(Calls) /\ None \notin Interceptors
  /\ Lengths \subseteq Nat /\ MaxOdd \in Nat
  /\ Methods \subseteq {"Register", "Login", "GetYandexAuthURL", "CompleteYandexLogin"}

-----------------------------------------------------------------------------
(* Texts and e-mail addresses.                                             *)

Text(n, width, pad) == [runes |-> n, width |-> width, pad |-> pad]
Bytes(t) == t.runes * t.width
Trimmed(t) == t.runes - t.pad
Texts == {Text(n, 1, 0) : n \in Lengths} \cup {Text(n, 2, 0) : n \in Lengths}
           \cup {Text(n, 1, n) : n \in Lengths}

\* What mail.ParseAddress finds: the length of the part before "@" and the
\* labels after it; "name" is the rest of the field, a display name.
Label(n) == [len |-> n, plain |-> TRUE]
Email(name, local, host) ==
  [parses |-> TRUE, local |-> local, host |-> host, name |-> name]
HostLen(host) ==
  LET upTo[i \in 0 .. Len(host)] == IF i = 0 THEN 0 ELSE upTo[i - 1] + host[i].len + 1
  IN upTo[Len(host)] - 1
AddressLen(e) == e.local + 1 + HostLen(e.host)
EmailText(e) == Text(AddressLen(e) + e.name, 1, 0)

GoodEmail == Email(0, 5, <<Label(7), Label(3)>>)
Emails ==
  {GoodEmail, [GoodEmail EXCEPT !.parses = FALSE],
   Email(6, 5, <<Label(7), Label(3)>>),
   Email(0, 64, <<Label(63), Label(3)>>), Email(0, 65, <<Label(7), Label(3)>>),
   Email(0, 5, <<Label(64), Label(3)>>), Email(0, 5, <<Label(0), Label(3)>>),
   Email(0, 5, <<[len |-> 7, plain |-> FALSE], Label(3)>>),
   Email(0, 62, <<Label(63), Label(63), Label(63)>>),
   Email(0, 63, <<Label(63), Label(63), Label(63)>>),
   Email(0, 64, <<Label(63), Label(63), Label(63)>>),
   Email(244, 5, <<Label(3)>>), Email(245, 5, <<Label(3)>>), Email(246, 5, <<Label(3)>>)}

-----------------------------------------------------------------------------
(* The generated validation.                                               *)

\* _validateHostname: labels of 1 to 63 plain characters.
ValidHostname(host) ==
  /\ HostLen(host) <= 253
  /\ \A i \in DOMAIN host : host[i].len \in 1 .. 63 /\ host[i].plain

\* _validateEmail: the address that was parsed, its parts, its host.
ValidEmail(e) ==
  /\ e.parses
  /\ AddressLen(e) <= 254 /\ e.local <= 64
  /\ ValidHostname(e.host)

\* A rule of a message: the length of a field in runes, or an e-mail address.
Between(field, lo, hi) == [field |-> field, lo |-> lo, hi |-> hi, email |-> FALSE]
EmailRule(field) == [field |-> field, lo |-> 0, hi |-> 0, email |-> TRUE]

RegisterRules ==
  {Between("Login", 1, 64), Between("Email", 1, 254), EmailRule("Email"),
   Between("Password", 8, 128), Between("FirstName", 1, 128), Between("LastName", 1, 128)}

LoginRules == {Between("Identifier", 1, 254), Between("Password", 1, 128)}

GetYandexAuthURLRules == {}

CompleteYandexLoginRules == {Between("Code", 1, 4096), Between("State", 1, 4096)}

Rules == [Register |-> RegisterRules, Login |-> LoginRules,
          GetYandexAuthURL |-> GetYandexAuthURLRules,
          CompleteYandexLogin |-> CompleteYandexLoginRules]

RunesOf(f, field) == IF field = "Email" THEN EmailText(f[field]).runes ELSE f[field].runes

Holds(rule, f) ==
  IF rule.email THEN ValidEmail(f[rule.field])
  ELSE RunesOf(f, rule.field) \in rule.lo .. rule.hi

\* ValidateAll: the violated rules, whose errors a MultiError wraps.
ValidateAll(m, f) == {rule \in Rules[m] : ~Holds(rule, f)}

-----------------------------------------------------------------------------
(* Requests: a good one with some odd fields.                              *)

Good ==
  [Register |-> [Login |-> Text(5, 1, 0), Email |-> GoodEmail, Password |-> Text(12, 1, 0),
                 FirstName |-> Text(5, 1, 0), LastName |-> Text(5, 1, 0)],
   Login |-> [Identifier |-> Text(5, 1, 0), Password |-> Text(12, 1, 0)],
   GetYandexAuthURL |-> [x \in {} |-> 0],
   CompleteYandexLogin |-> [Code |-> Text(9, 1, 0), State |-> Text(9, 1, 0)]]

FieldsOf(m) == DOMAIN Good[m]
OddValues(field) == IF field = "Email" THEN Emails ELSE Texts
RequestsOf(m) ==
  UNION {{[x \in FieldsOf(m) |-> IF x \in odd THEN v[x] ELSE Good[m][x]] :
            v \in {g \in [odd -> UNION {OddValues(x) : x \in odd}] :
                     \A x \in odd : g[x] \in OddValues(x)}} :
         odd \in {S \in SUBSET FieldsOf(m) : Cardinality(S) <= MaxOdd}}

-----------------------------------------------------------------------------
VARIABLES
  phase,     \* of each call: "idle", "received", "handler", "done"
  via,       \* the interceptor that serves it
  method, fields,  \* its request
  code,      \* the code its caller gets
  stored,    \* the account it created: the lengths of what was stored
  registry,  \* the collector that is registered, and shown by /metrics
  collector, \* the one each interceptor counts in
  count      \* calls by code in each collector

vars == <<phase, via, method, fields, code, stored, registry, collector, count>>

Codes == {"OK", "InvalidArgument", "Unauthenticated", "AlreadyExists", "FailedPrecondition",
          "NotFound", "Internal"}

\* One type invariant.
TypeOK ==
  /\ phase \in [Calls -> {"idle", "received", "handler", "done"}]
  /\ via \in [Calls -> Interceptors \cup {None}]
  /\ method \in [Calls -> Methods \cup {None}]
  /\ code \in [Calls -> Codes \cup {None}]
  /\ DOMAIN fields = Calls /\ DOMAIN stored = Calls
  /\ \A c \in Calls : DOMAIN stored[c] \in {{}, {"Login", "Email", "FirstName", "LastName"}}
  /\ registry \in Interceptors \cup {None}
  /\ collector \in [Interceptors -> Interceptors \cup {None}]
  /\ count \in [Interceptors -> [Codes -> 0 .. Cardinality(Calls)]]

Init ==
  /\ phase = [c \in Calls |-> "idle"] /\ via = [c \in Calls |-> None]
  /\ method = [c \in Calls |-> None] /\ fields = [c \in Calls |-> None]
  /\ code = [c \in Calls |-> None] /\ stored = [c \in Calls |-> NoAccount]
  /\ registry = None /\ collector = [i \in Interceptors |-> None]
  /\ count = [i \in Interceptors |-> [k \in Codes |-> 0]]

\* newServerMetrics registers its collectors, or takes the registered ones.
NewServerMetrics(i) ==
  /\ collector[i] = None
  /\ registry' = IF registry = None THEN i ELSE registry
  /\ collector' = [collector EXCEPT ![i] = registry']
  /\ UNCHANGED <<phase, via, method, fields, code, stored, count>>

Receive(c) ==
  /\ phase[c] = "idle"
  /\ \E i \in Interceptors, m \in Methods :
       /\ collector[i] # None
       /\ via' = [via EXCEPT ![c] = i]
       /\ method' = [method EXCEPT ![c] = m]
       /\ \E f \in RequestsOf(m) : fields' = [fields EXCEPT ![c] = f]
  /\ phase' = [phase EXCEPT ![c] = "received"]
  /\ UNCHANGED <<code, stored, registry, collector, count>>

\* The end of a call: observe counts it once, and the caller gets the code.
Finish(c, k) ==
  /\ count' = [count EXCEPT ![collector[via[c]]][k] = @ + 1]
  /\ code' = [code EXCEPT ![c] = k]
  /\ phase' = [phase EXCEPT ![c] = "done"]
  /\ UNCHANGED <<via, method, fields, registry, collector>>

\* validateRequest fails: the handler is not called.
Refuse(c) ==
  /\ phase[c] = "received"
  /\ ValidateAll(method[c], fields[c]) # {}
  /\ Finish(c, "InvalidArgument")
  /\ UNCHANGED stored

Handle(c) ==
  /\ phase[c] = "received"
  /\ ValidateAll(method[c], fields[c]) = {}
  /\ phase' = [phase EXCEPT ![c] = "handler"]
  /\ UNCHANGED <<via, method, fields, code, stored, registry, collector, count>>

-----------------------------------------------------------------------------
(* The handlers: the application's answer and the code it becomes.         *)

Required == {"ErrLoginRequired", "ErrEmailRequired", "ErrPasswordRequired",
             "ErrYandexCodeRequired", "ErrYandexStateRequired", "ErrFirstNameRequired",
             "ErrLastNameRequired", "ErrIdentifierRequired"}

MapAppError(err) ==
  CASE err = "nil" -> "OK"
    [] err \in Required -> "InvalidArgument"
    [] err = "ErrInvalidCredentials" -> "Unauthenticated"
    [] err = "ErrUserAlreadyExists" -> "AlreadyExists"
    [] err \in {"ErrUnsupportedAuthState", "ErrYandexProfileIncomplete"} -> "FailedPrecondition"
    [] err = "ErrNotFound" -> "NotFound"
    [] OTHER -> "Internal"

\* TrimSpace leaves nothing; a blank e-mail is no address and does not get here.
Blank(f, field) == field # "Email" /\ Trimmed(f[field]) = 0

\* The first blank field of an input, checked in this order.
FirstBlank(f, checks) ==
  LET blank == {i \in DOMAIN checks : Blank(f, checks[i][1])}
  IN IF blank = {} THEN "nil" ELSE checks[CHOOSE i \in blank : \A j \in blank : i <= j][2]

\* A bug: names may be blank.
ValidateRegisterInput_NoNames(f) ==
  FirstBlank(f, <<<<"Login", "ErrLoginRequired">>, <<"Email", "ErrEmailRequired">>,
                  <<"Password", "ErrPasswordRequired">>>>)

ValidateRegisterInput(f) ==
  FirstBlank(f, <<<<"Login", "ErrLoginRequired">>, <<"Email", "ErrEmailRequired">>,
                  <<"Password", "ErrPasswordRequired">>, <<"FirstName", "ErrFirstNameRequired">>,
                  <<"LastName", "ErrLastNameRequired">>>>)

ValidateLoginInput(f) ==
  FirstBlank(f, <<<<"Identifier", "ErrIdentifierRequired">>, <<"Password", "ErrPasswordRequired">>>>)

\* The code and state that CompleteYandexLogin checks itself.
ValidateYandexInput(f) ==
  FirstBlank(f, <<<<"Code", "ErrYandexCodeRequired">>, <<"State", "ErrYandexStateRequired">>>>)

\* What the application stores of a request: trimmed texts.
Account(f) ==
  [x \in {"Login", "Email", "FirstName", "LastName"} |->
     IF x = "Email" THEN EmailText(f.Email).runes ELSE Trimmed(f[x])]

\* bcrypt hashes at most 72 bytes.
Hashable(t) == Bytes(t) <= 72

Answer(c, err) == Finish(c, MapAppError(err))
Serving(c, m) == phase[c] = "handler" /\ method[c] = m

\* Register fails before the transaction, or in it.
RegisterFails(c) ==
  /\ Serving(c, "Register")
  /\ LET err == ValidateRegisterInput(fields[c])
     IN \/ err # "nil" /\ Answer(c, err)
        \/ /\ err = "nil"
           /\ \/ \E e \in {"ErrUserAlreadyExists", "other"} : Answer(c, e)
              \/ ~Hashable(fields[c].Password) /\ Answer(c, "ErrPasswordTooLong")
  /\ stored' = stored

\* Register commits its account; tokens may then fail.
RegisterCommits(c) ==
  /\ Serving(c, "Register")
  /\ ValidateRegisterInput(fields[c]) = "nil" /\ Hashable(fields[c].Password)
  /\ stored' = [stored EXCEPT ![c] = Account(fields[c])]
  /\ \E e \in {"nil", "other"} : Answer(c, e)

Login(c) ==
  /\ Serving(c, "Login")
  /\ LET err == ValidateLoginInput(fields[c])
     IN \/ err # "nil" /\ Answer(c, err)
        \/ err = "nil" /\ \E e \in {"nil", "ErrInvalidCredentials", "other"} : Answer(c, e)
  /\ UNCHANGED stored

\* The application was built with or without Yandex ID.
GetYandexAuthURL(c) ==
  /\ Serving(c, "GetYandexAuthURL")
  /\ \E e \in {"nil", "ErrUnsupportedAuthState", "other"} : Answer(c, e)
  /\ UNCHANGED stored

CompleteYandexLogin(c) ==
  /\ Serving(c, "CompleteYandexLogin")
  /\ LET err == ValidateYandexInput(fields[c])
     IN \/ err # "nil" /\ Answer(c, err)
        \/ /\ err = "nil"
           /\ \E e \in {"nil", "ErrYandexProfileIncomplete", "ErrUserAlreadyExists",
                        "ErrNotFound", "other"} : Answer(c, e)
  /\ UNCHANGED stored

Done == (\A c \in Calls : phase[c] = "done") /\ UNCHANGED vars

Next ==
  \/ \E i \in Interceptors : NewServerMetrics(i)
  \/ \E c \in Calls :
       \/ Receive(c) \/ Refuse(c) \/ Handle(c)
       \/ RegisterFails(c) \/ RegisterCommits(c)
       \/ Login(c) \/ GetYandexAuthURL(c) \/ CompleteYandexLogin(c)
  \/ Done

Spec == Init /\ [][Next]_vars

-----------------------------------------------------------------------------
Created(c) == DOMAIN stored[c] # {}

\* What is shown at /metrics counts every finished call once, by the code its
\* caller got, whichever interceptor served it.
EveryCallIsCounted ==
  registry # None =>
    \A k \in Codes : count[registry][k] = Cardinality({c \in Calls : code[c] = k})

\* The two checks of a registration together: no account is stored with a
\* field that is empty once trimmed, or longer than the rules allow.
StoredFieldsFit ==
  \A c \in Calls : Created(c) =>
    /\ stored[c].Login \in 1 .. 64 /\ stored[c].Email \in 1 .. 254
    /\ stored[c].FirstName \in 1 .. 128 /\ stored[c].LastName \in 1 .. 128
    /\ fields[c].Password.runes \in 8 .. 128

\* A code tells the caller whether a retry may find an account: OK means there
\* is one, and only Internal leaves it open.
CodeTellsOfAccount ==
  \A c \in Calls : phase[c] = "done" /\ method[c] = "Register" =>
    /\ code[c] = "OK" => Created(c)
    /\ code[c] \notin {"OK", "Internal"} => ~Created(c)

\* A caller whose request breaks no rule and has no blank field is not told
\* that its argument is invalid, and one whose request does is always told.
InvalidMeansInvalid ==
  \A c \in Calls : phase[c] = "done" =>
    (code[c] = "InvalidArgument" <=>
       \/ ValidateAll(method[c], fields[c]) # {}
       \/ \E x \in FieldsOf(method[c]) : Blank(fields[c], x))

\* What the run checks of a server's calls.
Answered ==
  TypeOK /\ StoredFieldsFit /\ CodeTellsOfAccount /\ InvalidMeansInvalid /\ EveryCallIsCounted

\* The strengthening behind it.  A call that was received keeps its request and
\* an interceptor that counts, one with a handler has passed validation, and an
\* account is what a registration that passed both checks stored.
CallInv ==
  \A c \in Calls :
    /\ phase[c] # "idle" =>
         /\ method[c] \in Methods
         /\ \A x \in FieldsOf(method[c]) :
              fields[c][x] \in OddValues(x) \cup {Good[method[c]][x]}
         /\ via[c] \in Interceptors /\ collector[via[c]] # None
    /\ phase[c] = "handler" => ValidateAll(method[c], fields[c]) = {}
    /\ phase[c] = "done" <=> code[c] # None
    /\ stored[c] = NoAccount \/
         /\ phase[c] = "done" /\ method[c] = "Register" /\ stored[c] = Account(fields[c])
         /\ ValidateAll("Register", fields[c]) = {}
         /\ ValidateRegisterInput(fields[c]) = "nil"

\* All interceptors count in the collector that is registered.
CountInv ==
  /\ \A i \in Interceptors : collector[i] \in {None, registry}
  /\ \A i \in Interceptors, k \in Codes :
       count[i][k] = IF i = registry THEN Cardinality({c \in Calls : code[c] = k}) ELSE 0
=============================================================================
