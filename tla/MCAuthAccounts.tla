--------------------------- MODULE MCAuthAccounts ---------------------------
(***************************************************************************)
(* Instances of AuthAccounts for TLC.  The texts contain each name in two  *)
(* spellings, and names that a user may choose but that the code also      *)
(* derives for external users.                                             *)
(***************************************************************************)
EXTENDS AuthAccounts, FiniteSetsExt

CONSTANTS r1, r2, r3

MCText == {"", "ann", "Ann", " Ann", "bob", "ann@x", "ANN@x", "bob@x", "1", " 1",
           "yandex-1", "vk_1", "vk-1@vk.local"}
MCEmails == {"ann@x", "ANN@x", "bob@x", "vk-1@vk.local"}
MCtrim == [t \in MCText |-> CASE t = " Ann" -> "Ann" [] t = " 1" -> "1" [] OTHER -> t]
MCnorm == [t \in MCText |->
             CASE t \in {"Ann", " Ann"} -> "ann" [] t = "ANN@x" -> "ann@x" [] t = " 1" -> "1" [] OTHER -> t]
MCyandexName == [t \in MCText |-> "yandex-1"]
MCvkName == [t \in MCText |-> "vk_1"]
MCvkMailbox == [t \in MCText |-> "vk-1@vk.local"]

RegisterCall(l, e) == [op |-> "register", login |-> l, email |-> e, subject |-> "", password |-> "1"]
LoginCall(l, p) == [op |-> "login", login |-> l, email |-> "", subject |-> "", password |-> p]
YandexCall(s, l, e) == [op |-> "yandex", login |-> l, email |-> e, subject |-> s, password |-> ""]
VKCall(s, l, e) == [op |-> "vk", login |-> l, email |-> e, subject |-> s, password |-> ""]

\* Everything at once, for two calls at a time.
AllCalls ==
    {RegisterCall(l, e) : l \in {"", "ann", " Ann", "vk_1", "yandex-1"},
                          e \in {"ann@x", "ANN@x", "vk-1@vk.local"}}
    \cup {LoginCall(l, p) : l \in {"", " Ann", "ANN@x"}, p \in {"1", "bob"}}
    \cup {YandexCall(s, l, e) : s \in {"1", " 1", ""}, l \in {"", "ann"}, e \in {"ANN@x"}}
    \cup {VKCall(s, l, e) : s \in {"1", " 1", ""}, l \in {"", " Ann"}, e \in {"", "ANN@x"}}

\* Three calls that compete for names, and logins that read what they wrote.
NameCalls ==
    {RegisterCall(" Ann", "ann@x"), RegisterCall("ann", "vk-1@vk.local"),
     LoginCall("ann", "1"), LoginCall("ANN@x", "1"),
     YandexCall("1", "ann", "ANN@x"), VKCall("1", " Ann", "")}

\* Three external calls for the same person, new or known.
ExternalCalls ==
    {RegisterCall("vk_1", "ann@x"),
     YandexCall("1", "", "ANN@x"), YandexCall(" 1", "bob", "bob@x"), YandexCall("1", "ann", "ann@x"),
     VKCall("1", "bob", "ANN@x"), VKCall(" 1", "", ""), VKCall("1", "bob", "")}

MCCall == AllCalls \cup NameCalls \cup ExternalCalls

\* Requests are interchangeable, only their calls tell them apart: of the
\* assignments that differ by a permutation one is enough.
Order == FoldSet(LAMBDA c, seq : Append(seq, c), <<>>, MCCall)
Rank == [c \in MCCall |-> CHOOSE i \in DOMAIN Order : Order[i] = c]
Ranked(r, s) == Rank[call[r]] <= Rank[call[s]]

\* The third request of a pair has been refused before: it is a Login with
\* no identifier.
Idle == LoginCall("", "1")

CallsInit ==
    /\ db = {} /\ replica = {}
    /\ account = [r \in Request |-> Nobody]
    /\ work = [r \in Request |-> <<>>]
    /\ inserted = [r \in Request |-> 0]
    /\ \/ /\ call \in [Request -> NameCalls] \cup [Request -> ExternalCalls]
          /\ Ranked(r1, r2) /\ Ranked(r2, r3)
          /\ pc = [r \in Request |-> "new"]
          /\ answer = [r \in Request |-> "none"]
       \/ /\ call \in {[f EXCEPT ![r3] = Idle] : f \in [Request -> AllCalls]}
          /\ Ranked(r1, r2)
          /\ pc = [r \in Request |-> IF r = r3 THEN "done" ELSE "new"]
          /\ answer = [r \in Request |-> IF r = r3 THEN "invalid" ELSE "none"]

CallsSpec == CallsInit /\ [][Next]_vars /\ \A r \in Request : WF_vars(Step(r))
=============================================================================
