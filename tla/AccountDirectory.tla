-------------------------- MODULE AccountDirectory --------------------------
(***************************************************************************)
(* What the account tables promise to everybody who reads them: an account *)
(* appears at once with a way to log in to it and with the event that      *)
(* announces it; names are never shared; an external identity belongs to   *)
(* one account for ever.                                                   *)
(***************************************************************************)
VARIABLES
    people,     \* the accounts: records [id, login, email]
    passwords,  \* the ids that can log in with a password
    identities, \* records [provider, subject, user]
    announced   \* the events: records [user, by]

dvars == <<people, passwords, identities, announced>>

DInit ==
    /\ people = {}
    /\ passwords = {}
    /\ identities = {}
    /\ announced = {}

FreshPerson(p) ==
    \A q \in people : p.id # q.id /\ p.login # q.login /\ p.email # q.email

FreshIdentity(i) ==
    \A j \in identities : i.provider # j.provider \/ i.subject # j.subject

Announce(p) == announced' = announced \cup {[user |-> p.id, by |-> p.id]}

\* A new account that logs in with a password.
CreateWithPassword(p) ==
    /\ FreshPerson(p)
    /\ people' = people \cup {p}
    /\ passwords' = passwords \cup {p.id}
    /\ Announce(p)
    /\ UNCHANGED identities

\* A new account that logs in through an external provider.
CreateWithIdentity(p, i) ==
    /\ FreshPerson(p)
    /\ FreshIdentity(i)
    /\ i.user = p.id
    /\ people' = people \cup {p}
    /\ identities' = identities \cup {i}
    /\ Announce(p)
    /\ UNCHANGED passwords

\* An existing account gets an external identity.
Link(i) ==
    /\ FreshIdentity(i)
    /\ \E p \in people : p.id = i.user
    /\ identities' = identities \cup {i}
    /\ UNCHANGED <<people, passwords, announced>>

\* What is new is among what is there after the step.
DNext ==
    \/ \E p \in people' : CreateWithPassword(p)
    \/ \E p \in people', i \in identities' : CreateWithIdentity(p, i)
    \/ \E i \in identities' : Link(i)

DSpec == DInit /\ [][DNext]_dvars
=============================================================================
