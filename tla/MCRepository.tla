----------------------------- MODULE MCRepository -----------------------------
(***************************************************************************)
(* TLC instances of Repository, each with the statements and the data that *)
(* one question needs: reads and writes, locks of every mode on one row,   *)
(* locked pages of several rows, advisory locks.  "topic" never changes.   *)
(* The configuration's own constants are the unions of all.                *)
(***************************************************************************)
EXTENDS Repository

VARIABLE topic

Writing == INSTANCE Repository WITH
  Vals <- {0}, Keys <- {}, LockModes <- {}, Ops <- {"read", "create", "change"}

Locking == INSTANCE Repository WITH
  Ids <- {1}, Names <- {"a"}, Keys <- {}, Ops <- {"lock", "change"},
  LockModes <- {"update", "noKeyUpdate", "share", "keyShare", "bad"}

Paging == INSTANCE Repository WITH
  Vals <- {0}, Keys <- {}, LockModes <- {""}, Ops <- {"lock", "change"}

Advising == INSTANCE Repository WITH
  Ids <- {1}, Names <- {"a"}, Vals <- {0}, LockModes <- {}, Ops <- {"create", "advisory"}

TopicInit ==
  \/ topic = "writes" /\ Writing!Init
  \/ topic = "locks" /\ Locking!Init
  \/ topic = "pages" /\ Paging!Init
  \/ topic = "advisory" /\ Advising!Init

TopicNext ==
  /\ \/ topic = "writes" /\ Writing!Next
     \/ topic = "locks" /\ Locking!Next
     \/ topic = "pages" /\ Paging!Next
     \/ topic = "advisory" /\ Advising!Next
  /\ UNCHANGED topic

TopicSpec == TopicInit /\ [][TopicNext]_<<vars, topic>>
===============================================================================
