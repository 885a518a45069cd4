--------------------------- MODULE OutboxDelivery ---------------------------
(***************************************************************************)
(* What the outbox promises to the rest of the system, with no worker, no  *)
(* lease and no clock: an event that was accepted (its row was committed   *)
(* with the account) is delivered to Kafka at least once, an event is      *)
(* confirmed (published_at is set) only after it was delivered, and no     *)
(* event is forgotten.                                                     *)
(***************************************************************************)
CONSTANT Msg, Deliverable

VARIABLES accepted, arrived, confirmed

avars == <<accepted, arrived, confirmed>>

AInit == accepted = {} /\ arrived = {} /\ confirmed = {}

Accept(m) ==
    /\ accepted' = accepted \cup {m}
    /\ UNCHANGED <<arrived, confirmed>>

Arrive(m) ==
    /\ m \in accepted
    /\ arrived' = arrived \cup {m}
    /\ UNCHANGED <<accepted, confirmed>>

Confirm(m) ==
    /\ m \in arrived
    /\ confirmed' = confirmed \cup {m}
    /\ UNCHANGED <<accepted, arrived>>

ANext == \E m \in Msg : Accept(m) \/ Arrive(m) \/ Confirm(m)

ASafeSpec == AInit /\ [][ANext]_avars

\* Every deliverable event that was accepted is confirmed in the end.
AllConfirmed == \A m \in Deliverable : m \in accepted ~> m \in confirmed

ASpec == ASafeSpec /\ AllConfirmed
=============================================================================
