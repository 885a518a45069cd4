--------------------------- MODULE MCTransactions ---------------------------
(***************************************************************************)
(* Instances of TransactionManager for TLC, checked in one run: one        *)
(* goroutine with a dedicated read-only pool, statements and transaction   *)
(* options, and several that compete for the one connection of a shared    *)
(* pool.                                                                   *)
(***************************************************************************)
EXTENDS TransactionManager

VARIABLE crowd  \* several goroutines compete

Crowded == INSTANCE TransactionManager WITH
    PoolSize <- 1, DedicatedReadOnly <- FALSE, AccessModes <- {}, IsoLevels <- {},
    MaxWrites <- 0

First == CHOOSE c \in Callers : TRUE

CrowdInit == Init /\ crowd \in BOOLEAN

CrowdNext ==
    /\ \/ crowd /\ Crowded!Next
       \/ ~crowd /\ Next /\ \A c \in Callers \ {First} : stack'[c] = <<>>
    /\ UNCHANGED crowd

\* Fairness as in FairSpec.
CrowdSpec ==
    /\ CrowdInit /\ [][CrowdNext]_<<vars, crowd>>
    /\ WF_vars(\E r \in Role : IF crowd THEN Crowded!CloseReturns(r) ELSE CloseReturns(r))
    /\ \A c \in Callers :
         /\ WF_vars(IF crowd THEN Crowded!Step(c) ELSE Step(c))
         /\ SF_vars(Acquire(c))

\* Without execute inside a callback every call ends and Close returns, with a
\* single connection too; with it, the end of the context unwinds the caller.
EverybodyReturns == EveryCallEnds /\ CloseEnds /\ CancellationUnwinds
=============================================================================
