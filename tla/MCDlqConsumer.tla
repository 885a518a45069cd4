---------------------------- MODULE MCDlqConsumer ----------------------------
(***************************************************************************)
(* Instances of DlqConsumer for TLC: a saver that takes a batch at once    *)
(* and one that takes messages one by one are checked in one run.          *)
(***************************************************************************)
EXTENDS DlqConsumer

VARIABLE atOnce  \* the saver of this behaviour takes batches

OneByOne == INSTANCE DlqConsumer WITH BatchSaver <- ~BatchSaver

\* The saver has nothing to do with where a session starts: the newest offset is
\* only combined with the saver of batches.
SaverInit == Init /\ atOnce \in BOOLEAN /\ (initial = "new" => atOnce = BatchSaver)

SaverNext ==
    /\ \/ atOnce = BatchSaver /\ Next
       \/ atOnce # BatchSaver /\ OneByOne!Next
    /\ UNCHANGED atOnce

\* Fairness as in FairSpec.
SaverSpec ==
    /\ SaverInit /\ [][SaverNext]_<<vars, atOnce>>
    /\ WF_vars(atOnce = BatchSaver /\ ConsumerStep)
    /\ WF_vars(atOnce # BatchSaver /\ OneByOne!ConsumerStep)
    /\ WF_vars(AutoCommit)
    /\ \A o \in Offset :
         SF_vars(\/ atOnce = BatchSaver /\ o \in SaveUnit /\ SaveSucceeds
                 \/ atOnce # BatchSaver /\ o \in OneByOne!SaveUnit /\ OneByOne!SaveSucceeds)
=============================================================================
