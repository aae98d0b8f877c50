----------------------------- MODULE MCDelivery -----------------------------
(***************************************************************************)
(* Small instances of DeliveryPipeline for TLC.                            *)
(***************************************************************************)
EXTENDS DeliveryPipeline, TLC

AllEvents == Gates

\* Every pull request is for the one work item.
OneItem == [pr \in Pr |-> CHOOSE wi \in WorkItem : TRUE]

\* Each of the SCM's optional methods may be missing.
WithoutReviews == Question \ {"prApproved"}

Ticks == Permutations(Tick)
=============================================================================
