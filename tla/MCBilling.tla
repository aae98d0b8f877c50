------------------------------ MODULE MCBilling ------------------------------
(***************************************************************************)
(* Small instances of BillingService for TLC.                              *)
(***************************************************************************)
EXTENDS BillingService, TLC

AllEvents == Gates

OnlyCreations == {"workItemExists"}

\* Activations and rows are interchangeable in the safety runs.
Interchangeable == Permutations(Handler) \cup Permutations(DwiId)
=============================================================================
