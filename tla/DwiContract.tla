----------------------------- MODULE DwiContract -----------------------------
(***************************************************************************)
(* What the billing service promises about one Delivered Work Item,        *)
(* whatever the order of its events, however many activations handle them, *)
(* and through faults and restarts: evidence is only ever added, and money *)
(* moves only on complete evidence.                                        *)
(***************************************************************************)
EXTENDS Naturals

CONSTANTS Dwi, Gates

VARIABLES
    evidence,   \* the gates on record, per DWI
    billable,   \* the DWIs an invoice would include
    charged     \* usage records accepted, per DWI

contractVars == <<evidence, billable, charged>>

Delivered(d) == evidence[d] = Gates

ContractInit ==
    /\ evidence = [d \in Dwi |-> {}]
    /\ billable = {}
    /\ charged = [d \in Dwi |-> 0]

Witness(d, gate) ==
    /\ evidence' = [evidence EXCEPT ![d] = @ \cup {gate}]
    /\ UNCHANGED <<billable, charged>>

Bill(d) ==
    /\ Delivered(d)
    /\ billable' = billable \cup {d}
    /\ UNCHANGED <<evidence, charged>>

Withdraw(d) ==
    /\ billable' = billable \ {d}
    /\ UNCHANGED <<evidence, charged>>

Charge(d) ==
    /\ Delivered(d)
    /\ charged' = [charged EXCEPT ![d] = @ + 1]
    /\ UNCHANGED <<evidence, billable>>

ContractNext ==
    \E d \in Dwi :
        \/ \E gate \in Gates : Witness(d, gate)
        \/ Bill(d)
        \/ Withdraw(d)
        \/ Charge(d)

ContractSpec == ContractInit /\ [][ContractNext]_contractVars
=============================================================================
