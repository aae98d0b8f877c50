---------------------------- MODULE BillingService ----------------------------
(***************************************************************************)
(* The billing-service process: DwiTracker and QualityGateMonitor over one *)
(* dwi_records table, with query failures and restarts of the process.     *)
(***************************************************************************)
EXTENDS DwiTracker, QualityGateMonitor

vars == <<dwiRecords, trackerVars, monitorVars>>

Init == RecordsInit /\ TrackerInit /\ MonitorInit

\* start(): the tables survive a restart; every activation in flight and the
\* remembered merges do not, and no step re-reads unfinished rows.
Restart ==
    /\ handler' = [h \in Handler |-> Idle]
    /\ gateHandler' = [g \in GateHandler |-> GateIdle]
    /\ recentMerges' = [pr \in Pr |-> NoMerge]
    /\ UNCHANGED <<dwiRecords, stripeUsage, revertRequests>>

Step ==
    \/ TrackerStep /\ UNCHANGED monitorVars
    \/ MonitorStep /\ UNCHANGED trackerVars

Fault ==
    \/ \E h \in Handler : TrackerFault(h) /\ UNCHANGED monitorVars
    \/ \E g \in GateHandler : MonitorFault(g) /\ UNCHANGED trackerVars
    \/ Restart

Next == Step \/ Fault

Spec == Init /\ [][Next]_vars

\* The event loop resumes every activation whose query has answered, and in
\* a run without faults every query answers.
Fairness ==
    /\ \A h \in Handler : WF_vars(TrackerProgress(h) /\ UNCHANGED monitorVars)
    /\ \A g \in GateHandler : WF_vars(MonitorProgress(g) /\ UNCHANGED trackerVars)

ReliableSpec == Init /\ [][Step]_vars /\ Fairness

-----------------------------------------------------------------------------
(* Safety, with faults and restarts.                                       *)

TypeOK == RecordsTypeOK /\ TrackerTypeOK /\ MonitorTypeOK

\* A DWI is billable only when all six gates are on its row, although the
\* activation that completes it decides on a row it fetched earlier
\* (updateDwiCriteria, dwi-tracker.ts:320-349).
BillableOnlyWhenAllGates ==
    \A d \in DwiId : dwiRecords[d].isBillable => AllCriteriaMet(dwiRecords[d])

\* Stripe gets a usage record only for a DWI whose six gates are on record.
StripeOnlyForDelivered ==
    \A d \in DwiId : stripeUsage[d] > 0 => AllCriteriaMet(dwiRecords[d])

\* No DWI loses its price without the agent having been asked to take the
\* code back: handleCiResult publishes the revert request before it marks
\* the row, and a failed publish stops it there.
RevertIsRequested ==
    \A d \in DwiId : dwiRecords[d].status = "reverted" => d \in revertRequests

\* An activation acts on what an earlier await told it: the row it chose is
\* still there, and one that is about to bill or to charge still has all six
\* gates behind it, whatever ran in between.
ActivationsAreSound ==
    \A h \in Handler :
        /\ handler[h].pc \in {"update", "refetch", "complete", "stripe"}
             => handler[h].dwi \in Inserted
        /\ handler[h].pc \in {"complete", "stripe"}
             => AllCriteriaMet(dwiRecords[handler[h].dwi])

\* The monitor reverts only rows that exist, and only after its request.
MonitorIsSound ==
    /\ \A pr \in Pr : recentMerges[pr].dwi \in Inserted \cup {NoDwi}
    /\ \A g \in GateHandler :
          /\ gateHandler[g].dwi \in Inserted \cup {NoDwi}
          /\ gateHandler[g].pc \in {"revert", "forget"}
               => gateHandler[g].dwi \in revertRequests \cup {NoDwi}

\* A row that was never inserted is blank.
AbsentIsBlank ==
    \A d \in DwiId : dwiRecords[d].status = "absent" => dwiRecords[d] = NoRow

\* The inductive invariant behind the properties above.
SafetyInv ==
    /\ TypeOK
    /\ BillableOnlyWhenAllGates
    /\ StripeOnlyForDelivered
    /\ RevertIsRequested
    /\ ActivationsAreSound
    /\ MonitorIsSound
    /\ AbsentIsBlank

\* Concurrent creations can each pass the budget check before either inserts,
\* but only by as many DWIs as there are other activations in flight.
OvershootIsBounded ==
    BudgetDwis > 0 => Cardinality(Inserted) + 1 <= BudgetDwis + Cardinality(Handler)

\* The billing service keeps the contract, under this mapping of its rows.
Contract == INSTANCE DwiContract WITH
    Dwi      <- DwiId,
    evidence <- [d \in DwiId |-> dwiRecords[d].gates],
    billable <- {d \in DwiId : dwiRecords[d].isBillable},
    charged  <- stripeUsage

KeepsContract == Contract!ContractSpec

-----------------------------------------------------------------------------
(* Without faults.                                                         *)

Concluding(d) ==
    \E h \in Handler : handler[h].dwi = d /\ handler[h].pc \in {"refetch", "complete"}

\* A row with all six gates is completed, or reverted, or some activation is
\* still going to complete it: of two activations that add the last two gates
\* concurrently, at least one sees both when it re-fetches.
CompletionIsOwned ==
    \A d \in DwiId :
        AllCriteriaMet(dwiRecords[d]) =>
            \/ dwiRecords[d].status \in {"completed", "reverted"}
            \/ Concluding(d)

\* The invoice query reads isBillable and the dashboard reads status: they
\* agree whenever no activation is between its two UPDATEs of the row.
StatusAgreesWithBilling ==
    \A d \in DwiId :
        ~Concluding(d) =>
            (dwiRecords[d].isBillable <=> dwiRecords[d].status = "completed")

\* The two terminal statuses tell the truth about billing.
TerminalStatusIsHonest ==
    \A d \in DwiId :
        /\ dwiRecords[d].status = "completed" => dwiRecords[d].isBillable
        /\ dwiRecords[d].status = "reverted"  => ~dwiRecords[d].isBillable

\* The inductive invariant of a run without faults.
ReliableInv == SafetyInv /\ CompletionIsOwned /\ TerminalStatusIsHonest

\* A DWI whose six gates have been recorded is eventually billed or reverted.
DeliveredIsSettled ==
    \A d \in DwiId :
        AllCriteriaMet(dwiRecords[d])
            ~> dwiRecords[d].status \in {"completed", "reverted"}

-----------------------------------------------------------------------------
(* Statements of the documentation that the concurrent service refutes.    *)

\* "Customers pay per Delivered Work Item"
\* (docs-site/versioned_docs/version-1.1.0/processes/billing-dwi-lifecycle.md:10):
\* one usage record per DWI.
ChargedOnce == \A d \in DwiId : stripeUsage[d] <= 1

\* "Reverted DWIs are NOT billable" (quality-gates.ts:202): once reverted,
\* never billable.
RevertedStaysUnbillable ==
    \A d \in DwiId : [](dwiRecords[d].status = "reverted" => []~dwiRecords[d].isBillable)
=============================================================================
