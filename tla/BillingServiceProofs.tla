------------------------ MODULE BillingServiceProofs ------------------------
(***************************************************************************)
(* Proofs about BillingService, for any sets of rows, work items, PRs and  *)
(* activations, with faults and restarts.                                  *)
(***************************************************************************)
EXTENDS BillingService, DwiTrackerProofs

-----------------------------------------------------------------------------
(* Type correctness.                                                       *)

\* The monitor's UPDATE writes a row, too.
LEMMA RowsAreRows ==
    ASSUME NEW row \in DwiRow
    PROVE  /\ \A gate \in Gates : UpdatedRow(row, gate) \in DwiRow
           /\ CompletedRow(row) \in DwiRow
           /\ RevertedRow(row) \in DwiRow
  BY WrittenRows DEF RevertedRow, DwiRow, Status

\* The initial state has the types.
LEMMA InitType == Init => TypeOK
  BY DEF Init, RecordsInit, TrackerInit, MonitorInit, TypeOK, RecordsTypeOK,
         TrackerTypeOK, MonitorTypeOK, NoRow, DwiRow, Status, Idle,
         HandlerState, Gates, NoMerge, MergeEntry, GateIdle, GateState

\* A step of the tracker, or the failure of one of its queries, keeps the types.
LEMMA TrackerType ==
    ASSUME TypeOK, NEW h \in Handler, UNCHANGED monitorVars,
           TrackerReceive(h) \/ TrackerProgress(h) \/ TrackerFault(h)
    PROVE  TypeOK'
  BY TrackerKeepsTypes DEF TypeOK, MonitorTypeOK, monitorVars

\* A step of the monitor, or a failure in it, keeps the types.
LEMMA MonitorType ==
    ASSUME TypeOK, UNCHANGED trackerVars,
           MonitorStep \/ \E g \in GateHandler : MonitorFault(g)
    PROVE  TypeOK'
  <1> USE DEF TypeOK, RecordsTypeOK, TrackerTypeOK, MonitorTypeOK,
              trackerVars, MergeEntry, NoMerge, GateState, GateIdle, Forget
  <1>1. ASSUME NEW pr \in Pr, NEW d \in DwiId \cup {NoDwi}, HandleMerge(pr, d)
        PROVE  TypeOK'
    BY <1>1 DEF HandleMerge
  <1>2. ASSUME NEW pr \in Pr, WindowElapses(pr) PROVE TypeOK'
    BY <1>2 DEF WindowElapses
  <1>3. ASSUME NEW pr \in Pr, CleanUp(pr) \/ CiSucceeded(pr) PROVE TypeOK'
    <2>1. CASE CleanUp(pr) BY <2>1 DEF CleanUp
    <2>2. CASE CiSucceeded(pr) BY <2>2 DEF CiSucceeded
    <2> QED BY <1>3, <2>1, <2>2
  <1>4. ASSUME NEW pr \in Pr, NEW g \in GateHandler, CiFailed(g, pr)
        PROVE  TypeOK'
    BY <1>4 DEF CiFailed
  <1>5. ASSUME NEW g \in GateHandler, PublishRevertRequest(g) PROVE TypeOK'
    BY <1>5 DEF PublishRevertRequest
  <1>6. ASSUME NEW g \in GateHandler, MarkDwiReverted(g) PROVE TypeOK'
    <2>1. dwiRecords' \in [DwiId -> DwiRow]
      BY <1>6, RowsAreRows DEF MarkDwiReverted
    <2> QED BY <1>6, <2>1 DEF MarkDwiReverted
  <1>7. ASSUME NEW g \in GateHandler, ForgetMerge(g) PROVE TypeOK'
    BY <1>7 DEF ForgetMerge
  <1>8. ASSUME NEW g \in GateHandler, MonitorFault(g) PROVE TypeOK'
    BY <1>8 DEF MonitorFault
  <1> QED
    BY <1>1, <1>2, <1>3, <1>4, <1>5, <1>6, <1>7, <1>8
       DEF MonitorStep, MonitorProgress

\* Every step keeps the types, restarts included.
LEMMA NextType == TypeOK /\ [Next]_vars => TypeOK'
  <1> SUFFICES ASSUME TypeOK, [Next]_vars PROVE TypeOK'
    OBVIOUS
  <1>1. CASE Step BY <1>1, TrackerType, MonitorType DEF Step, TrackerStep
  <1>2. CASE Restart
    BY <1>2 DEF Restart, TypeOK, RecordsTypeOK, TrackerTypeOK, MonitorTypeOK,
                HandlerState, Idle, Gates, GateState, GateIdle, MergeEntry,
                NoMerge
  <1>3. CASE Fault /\ ~Restart BY <1>3, TrackerType, MonitorType DEF Fault
  <1>4. CASE UNCHANGED vars
    BY <1>4 DEF vars, trackerVars, monitorVars, TypeOK, RecordsTypeOK,
                TrackerTypeOK, MonitorTypeOK
  <1> QED BY <1>1, <1>2, <1>3, <1>4 DEF Next

\* Every variable of the billing service keeps its type.
THEOREM TypeCorrect == Spec => []TypeOK
  <1> QED BY InitType, NextType, PTL DEF Spec

-----------------------------------------------------------------------------
(***************************************************************************)
(* Safety.  None of the properties is inductive alone: that a completing   *)
(* DWI has its six gates rests on what its activation saw before its last  *)
(* await (ActivationsAreSound) and on gates never being taken back.        *)
(***************************************************************************)

\* The inductive invariant holds initially.
LEMMA InitSafety == Init => SafetyInv
  <1> SUFFICES ASSUME Init PROVE SafetyInv
    OBVIOUS
  <1> USE DEF Init, RecordsInit, TrackerInit, MonitorInit
  <1>1. TypeOK BY InitType
  <1>2. BillableOnlyWhenAllGates /\ StripeOnlyForDelivered /\ RevertIsRequested
    BY DEF BillableOnlyWhenAllGates, StripeOnlyForDelivered,
           RevertIsRequested, NoRow
  <1>3. ActivationsAreSound BY DEF ActivationsAreSound, Idle
  <1>4. MonitorIsSound BY DEF MonitorIsSound, NoMerge, GateIdle
  <1>5. AbsentIsBlank BY DEF AbsentIsBlank
  <1> QED BY <1>1, <1>2, <1>3, <1>4, <1>5 DEF SafetyInv

\* A step that leaves the rows, the usage records and the revert requests
\* alone has only the activations and the monitor to answer for.
LEMMA RowsUnchanged ==
    ASSUME SafetyInv, TypeOK', UNCHANGED <<dwiRecords, stripeUsage, revertRequests>>,
           ActivationsAreSound', MonitorIsSound'
    PROVE  SafetyInv'
  BY DEF SafetyInv, BillableOnlyWhenAllGates, StripeOnlyForDelivered,
         RevertIsRequested, AbsentIsBlank, AllCriteriaMet

\* The steps of the tracker that write nothing to the table or to Stripe.
LEMMA TrackerQuietSafety ==
    ASSUME SafetyInv, TypeOK', NEW h \in Handler, UNCHANGED monitorVars,
           \/ TrackerReceive(h)
           \/ BudgetAllows(h)
           \/ BudgetRefuses(h)
           \/ \E d \in DwiId : ReadDwi(h, d)
           \/ ReadNothing(h)
           \/ Refetch(h)
           \/ TrackerFault(h)
    PROVE  SafetyInv'
  <1> USE DEF SafetyInv, TypeOK, RecordsTypeOK, TrackerTypeOK
  <1>1. UNCHANGED <<dwiRecords, stripeUsage>>
    BY DEF TrackerReceive, ReceiveCreated, ReceiveGate, BudgetAllows,
           BudgetRefuses, ReadDwi, ReadNothing, Refetch, TrackerFault
  <1>2. MonitorIsSound' BY <1>1 DEF MonitorIsSound, monitorVars, Inserted
  <1>3. ActivationsAreSound'
    <2> USE <1>1 DEF ActivationsAreSound, Finish, Idle, HandlerState, Inserted,
                     AllCriteriaMet
    <2>0. ASSUME NEW s, handler' = [handler EXCEPT ![h] = s],
                 s.pc \in {"idle", "budget", "read"}
          PROVE  ActivationsAreSound'
      BY <2>0
    <2>1. CASE TrackerReceive(h)
      <3>1. PICK wi \in WorkItem :
               \/ ReceiveCreated(h, wi)
               \/ \E gate \in GateEvents : ReceiveGate(h, wi, gate)
        BY <2>1 DEF TrackerReceive
      <3>2. CASE ReceiveCreated(h, wi) BY <2>0, <3>2 DEF ReceiveCreated
      <3>3. ASSUME NEW gate \in GateEvents, ReceiveGate(h, wi, gate)
            PROVE  ActivationsAreSound'
        BY <2>0, <3>3 DEF ReceiveGate
      <3> QED BY <3>1, <3>2, <3>3
    <2>2. CASE BudgetAllows(h) BY <2>2 DEF BudgetAllows
    <2>3. CASE BudgetRefuses(h) BY <2>3 DEF BudgetRefuses
    <2>4. ASSUME NEW d \in DwiId, ReadDwi(h, d) PROVE ActivationsAreSound'
      <3>1. CASE dwiRecords[d].status \in {"completed", "reverted"}
        <4>1. handler' = [handler EXCEPT ![h] = Idle]
          BY <2>4, <3>1 DEF ReadDwi
        <4> QED BY <2>0, <4>1
      <3>2. CASE dwiRecords[d].status \notin {"completed", "reverted"}
        <4> DEFINE next == [handler[h] EXCEPT !.pc = "update", !.dwi = d]
        <4>1. handler' = [handler EXCEPT ![h] = next]
          BY <2>4, <3>2 DEF ReadDwi
        <4>2. next.pc = "update" /\ next.dwi = d OBVIOUS
        <4>3. d \in Inserted BY <2>4 DEF ReadDwi, RowsOf
        <4> HIDE DEF next
        <4> QED BY <4>1, <4>2, <4>3
      <3> QED BY <3>1, <3>2
    <2>5. CASE ReadNothing(h) BY <2>5 DEF ReadNothing
    <2>6. CASE Refetch(h) BY <2>6 DEF Refetch
    <2>7. CASE TrackerFault(h) BY <2>7 DEF TrackerFault
    <2> QED BY <2>1, <2>2, <2>3, <2>4, <2>5, <2>6, <2>7
  <1> QED BY <1>1, <1>2, <1>3, RowsUnchanged DEF monitorVars

\* The insert of a row: the row is blank until then, so nothing refers to it.
LEMMA InsertSafety ==
    ASSUME SafetyInv, TypeOK', NEW h \in Handler, UNCHANGED monitorVars,
           NEW d \in DwiId, InsertDwi(h, d)
    PROVE  SafetyInv'
  <1> USE DEF SafetyInv, TypeOK, RecordsTypeOK, TrackerTypeOK, InsertDwi
  <1>1. /\ dwiRecords[d] = NoRow
        /\ dwiRecords' = [dwiRecords EXCEPT ![d] = FreshRow(handler[h].workItem)]
    BY DEF AbsentIsBlank, Inserted, SetRow
  <1>2. \A x \in DwiId : x # d => dwiRecords'[x] = dwiRecords[x]
    BY <1>1
  <1>3. dwiRecords'[d] = FreshRow(handler[h].workItem) BY <1>1
  <1>4. Inserted' = Inserted \cup {d}
    BY <1>2, <1>3 DEF Inserted, FreshRow
  <1>5. BillableOnlyWhenAllGates'
    BY <1>2, <1>3 DEF BillableOnlyWhenAllGates, FreshRow, AllCriteriaMet
  <1>6. StripeOnlyForDelivered'
    BY <1>1, <1>2 DEF StripeOnlyForDelivered, AllCriteriaMet, NoRow, Gates
  <1>7. RevertIsRequested'
    BY <1>2, <1>3 DEF RevertIsRequested, FreshRow, monitorVars
  <1>8. ActivationsAreSound'
    <2>1. \A x \in Inserted : dwiRecords'[x] = dwiRecords[x]
      BY <1>1, <1>2 DEF Inserted, NoRow
    <2> QED BY <1>4, <2>1 DEF ActivationsAreSound, Finish, Idle, AllCriteriaMet
  <1>9. MonitorIsSound' BY <1>4 DEF MonitorIsSound, monitorVars
  <1>10. AbsentIsBlank' BY <1>2, <1>3 DEF AbsentIsBlank, FreshRow
  <1> QED BY <1>5, <1>6, <1>7, <1>8, <1>9, <1>10

\* The two UPDATEs of the tracker: gates only grow, so what the other
\* activations saw of the row stays true, and isBillable follows six gates.
LEMMA WriteSafety ==
    ASSUME SafetyInv, TypeOK', NEW h \in Handler, UNCHANGED monitorVars,
           UpdateCriteria(h) \/ CompleteDwi(h)
    PROVE  SafetyInv'
  <1> DEFINE d == handler[h].dwi
             row == IF UpdateCriteria(h)
                    THEN UpdatedRow(dwiRecords[d], handler[h].event)
                    ELSE CompletedRow(dwiRecords[d])
  <1> USE DEF SafetyInv, TypeOK, RecordsTypeOK, TrackerTypeOK
  <1>1. d \in DwiId /\ d \in Inserted
    BY DEF UpdateCriteria, CompleteDwi, ActivationsAreSound, Inserted
  <1>2. dwiRecords' = [dwiRecords EXCEPT ![d] = row] /\ UNCHANGED stripeUsage
    BY DEF UpdateCriteria, CompleteDwi, SetRow
  <1>3. /\ dwiRecords[d].gates \subseteq row.gates
        /\ row.gates \subseteq Gates
        /\ row.isBillable => row.gates = Gates
        /\ row.status \notin {"absent", "reverted"} \/ row.status = dwiRecords[d].status
    <2>1. CASE UpdateCriteria(h)
      <3>1. row = UpdatedRow(dwiRecords[d], handler[h].event) BY <2>1
      <3>4. handler[h].event \in Gates BY DEF HandlerState
      <3>2. /\ row.gates = dwiRecords[d].gates \cup {handler[h].event}
            /\ row.isBillable = dwiRecords[d].isBillable
            /\ row.status \in {"approved", "merged", dwiRecords[d].status}
        BY <1>1, <3>1, <3>4, UpdatedRowColumns
      <3>5. dwiRecords[d].gates \subseteq Gates BY <1>1 DEF DwiRow
      <3> HIDE DEF row
      <3> QED BY <1>1, <3>2, <3>4, <3>5
              DEF BillableOnlyWhenAllGates, AllCriteriaMet
    <2>2. CASE CompleteDwi(h)
      <3>1. ~UpdateCriteria(h) BY <2>2 DEF CompleteDwi, UpdateCriteria
      <3>2. row = CompletedRow(dwiRecords[d]) BY <3>1
      <3>3. dwiRecords[d].gates = Gates
        BY <2>2 DEF CompleteDwi, ActivationsAreSound, AllCriteriaMet
      <3> QED BY <1>1, <3>2, <3>3 DEF CompletedRow, DwiRow
    <2> QED BY <2>1, <2>2
  <1> HIDE DEF row
  <1>4. \A x \in DwiId : x # d => dwiRecords'[x] = dwiRecords[x]
    BY <1>2
  <1>5. dwiRecords'[d] = row BY <1>1, <1>2
  <1>6. Inserted' = Inserted
    BY <1>1, <1>3, <1>4, <1>5 DEF Inserted
  <1>7. BillableOnlyWhenAllGates'
    BY <1>3, <1>4, <1>5 DEF BillableOnlyWhenAllGates, AllCriteriaMet
  <1>8. \A x \in DwiId : AllCriteriaMet(dwiRecords[x]) => AllCriteriaMet(dwiRecords'[x])
    <2>1. dwiRecords[d].gates = Gates => row.gates = Gates BY <1>3
    <2> QED BY <1>4, <1>5, <2>1 DEF AllCriteriaMet
  <1>9. StripeOnlyForDelivered' BY <1>2, <1>8 DEF StripeOnlyForDelivered, AllCriteriaMet
  <1>10. RevertIsRequested'
    BY <1>1, <1>3, <1>4, <1>5 DEF RevertIsRequested, monitorVars, Inserted
  <1>11. ActivationsAreSound'
    <2>1. \A k \in Handler : k # h => handler'[k] = handler[k]
      BY DEF UpdateCriteria, CompleteDwi
    <2>2. CASE UpdateCriteria(h)
      <3>1. handler'[h].pc = "refetch" /\ handler'[h].dwi = d
        BY <2>2 DEF UpdateCriteria, HandlerState
      <3> QED BY <1>1, <1>6, <1>8, <2>1, <3>1
              DEF ActivationsAreSound, Inserted, AllCriteriaMet
    <2>3. CASE CompleteDwi(h)
      <3>1. handler'[h].pc = "stripe" /\ handler'[h].dwi = d
        BY <2>3 DEF CompleteDwi, HandlerState
      <3>2. AllCriteriaMet(dwiRecords[d])
        BY <2>3 DEF CompleteDwi, ActivationsAreSound
      <3> QED BY <1>1, <1>6, <1>8, <2>1, <3>1, <3>2
              DEF ActivationsAreSound, Inserted, AllCriteriaMet
    <2> QED BY <2>2, <2>3
  <1>12. MonitorIsSound' BY <1>6 DEF MonitorIsSound, monitorVars
  <1>13. AbsentIsBlank'
    BY <1>1, <1>3, <1>4, <1>5 DEF AbsentIsBlank, Inserted
  <1> QED BY <1>7, <1>9, <1>10, <1>11, <1>12, <1>13

\* The usage record: the activation that sends it has six gates behind it.
LEMMA ReportSafety ==
    ASSUME SafetyInv, TypeOK', NEW h \in Handler, UNCHANGED monitorVars,
           ReportUsage(h)
    PROVE  SafetyInv'
  <1> USE DEF SafetyInv, TypeOK, RecordsTypeOK, TrackerTypeOK, ReportUsage
  <1>1. AllCriteriaMet(dwiRecords[handler[h].dwi]) BY DEF ActivationsAreSound
  <1>2. StripeOnlyForDelivered'
    BY <1>1 DEF StripeOnlyForDelivered, AllCriteriaMet
  <1>3. ActivationsAreSound'
    BY DEF ActivationsAreSound, Finish, Idle, Inserted, AllCriteriaMet
  <1> QED
    BY <1>2, <1>3 DEF BillableOnlyWhenAllGates, RevertIsRequested,
       MonitorIsSound, AbsentIsBlank, AllCriteriaMet, Inserted, monitorVars

\* A step of the monitor: the row it reverts exists, was asked back, and keeps
\* its gates.
LEMMA MonitorSafety ==
    ASSUME SafetyInv, TypeOK', UNCHANGED trackerVars,
           MonitorStep \/ \E g \in GateHandler : MonitorFault(g)
    PROVE  SafetyInv'
  <1> USE DEF SafetyInv, TypeOK, RecordsTypeOK, TrackerTypeOK, MonitorTypeOK,
              trackerVars
  <1>1. ASSUME UNCHANGED <<dwiRecords, revertRequests>>, MonitorIsSound'
        PROVE  SafetyInv'
    <2>1. ActivationsAreSound'
      BY <1>1 DEF ActivationsAreSound, Inserted, AllCriteriaMet
    <2> QED BY <1>1, <2>1, RowsUnchanged
  <1>2. ASSUME NEW pr \in Pr, NEW d \in DwiId \cup {NoDwi}, HandleMerge(pr, d)
        PROVE  SafetyInv'
    BY <1>1, <1>2 DEF HandleMerge, MonitorIsSound, Inserted
  <1>3. ASSUME NEW pr \in Pr, WindowElapses(pr) PROVE SafetyInv'
    BY <1>1, <1>3 DEF WindowElapses, MonitorIsSound, Inserted, MergeEntry
  <1>4. ASSUME NEW pr \in Pr, CleanUp(pr) \/ CiSucceeded(pr) PROVE SafetyInv'
    BY <1>1, <1>4 DEF CleanUp, CiSucceeded, Forget, NoMerge, MonitorIsSound,
                      Inserted
  <1>5. ASSUME NEW pr \in Pr, NEW g \in GateHandler, CiFailed(g, pr)
        PROVE  SafetyInv'
    BY <1>1, <1>5 DEF CiFailed, MonitorIsSound, Inserted
  <1>6. ASSUME NEW g \in GateHandler, PublishRevertRequest(g) PROVE SafetyInv'
    <2> USE <1>6 DEF PublishRevertRequest
    <2>1. MonitorIsSound' BY DEF MonitorIsSound, Inserted, GateState
    <2>2. ActivationsAreSound' BY DEF ActivationsAreSound, Inserted, AllCriteriaMet
    <2> QED BY <2>1, <2>2 DEF BillableOnlyWhenAllGates, StripeOnlyForDelivered,
                              RevertIsRequested, AbsentIsBlank, AllCriteriaMet
  <1>7. ASSUME NEW g \in GateHandler, MarkDwiReverted(g) PROVE SafetyInv'
    <2> DEFINE d == gateHandler[g].dwi
    <2> USE <1>7 DEF MarkDwiReverted
    <2>1. d \in Inserted \cup {NoDwi} /\ d \in revertRequests \cup {NoDwi}
      BY DEF MonitorIsSound
    <2>2. \A x \in DwiId : x # d => dwiRecords'[x] = dwiRecords[x]
      OBVIOUS
    <2>3. d \in DwiId => dwiRecords'[d] = RevertedRow(dwiRecords[d])
      OBVIOUS
    <2>4. d \in DwiId => /\ dwiRecords'[d].gates = dwiRecords[d].gates
                         /\ dwiRecords'[d].status = "reverted"
                         /\ dwiRecords'[d].isBillable = FALSE
      BY <2>3 DEF RevertedRow, DwiRow
    <2>5. Inserted' = Inserted BY <2>1, <2>2, <2>4, RecordsAssumption DEF Inserted
    <2>6. \A x \in DwiId : dwiRecords'[x].gates = dwiRecords[x].gates
      BY <2>2, <2>4
    <2>7. BillableOnlyWhenAllGates' /\ StripeOnlyForDelivered'
      BY <2>2, <2>4, <2>6
         DEF BillableOnlyWhenAllGates, StripeOnlyForDelivered, AllCriteriaMet
    <2>8. RevertIsRequested'
      BY <2>1, <2>2, RecordsAssumption DEF RevertIsRequested
    <2>9. ActivationsAreSound'
      BY <2>5, <2>6 DEF ActivationsAreSound, AllCriteriaMet, Inserted
    <2>10. MonitorIsSound' BY <2>5 DEF MonitorIsSound, GateState
    <2>11. AbsentIsBlank'
      BY <2>2, <2>4 DEF AbsentIsBlank
    <2> QED BY <2>7, <2>8, <2>9, <2>10, <2>11
  <1>8. ASSUME NEW g \in GateHandler, ForgetMerge(g) PROVE SafetyInv'
    BY <1>1, <1>8 DEF ForgetMerge, Forget, NoMerge, GateIdle, MonitorIsSound,
                      Inserted
  <1>9. ASSUME NEW g \in GateHandler, MonitorFault(g) PROVE SafetyInv'
    BY <1>1, <1>9 DEF MonitorFault, GateIdle, MonitorIsSound, Inserted
  <1> QED
    BY <1>2, <1>3, <1>4, <1>5, <1>6, <1>7, <1>8, <1>9
       DEF MonitorStep, MonitorProgress

\* Every step keeps the inductive invariant.
LEMMA NextSafety == SafetyInv /\ [Next]_vars => SafetyInv'
  <1> SUFFICES ASSUME SafetyInv, [Next]_vars PROVE SafetyInv'
    OBVIOUS
  <1>1. TypeOK' BY NextType DEF SafetyInv
  <1>2. ASSUME NEW h \in Handler, UNCHANGED monitorVars,
               TrackerReceive(h) \/ TrackerProgress(h) \/ TrackerFault(h)
        PROVE  SafetyInv'
    BY <1>1, <1>2, TrackerQuietSafety, InsertSafety, WriteSafety, ReportSafety
       DEF TrackerProgress
  <1>3. CASE MonitorStep /\ UNCHANGED trackerVars
    BY <1>1, <1>3, MonitorSafety
  <1>4. ASSUME NEW g \in GateHandler, MonitorFault(g), UNCHANGED trackerVars
        PROVE  SafetyInv'
    BY <1>1, <1>4, MonitorSafety
  <1>5. CASE Restart
    <2>1. ActivationsAreSound' BY <1>5 DEF Restart, ActivationsAreSound, Idle
    <2>2. MonitorIsSound'
      BY <1>5 DEF Restart, MonitorIsSound, GateIdle, NoMerge
    <2> QED BY <1>1, <1>5, <2>1, <2>2, RowsUnchanged DEF Restart
  <1>6. CASE UNCHANGED vars
    <2> USE <1>6 DEF vars, trackerVars, monitorVars
    <2>1. ActivationsAreSound'
      BY DEF SafetyInv, ActivationsAreSound, Inserted, AllCriteriaMet
    <2>2. MonitorIsSound' BY DEF SafetyInv, MonitorIsSound, Inserted
    <2> QED BY <1>1, <2>1, <2>2, RowsUnchanged
  <1> QED
    BY <1>2, <1>3, <1>4, <1>5, <1>6 DEF Next, Step, Fault, TrackerStep

\* The inductive invariant holds in every reachable state.
THEOREM Safety == Spec => []SafetyInv
  <1> QED BY InitSafety, NextSafety, PTL DEF Spec

\* Through every interleaving, fault and restart, a DWI is billable only with
\* its six gates on record (what schema and documentation say of isBillable).
THEOREM BillableHasEvidence == Spec => []BillableOnlyWhenAllGates
  <1>1. SafetyInv => BillableOnlyWhenAllGates BY DEF SafetyInv
  <1> QED BY <1>1, Safety, PTL

\* Stripe is told only of DWIs with their six gates on record.
THEOREM ChargesHaveEvidence == Spec => []StripeOnlyForDelivered
  <1>1. SafetyInv => StripeOnlyForDelivered BY DEF SafetyInv
  <1> QED BY <1>1, Safety, PTL

\* No DWI is reverted without a published revert request.
THEOREM RevertsAreRequested == Spec => []RevertIsRequested
  <1>1. SafetyInv => RevertIsRequested BY DEF SafetyInv
  <1> QED BY <1>1, Safety, PTL

\* Every activation still working on a DWI works on a row that exists, and one that is to
\* complete it has seen six gates that nothing has taken back since.
THEOREM ActivationsStaySound == Spec => []ActivationsAreSound
  <1>1. SafetyInv => ActivationsAreSound BY DEF SafetyInv
  <1> QED BY <1>1, Safety, PTL

-----------------------------------------------------------------------------
(***************************************************************************)
(* Without faults: whoever adds the last gate sees all six at its re-fetch *)
(* (it reads after it writes, and gates are never taken back), so a full   *)
(* row always has an activation that will complete it.                     *)
(***************************************************************************)

\* The invariant of a run without faults holds initially.
LEMMA InitReliable == Init => ReliableInv
  <1> SUFFICES ASSUME Init PROVE ReliableInv
    OBVIOUS
  <1>1. SafetyInv BY InitSafety
  <1>2. CompletionIsOwned /\ TerminalStatusIsHonest
    BY DEF Init, RecordsInit, NoRow, CompletionIsOwned,
           TerminalStatusIsHonest, AllCriteriaMet, Gates
  <1> QED BY <1>1, <1>2 DEF ReliableInv

\* Every step that is not a fault keeps it: whoever adds the sixth gate is the
\* activation that will re-fetch, and nothing stops it there.
LEMMA StepReliable == ReliableInv /\ [Step]_vars => ReliableInv'
  <1> SUFFICES ASSUME ReliableInv, [Step]_vars PROVE ReliableInv'
    OBVIOUS
  <1> USE DEF ReliableInv
  <1>1. SafetyInv' BY NextSafety DEF Next
  <1> SUFFICES CompletionIsOwned' /\ TerminalStatusIsHonest'
    BY <1>1
  <1>2. TypeOK /\ TypeOK' BY <1>1 DEF SafetyInv
  <1> USE <1>2 DEF TypeOK, RecordsTypeOK, TrackerTypeOK
  <1>3. ASSUME UNCHANGED dwiRecords,
               \A d \in DwiId :
                  Concluding(d) /\ AllCriteriaMet(dwiRecords[d]) => Concluding(d)'
        PROVE  CompletionIsOwned' /\ TerminalStatusIsHonest'
    BY <1>3 DEF CompletionIsOwned, TerminalStatusIsHonest, AllCriteriaMet
  <1>4. ASSUME NEW h \in Handler, TrackerReceive(h) \/ TrackerProgress(h)
        PROVE  CompletionIsOwned' /\ TerminalStatusIsHonest'
    <2>1. \A k \in Handler : k # h => handler'[k] = handler[k]
      BY <1>4 DEF TrackerReceive, TrackerProgress, ReceiveCreated, ReceiveGate,
         BudgetAllows, BudgetRefuses, InsertDwi, ReadDwi, ReadNothing,
         UpdateCriteria, Refetch, CompleteDwi, ReportUsage, Finish
    <2>2. ASSUME UNCHANGED dwiRecords,
                 handler[h].pc \notin {"refetch", "complete"}
          PROVE  CompletionIsOwned' /\ TerminalStatusIsHonest'
      BY <1>3, <2>1, <2>2 DEF Concluding
    <2>3. CASE \/ TrackerReceive(h)
               \/ BudgetAllows(h) \/ BudgetRefuses(h)
               \/ \E d \in DwiId : ReadDwi(h, d)
               \/ ReadNothing(h) \/ ReportUsage(h)
      <3>1. /\ UNCHANGED dwiRecords
            /\ handler[h].pc \notin {"refetch", "complete"}
        BY <2>3 DEF TrackerReceive, ReceiveCreated, ReceiveGate, BudgetAllows,
                    BudgetRefuses, ReadDwi, ReadNothing, ReportUsage
      <3> QED BY <2>2, <3>1
    <2>4. ASSUME NEW d \in DwiId, InsertDwi(h, d)
          PROVE  CompletionIsOwned' /\ TerminalStatusIsHonest'
      <3>1. /\ dwiRecords'[d] = FreshRow(handler[h].workItem)
            /\ \A x \in DwiId : x # d => dwiRecords'[x] = dwiRecords[x]
        BY <2>4 DEF InsertDwi, SetRow
      <3>2. ~AllCriteriaMet(dwiRecords'[d])
        BY <3>1 DEF AllCriteriaMet, FreshRow, Gates
      <3>3. \A x \in DwiId : Concluding(x) => Concluding(x)'
        BY <2>1, <2>4 DEF InsertDwi, Concluding
      <3>4. CompletionIsOwned'
        BY <3>1, <3>2, <3>3 DEF CompletionIsOwned, AllCriteriaMet
      <3>5. TerminalStatusIsHonest'
        BY <3>1 DEF TerminalStatusIsHonest, FreshRow
      <3> QED BY <3>4, <3>5
    <2>5. CASE UpdateCriteria(h)
      <3> DEFINE d == handler[h].dwi
                 row == UpdatedRow(dwiRecords[d], handler[h].event)
      <3>1. d \in DwiId
        BY <2>5 DEF UpdateCriteria, SafetyInv, ActivationsAreSound, Inserted
      <3>2. /\ dwiRecords'[d] = row
            /\ \A x \in DwiId : x # d => dwiRecords'[x] = dwiRecords[x]
        BY <2>5, <3>1 DEF UpdateCriteria, SetRow
      <3>3. handler'[h].pc = "refetch" /\ handler'[h].dwi = d
        BY <2>5 DEF UpdateCriteria, HandlerState
      <3>4. \A x \in DwiId : x = d => Concluding(x)'
        BY <3>3 DEF Concluding
      <3>5. \A x \in DwiId : Concluding(x) => Concluding(x)'
        BY <2>1, <2>5 DEF UpdateCriteria, Concluding
      <3>6. handler[h].event \in Gates BY DEF HandlerState
      <3>7. /\ row.isBillable = dwiRecords[d].isBillable
            /\ row.status \in {"approved", "merged", dwiRecords[d].status}
        BY <3>1, <3>6, UpdatedRowColumns
      <3> HIDE DEF row
      <3>8. CompletionIsOwned'
        BY <3>2, <3>4, <3>5 DEF CompletionIsOwned, AllCriteriaMet
      <3>9. TerminalStatusIsHonest'
        BY <3>2, <3>7 DEF TerminalStatusIsHonest
      <3> QED BY <3>8, <3>9
    <2>6. CASE Refetch(h)
      <3>1. CASE AllCriteriaMet(dwiRecords[handler[h].dwi])
        <4>1. handler'[h].pc = "complete" /\ handler'[h].dwi = handler[h].dwi
          BY <2>6, <3>1 DEF Refetch, HandlerState
        <4> QED BY <1>3, <2>1, <2>6, <4>1 DEF Refetch, Concluding
      <3>2. CASE ~AllCriteriaMet(dwiRecords[handler[h].dwi])
        BY <1>3, <2>1, <2>6, <3>2 DEF Refetch, Concluding
      <3> QED BY <3>1, <3>2
    <2>7. CASE CompleteDwi(h)
      <3> DEFINE d == handler[h].dwi
      <3>1. d \in DwiId
        BY <2>7 DEF CompleteDwi, SafetyInv, ActivationsAreSound, Inserted
      <3>2. /\ dwiRecords'[d] = CompletedRow(dwiRecords[d])
            /\ \A x \in DwiId : x # d => dwiRecords'[x] = dwiRecords[x]
        BY <2>7, <3>1 DEF CompleteDwi, SetRow
      <3>3. dwiRecords'[d].status = "completed" /\ dwiRecords'[d].isBillable
        BY <3>1, <3>2 DEF CompletedRow, DwiRow
      <3>4. \A x \in DwiId : x # d /\ Concluding(x) => Concluding(x)'
        BY <2>1 DEF Concluding
      <3>5. CompletionIsOwned'
        BY <3>2, <3>3, <3>4 DEF CompletionIsOwned, AllCriteriaMet
      <3>6. TerminalStatusIsHonest'
        BY <3>2, <3>3 DEF TerminalStatusIsHonest
      <3> QED BY <3>5, <3>6
    <2> QED BY <1>4, <2>3, <2>4, <2>5, <2>6, <2>7 DEF TrackerProgress
  <1>5. CASE MonitorStep /\ UNCHANGED trackerVars
    <2>1. \A d \in DwiId : Concluding(d) => Concluding(d)'
      BY <1>5 DEF Concluding, trackerVars
    <2>2. ASSUME NEW g \in GateHandler, MarkDwiReverted(g)
          PROVE  CompletionIsOwned' /\ TerminalStatusIsHonest'
      <3>1. \A x \in DwiId :
               \/ dwiRecords'[x] = dwiRecords[x]
               \/ /\ dwiRecords'[x].status = "reverted"
                  /\ ~dwiRecords'[x].isBillable
        BY <2>2 DEF MarkDwiReverted, RevertedRow, DwiRow
      <3>2. CompletionIsOwned'
        BY <2>1, <3>1 DEF CompletionIsOwned, AllCriteriaMet
      <3>3. TerminalStatusIsHonest' BY <3>1 DEF TerminalStatusIsHonest
      <3> QED BY <3>2, <3>3
    <2>3. CASE UNCHANGED dwiRecords BY <1>3, <2>1, <2>3
    <2>4. UNCHANGED dwiRecords \/ \E g \in GateHandler : MarkDwiReverted(g)
      BY <1>5 DEF MonitorStep, MonitorProgress, HandleMerge, WindowElapses,
         CleanUp, CiSucceeded, CiFailed, PublishRevertRequest, ForgetMerge
    <2> QED BY <2>2, <2>3, <2>4
  <1>6. CASE UNCHANGED vars
    BY <1>3, <1>6 DEF vars, trackerVars, Concluding
  <1> QED BY <1>4, <1>5, <1>6 DEF Step, TrackerStep

\* Without faults, no DWI with its six gates on record is ever left without
\* an activation that is going to complete it.
THEOREM CompletionsAreOwned == ReliableSpec => []CompletionIsOwned
  <1>1. ReliableInv => CompletionIsOwned BY DEF ReliableInv
  <1> QED BY <1>1, InitReliable, StepReliable, PTL DEF ReliableSpec

\* Without faults, isBillable and status agree except between the two UPDATEs
\* of an activation.
THEOREM StatusesAgree == ReliableSpec => []StatusAgreesWithBilling
  <1>1. ReliableInv => StatusAgreesWithBilling
    BY DEF ReliableInv, SafetyInv, StatusAgreesWithBilling, CompletionIsOwned,
           TerminalStatusIsHonest, BillableOnlyWhenAllGates
  <1> QED BY <1>1, InitReliable, StepReliable, PTL DEF ReliableSpec

-----------------------------------------------------------------------------
(* What every step of an activation comes nearer to.                       *)

\* How many awaits may follow the one an activation is suspended at, itself included.
TrackerAwaits(pc) ==
    CASE pc = "read" -> 5 [] pc = "update" -> 4 [] pc = "refetch" -> 3
      [] pc \in {"complete", "budget"} -> 2 [] pc \in {"stripe", "insert"} -> 1
      [] pc = "idle" -> 0

MonitorAwaits(pc) ==
    CASE pc = "publish" -> 3 [] pc = "revert" -> 2 [] pc = "forget" -> 1
      [] pc = "idle" -> 0

\* The numbers, one by one.
LEMMA Awaits ==
    /\ TrackerAwaits("read") = 5 /\ TrackerAwaits("update") = 4
    /\ TrackerAwaits("refetch") = 3 /\ TrackerAwaits("complete") = 2
    /\ TrackerAwaits("budget") = 2 /\ TrackerAwaits("stripe") = 1
    /\ TrackerAwaits("insert") = 1 /\ TrackerAwaits("idle") = 0
    /\ MonitorAwaits("publish") = 3 /\ MonitorAwaits("revert") = 2
    /\ MonitorAwaits("forget") = 1 /\ MonitorAwaits("idle") = 0
  <1>1. /\ TrackerAwaits("read") = 5 /\ TrackerAwaits("update") = 4
        /\ TrackerAwaits("refetch") = 3
    BY DEF TrackerAwaits
  <1>2. TrackerAwaits("complete") = 2 /\ TrackerAwaits("budget") = 2 BY DEF TrackerAwaits
  <1>3. TrackerAwaits("stripe") = 1 /\ TrackerAwaits("insert") = 1 BY DEF TrackerAwaits
  <1>4. TrackerAwaits("idle") = 0 BY DEF TrackerAwaits
  <1>5. MonitorAwaits("publish") = 3 /\ MonitorAwaits("revert") = 2 BY DEF MonitorAwaits
  <1>6. MonitorAwaits("forget") = 1 /\ MonitorAwaits("idle") = 0 BY DEF MonitorAwaits
  <1> QED BY <1>1, <1>2, <1>3, <1>4, <1>5, <1>6

\* Whoever is still at an await has one before it.
LEMMA AwaitsOfTheBusy ==
    ASSUME TypeOK
    PROVE  /\ \A h \in Handler :
                 /\ TrackerAwaits(handler[h].pc) \in 0..5
                 /\ handler[h].pc # "idle" => TrackerAwaits(handler[h].pc) > 0
           /\ \A g \in GateHandler :
                 /\ MonitorAwaits(gateHandler[g].pc) \in 0..3
                 /\ gateHandler[g].pc # "idle" => MonitorAwaits(gateHandler[g].pc) > 0
  BY Awaits DEF TypeOK, TrackerTypeOK, MonitorTypeOK, HandlerState, GateState

\* A step of the tracker moves one activation, and on.
LEMMA TrackerGetsOn ==
    ASSUME TypeOK, NEW h \in Handler, NEW k \in Handler, handler[k].pc # "idle",
           TrackerReceive(h) \/ TrackerProgress(h) \/ TrackerFault(h),
           handler'[k] # handler[k]
    PROVE  TrackerAwaits(handler'[k].pc) < TrackerAwaits(handler[k].pc)
  <1> DEFINE GetsOn == TrackerAwaits(handler'[k].pc) < TrackerAwaits(handler[k].pc)
  <1>t. handler \in [Handler -> HandlerState] BY DEF TypeOK, TrackerTypeOK
  <1>f. ASSUME Finish(h) PROVE GetsOn
    <2>1. k = h BY <1>t, <1>f DEF Finish
    <2>2. handler'[k].pc = "idle" BY <1>t, <1>f, <2>1 DEF Finish, Idle
    <2> QED BY <2>2, Awaits, AwaitsOfTheBusy
  <1>g. ASSUME NEW next \in HandlerState, handler' = [handler EXCEPT ![h] = next],
               TrackerAwaits(next.pc) < TrackerAwaits(handler[h].pc)
        PROVE  GetsOn
    BY <1>t, <1>g
  <1> SUFFICES GetsOn
    OBVIOUS
  <1> HIDE DEF GetsOn
  <1>1. CASE TrackerReceive(h)
    <2>1. handler[h].pc = "idle" /\ \A x \in Handler \ {h} : handler'[x] = handler[x]
      BY <1>t, <1>1 DEF TrackerReceive, ReceiveCreated, ReceiveGate
    <2> QED BY <2>1
  <1>2. CASE BudgetRefuses(h) \/ ReadNothing(h) \/ TrackerFault(h) \/ ReportUsage(h)
    BY <1>f, <1>2 DEF BudgetRefuses, ReadNothing, TrackerFault, ReportUsage
  <1>3. ASSUME NEW d \in DwiId, InsertDwi(h, d) PROVE GetsOn
    BY <1>f, <1>3 DEF InsertDwi
  <1>4. CASE BudgetAllows(h)
    <2> DEFINE next == [handler[h] EXCEPT !.pc = "insert"]
    <2>1. handler[h].pc = "budget" /\ handler' = [handler EXCEPT ![h] = next]
      BY <1>4 DEF BudgetAllows
    <2>2. next \in HandlerState /\ next.pc = "insert" BY <1>t DEF HandlerState
    <2> HIDE DEF next
    <2>3. TrackerAwaits(next.pc) < TrackerAwaits(handler[h].pc) BY <2>1, <2>2, Awaits
    <2> QED BY <1>g, <2>1, <2>2, <2>3
  <1>5. ASSUME NEW d \in DwiId, ReadDwi(h, d) PROVE GetsOn
    <2> DEFINE next == [handler[h] EXCEPT !.pc = "update", !.dwi = d]
    <2>1. handler[h].pc = "read" /\ (Finish(h) \/ handler' = [handler EXCEPT ![h] = next])
      BY <1>5 DEF ReadDwi
    <2>2. next \in HandlerState /\ next.pc = "update" BY <1>t DEF HandlerState
    <2> HIDE DEF next
    <2> QED BY <1>f, <1>g, <2>1, <2>2, Awaits
  <1>6. CASE UpdateCriteria(h)
    <2> DEFINE next == [handler[h] EXCEPT !.pc = "refetch", !.event = Idle.event]
    <2>1. handler[h].pc = "update" /\ handler' = [handler EXCEPT ![h] = next]
      BY <1>6 DEF UpdateCriteria
    <2>2. next \in HandlerState /\ next.pc = "refetch" BY <1>t DEF HandlerState, Idle, Gates
    <2> HIDE DEF next
    <2>3. TrackerAwaits(next.pc) < TrackerAwaits(handler[h].pc) BY <2>1, <2>2, Awaits
    <2> QED BY <1>g, <2>1, <2>2, <2>3
  <1>7. CASE Refetch(h)
    <2> DEFINE next == [handler[h] EXCEPT !.pc = "complete"]
    <2>1. handler[h].pc = "refetch" /\ (Finish(h) \/ handler' = [handler EXCEPT ![h] = next])
      BY <1>7 DEF Refetch
    <2>2. next \in HandlerState /\ next.pc = "complete" BY <1>t DEF HandlerState
    <2> HIDE DEF next
    <2> QED BY <1>f, <1>g, <2>1, <2>2, Awaits
  <1>8. CASE CompleteDwi(h)
    <2> DEFINE next == [handler[h] EXCEPT !.pc = "stripe"]
    <2>1. handler[h].pc = "complete" /\ handler' = [handler EXCEPT ![h] = next]
      BY <1>8 DEF CompleteDwi
    <2>2. next \in HandlerState /\ next.pc = "stripe" BY <1>t DEF HandlerState
    <2> HIDE DEF next
    <2>3. TrackerAwaits(next.pc) < TrackerAwaits(handler[h].pc) BY <2>1, <2>2, Awaits
    <2> QED BY <1>g, <2>1, <2>2, <2>3
  <1> QED BY <1>1, <1>2, <1>3, <1>4, <1>5, <1>6, <1>7, <1>8 DEF TrackerProgress

\* A step of the monitor moves one activation, and on.
LEMMA MonitorGetsOn ==
    ASSUME TypeOK, MonitorStep \/ (\E g \in GateHandler : MonitorFault(g)),
           NEW k \in GateHandler, gateHandler[k].pc # "idle", gateHandler'[k] # gateHandler[k]
    PROVE  MonitorAwaits(gateHandler'[k].pc) < MonitorAwaits(gateHandler[k].pc)
  <1> DEFINE GetsOn == MonitorAwaits(gateHandler'[k].pc) < MonitorAwaits(gateHandler[k].pc)
  <1>t. gateHandler \in [GateHandler -> GateState] BY DEF TypeOK, MonitorTypeOK
  <1>f. ASSUME NEW g \in GateHandler, gateHandler' = [gateHandler EXCEPT ![g] = GateIdle]
        PROVE  GetsOn
    <2>1. k = g BY <1>t, <1>f
    <2>2. gateHandler'[k].pc = "idle" BY <1>t, <1>f, <2>1 DEF GateIdle
    <2> QED BY <2>2, Awaits, AwaitsOfTheBusy
  <1>1. ASSUME NEW pr \in Pr, NEW g \in GateHandler, CiFailed(g, pr) PROVE GetsOn
    BY <1>t, <1>1 DEF CiFailed
  <1>2. ASSUME NEW g \in GateHandler, PublishRevertRequest(g) PROVE GetsOn
    <2>1. k = g BY <1>t, <1>2 DEF PublishRevertRequest
    <2>2. gateHandler[k].pc = "publish" /\ gateHandler'[k].pc = "revert"
      BY <1>t, <1>2, <2>1 DEF PublishRevertRequest, GateState
    <2> QED BY <2>2, Awaits
  <1>3. ASSUME NEW g \in GateHandler, MarkDwiReverted(g) PROVE GetsOn
    <2>1. k = g BY <1>t, <1>3 DEF MarkDwiReverted
    <2>2. gateHandler[k].pc = "revert" /\ gateHandler'[k].pc = "forget"
      BY <1>t, <1>3, <2>1 DEF MarkDwiReverted, GateState
    <2> QED BY <2>2, Awaits
  <1>4. ASSUME NEW g \in GateHandler, ForgetMerge(g) \/ MonitorFault(g) PROVE GetsOn
    BY <1>f, <1>4 DEF ForgetMerge, MonitorFault
  <1>5. CASE UNCHANGED gateHandler BY <1>5
  <1> QED BY <1>1, <1>2, <1>3, <1>4, <1>5
    DEF MonitorStep, MonitorProgress, HandleMerge, WindowElapses, CleanUp, CiSucceeded

ActivationsFall ==
    /\ \A h \in Handler : handler[h].pc # "idle" /\ handler'[h] # handler[h]
           => TrackerAwaits(handler'[h].pc) < TrackerAwaits(handler[h].pc)
    /\ \A g \in GateHandler : gateHandler[g].pc # "idle" /\ gateHandler'[g] # gateHandler[g]
           => MonitorAwaits(gateHandler'[g].pc) < MonitorAwaits(gateHandler[g].pc)

\* An activation of the tracker has at most five awaits before it and one of the monitor
\* three, and every step of theirs leaves fewer, whatever fails, restarts or arrives for the
\* same row meanwhile: no query is made again, and a refused or broken one is not retried.
THEOREM ActivationsGetOn ==
    Spec => /\ [](/\ \A h \in Handler : TrackerAwaits(handler[h].pc) \in 0..5
                  /\ \A g \in GateHandler : MonitorAwaits(gateHandler[g].pc) \in 0..3)
            /\ [][ActivationsFall]_vars
  <1>1. TypeOK => /\ \A h \in Handler : TrackerAwaits(handler[h].pc) \in 0..5
                  /\ \A g \in GateHandler : MonitorAwaits(gateHandler[g].pc) \in 0..3
    BY AwaitsOfTheBusy
  <1>2. TypeOK /\ [Next]_vars => [ActivationsFall]_vars
    <2> SUFFICES ASSUME TypeOK, Next PROVE ActivationsFall
      OBVIOUS
    <2>1. ASSUME NEW h \in Handler, handler[h].pc # "idle", handler'[h] # handler[h]
          PROVE  TrackerAwaits(handler'[h].pc) < TrackerAwaits(handler[h].pc)
      <3>1. CASE Restart
        <4>1. handler'[h].pc = "idle" BY <3>1 DEF Restart, Idle
        <4> QED BY <2>1, <4>1, Awaits, AwaitsOfTheBusy
      <3>2. CASE \E k \in Handler : TrackerReceive(k) \/ TrackerProgress(k) \/ TrackerFault(k)
        BY <2>1, <3>2, TrackerGetsOn
      <3>3. CASE UNCHANGED trackerVars BY <2>1, <3>3 DEF trackerVars
      <3> QED BY <3>1, <3>2, <3>3 DEF Next, Step, Fault, TrackerStep
    <2>2. ASSUME NEW g \in GateHandler, gateHandler[g].pc # "idle",
                 gateHandler'[g] # gateHandler[g]
          PROVE  MonitorAwaits(gateHandler'[g].pc) < MonitorAwaits(gateHandler[g].pc)
      <3>1. CASE Restart
        <4>1. gateHandler'[g].pc = "idle" BY <3>1 DEF Restart, GateIdle
        <4> QED BY <2>2, <4>1, Awaits, AwaitsOfTheBusy
      <3>2. CASE MonitorStep \/ \E k \in GateHandler : MonitorFault(k)
        BY <2>2, <3>2, MonitorGetsOn
      <3>3. CASE UNCHANGED monitorVars BY <2>2, <3>3 DEF monitorVars
      <3> QED BY <3>1, <3>2, <3>3 DEF Next, Step, Fault
    <2> QED BY <2>1, <2>2 DEF ActivationsFall
  <1> QED BY <1>1, <1>2, TypeCorrect, PTL DEF Spec

-----------------------------------------------------------------------------
(***************************************************************************)
(* The billing service implements DwiContract: every step, a fault or a    *)
(* restart included, is a step of the contract or leaves it alone.         *)
(***************************************************************************)

\* Every step of the billing service is a step of the contract, or none.
LEMMA StepKeepsContract ==
    ASSUME SafetyInv, SafetyInv', [Next]_vars
    PROVE  [Contract!ContractNext]_(Contract!contractVars)
  <1> USE DEF SafetyInv, TypeOK, RecordsTypeOK, TrackerTypeOK
  <1> DEFINE Goal == [Contract!ContractNext]_(Contract!contractVars)
             evidence == [d \in DwiId |-> dwiRecords[d].gates]
             billable == {d \in DwiId : dwiRecords[d].isBillable}
  <1>1. ASSUME UNCHANGED <<dwiRecords, stripeUsage>> PROVE Goal
    BY <1>1 DEF Contract!contractVars
  <1>2. ASSUME NEW d \in DwiId, NEW gate \in Gates, UNCHANGED stripeUsage,
               \A x \in DwiId \ {d} : dwiRecords'[x] = dwiRecords[x],
               dwiRecords'[d].gates = dwiRecords[d].gates \cup {gate},
               dwiRecords'[d].isBillable = dwiRecords[d].isBillable
        PROVE  Goal
    <2>1. evidence' = [evidence EXCEPT ![d] = @ \cup {gate}] BY <1>2
    <2>2. billable' = billable BY <1>2
    <2> QED BY <1>2, <2>1, <2>2 DEF Contract!ContractNext, Contract!Witness
  <1>3. ASSUME NEW h \in Handler, TrackerReceive(h) \/ TrackerProgress(h)
        PROVE  Goal
    <2>1. ASSUME NEW d \in DwiId, InsertDwi(h, d) PROVE Goal
      <3>1. dwiRecords[d] = NoRow BY <2>1 DEF InsertDwi, AbsentIsBlank, Inserted
      <3>2. dwiRecords' = [dwiRecords EXCEPT ![d] = FreshRow(handler[h].workItem)]
        BY <2>1 DEF InsertDwi, SetRow
      <3>3. /\ dwiRecords'[d].gates = dwiRecords[d].gates \cup {"workItemExists"}
            /\ dwiRecords'[d].isBillable = dwiRecords[d].isBillable
        BY <3>1, <3>2 DEF NoRow, FreshRow
      <3> QED BY <1>2, <2>1, <3>2, <3>3 DEF InsertDwi, Gates
    <2>2. CASE UpdateCriteria(h)
      <3> DEFINE d == handler[h].dwi
                 row == UpdatedRow(dwiRecords[d], handler[h].event)
      <3>1. d \in DwiId
        BY <2>2 DEF UpdateCriteria, ActivationsAreSound, Inserted
      <3>2. dwiRecords' = [dwiRecords EXCEPT ![d] = row]
        BY <2>2 DEF UpdateCriteria, SetRow
      <3>3. handler[h].event \in Gates BY DEF HandlerState
      <3>4. /\ row.gates = dwiRecords[d].gates \cup {handler[h].event}
            /\ row.isBillable = dwiRecords[d].isBillable
        BY <3>1, <3>3, UpdatedRowColumns
      <3> HIDE DEF row
      <3> QED BY <1>2, <2>2, <3>1, <3>2, <3>3, <3>4 DEF UpdateCriteria
    <2>3. CASE CompleteDwi(h)
      <3> DEFINE d == handler[h].dwi
      <3>1. d \in DwiId /\ dwiRecords[d].gates = Gates
        BY <2>3 DEF CompleteDwi, ActivationsAreSound, Inserted, AllCriteriaMet
      <3>2. dwiRecords' = [dwiRecords EXCEPT ![d] = CompletedRow(dwiRecords[d])]
        BY <2>3 DEF CompleteDwi, SetRow
      <3>3. /\ dwiRecords'[d].gates = dwiRecords[d].gates
            /\ dwiRecords'[d].isBillable
        BY <3>1, <3>2 DEF CompletedRow, DwiRow
      <3>4. evidence' = evidence BY <3>1, <3>2, <3>3
      <3>5. billable' = billable \cup {d} BY <3>1, <3>2, <3>3
      <3>6. evidence[d] = Gates BY <3>1
      <3> QED BY <2>3, <3>1, <3>4, <3>5, <3>6
              DEF CompleteDwi, Contract!ContractNext, Contract!Bill,
                  Contract!Delivered
    <2>4. CASE ReportUsage(h)
      <3> DEFINE d == handler[h].dwi
      <3>1. /\ d \in DwiId
            /\ evidence[d] = Gates
        BY <2>4 DEF ReportUsage, ActivationsAreSound, Inserted, AllCriteriaMet
      <3>2. CASE UNCHANGED stripeUsage BY <1>1, <2>4, <3>2 DEF ReportUsage
      <3>3. CASE stripeUsage' = [stripeUsage EXCEPT ![d] = @ + 1]
        BY <2>4, <3>1, <3>3 DEF ReportUsage, Contract!ContractNext,
           Contract!Charge, Contract!Delivered
      <3> QED BY <2>4, <3>2, <3>3 DEF ReportUsage
    <2>5. CASE \/ TrackerReceive(h)
               \/ BudgetAllows(h) \/ BudgetRefuses(h)
               \/ \E d \in DwiId : ReadDwi(h, d)
               \/ ReadNothing(h) \/ Refetch(h)
      BY <1>1, <2>5 DEF TrackerReceive, ReceiveCreated, ReceiveGate,
         BudgetAllows, BudgetRefuses, ReadDwi, ReadNothing, Refetch
    <2> QED BY <1>3, <2>1, <2>2, <2>3, <2>4, <2>5 DEF TrackerProgress
  <1>4. CASE MonitorStep /\ UNCHANGED trackerVars
    <2>1. ASSUME NEW g \in GateHandler, MarkDwiReverted(g) PROVE Goal
      <3> DEFINE d == gateHandler[g].dwi
      <3>1. \A x \in DwiId : x # d => dwiRecords'[x] = dwiRecords[x]
        BY <2>1 DEF MarkDwiReverted
      <3>2. CASE d \in DwiId
        <4>1. /\ dwiRecords'[d].gates = dwiRecords[d].gates
              /\ dwiRecords'[d].isBillable = FALSE
          BY <2>1, <3>2 DEF MarkDwiReverted, RevertedRow, DwiRow
        <4>2. evidence' = evidence BY <3>1, <4>1
        <4>3. billable' = billable \ {d} BY <3>1, <4>1
        <4> QED BY <1>4, <3>2, <4>2, <4>3
                DEF trackerVars, Contract!ContractNext, Contract!Withdraw
      <3>3. CASE d \notin DwiId
        <4>1. evidence' = evidence BY <3>1, <3>3
        <4>2. billable' = billable BY <3>1, <3>3
        <4> QED BY <1>4, <4>1, <4>2 DEF trackerVars, Contract!contractVars
      <3> QED BY <3>2, <3>3
    <2>2. UNCHANGED dwiRecords \/ \E g \in GateHandler : MarkDwiReverted(g)
      BY <1>4 DEF MonitorStep, MonitorProgress, HandleMerge, WindowElapses,
         CleanUp, CiSucceeded, CiFailed, PublishRevertRequest, ForgetMerge
    <2> QED BY <1>1, <1>4, <2>1, <2>2 DEF trackerVars
  <1>5. CASE Fault
    BY <1>1, <1>5 DEF Fault, Restart, TrackerFault, MonitorFault, trackerVars
  <1>6. CASE UNCHANGED vars BY <1>1, <1>6 DEF vars, trackerVars
  <1> QED BY <1>3, <1>4, <1>5, <1>6 DEF Next, Step, TrackerStep

\* The billing service implements the contract.
THEOREM ContractKept == Spec => KeepsContract
  <1>1. Init => Contract!ContractInit
    BY DEF Init, RecordsInit, TrackerInit, NoRow, Contract!ContractInit
  <1>2. SafetyInv /\ SafetyInv' /\ [Next]_vars
            => [Contract!ContractNext]_(Contract!contractVars)
    BY StepKeepsContract
  <1> QED
    BY <1>1, <1>2, Safety, PTL DEF Spec, KeepsContract, Contract!ContractSpec
=============================================================================
