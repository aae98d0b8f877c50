----------------------------- MODULE BudgetProofs -----------------------------
(***************************************************************************)
(* How far concurrent creations can overrun an agent's budget, for any     *)
(* budget and any number of activations, with faults and restarts.         *)
(*                                                                         *)
(* Every activation that has passed the budget check and not inserted yet  *)
(* is a row to come.  The check passes only while the rows are fewer than  *)
(* the budget, and at that moment the rows to come are at most as many as  *)
(* there are activations; an insert turns one into the other.              *)
(***************************************************************************)
EXTENDS BillingServiceProofs, FiniteSetTheorems

Admitted == {h \in Handler : handler[h].pc = "insert"}

BudgetInv ==
    /\ IsFiniteSet(Inserted)
    /\ BudgetDwis > 0 =>
          Cardinality(Inserted) + Cardinality(Admitted) + 1
             <= BudgetDwis + Cardinality(Handler)

-----------------------------------------------------------------------------

\* The activations that passed the budget check are finitely many.
LEMMA AdmittedIsFinite ==
    /\ IsFiniteSet(Admitted)
    /\ Cardinality(Admitted) \in Nat
    /\ Cardinality(Handler) \in Nat
    /\ Cardinality(Admitted) <= Cardinality(Handler)
  BY TrackerAssumption, FS_Subset, FS_CardinalityType DEF Admitted

\* A step that admits nobody and inserts nothing keeps the bound.
LEMMA NobodyAdmitted ==
    ASSUME BudgetInv, Inserted' = Inserted, Admitted' \subseteq Admitted
    PROVE  BudgetInv'
  <1>1. Cardinality(Admitted') <= Cardinality(Admitted)
        /\ Cardinality(Admitted') \in Nat
    BY AdmittedIsFinite, FS_Subset, FS_CardinalityType
  <1>2. Cardinality(Inserted) \in Nat BY FS_CardinalityType DEF BudgetInv
  <1> QED BY <1>1, <1>2, AdmittedIsFinite, TrackerAssumption DEF BudgetInv

\* Rows come into being only by an insert, and none ever goes away.
LEMMA OnlyInsertsInsert ==
    ASSUME SafetyInv,
           \/ \E h \in Handler : \/ TrackerReceive(h) \/ TrackerFault(h)
                                 \/ BudgetAllows(h) \/ BudgetRefuses(h)
                                 \/ \E d \in DwiId : ReadDwi(h, d)
                                 \/ ReadNothing(h) \/ UpdateCriteria(h)
                                 \/ Refetch(h) \/ CompleteDwi(h) \/ ReportUsage(h)
           \/ MonitorStep \/ (\E g \in GateHandler : MonitorFault(g)) \/ Restart
    PROVE  Inserted' = Inserted
  <1> USE DEF SafetyInv, TypeOK, RecordsTypeOK
  <1>1. CASE UNCHANGED dwiRecords BY <1>1 DEF Inserted
  <1>2. ASSUME NEW h \in Handler, UpdateCriteria(h) PROVE Inserted' = Inserted
    <2> DEFINE d == handler[h].dwi
               row == UpdatedRow(dwiRecords[d], handler[h].event)
    <2>1. d \in DwiId /\ dwiRecords[d].status # "absent"
      BY <1>2 DEF UpdateCriteria, ActivationsAreSound, Inserted
    <2>2. handler[h].event \in Gates BY DEF TrackerTypeOK, HandlerState
    <2>3. row.status # "absent" BY <2>1, <2>2, UpdatedRowColumns
    <2>4. dwiRecords' = [dwiRecords EXCEPT ![d] = row]
      BY <1>2 DEF UpdateCriteria, SetRow
    <2> HIDE DEF row
    <2> QED BY <2>1, <2>3, <2>4 DEF Inserted
  <1>3. ASSUME NEW h \in Handler, CompleteDwi(h) PROVE Inserted' = Inserted
    BY <1>3 DEF CompleteDwi, CompletedRow, SetRow, ActivationsAreSound, Inserted, DwiRow
  <1>4. ASSUME NEW g \in GateHandler, MarkDwiReverted(g) PROVE Inserted' = Inserted
    BY <1>4, RecordsAssumption
      DEF MarkDwiReverted, RevertedRow, MonitorIsSound, Inserted, DwiRow
  <1> QED BY <1>1, <1>2, <1>3, <1>4
    DEF TrackerReceive, ReceiveCreated, ReceiveGate, TrackerFault, BudgetAllows,
        BudgetRefuses, ReadDwi, ReadNothing, Refetch, ReportUsage, Restart,
        MonitorStep, HandleMerge, WindowElapses, CleanUp, CiSucceeded, CiFailed,
        MonitorProgress, PublishRevertRequest, ForgetMerge, MonitorFault

\* Only the budget check admits an activation.
LEMMA OnlyTheCheckAdmits ==
    ASSUME TypeOK,
           \/ \E h \in Handler : \/ TrackerReceive(h) \/ TrackerFault(h)
                                 \/ BudgetRefuses(h)
                                 \/ \E d \in DwiId : ReadDwi(h, d)
                                 \/ ReadNothing(h) \/ UpdateCriteria(h)
                                 \/ Refetch(h) \/ CompleteDwi(h) \/ ReportUsage(h)
           \/ UNCHANGED trackerVars \/ Restart
    PROVE  Admitted' \subseteq Admitted
  <1> USE DEF TypeOK, TrackerTypeOK, Admitted
  <1>1. CASE UNCHANGED trackerVars \/ Restart BY <1>1 DEF trackerVars, Restart, Idle
  <1>2. ASSUME NEW h \in Handler, NEW state,
               handler' = [handler EXCEPT ![h] = state], state.pc # "insert"
        PROVE  Admitted' \subseteq Admitted
    BY <1>2
  <1>3. ASSUME NEW h \in Handler, Finish(h) PROVE Admitted' \subseteq Admitted
    BY <1>2, <1>3 DEF Finish, Idle
  <1>4. ASSUME NEW h \in Handler, TrackerReceive(h) PROVE Admitted' \subseteq Admitted
    <2>1. CASE \E wi \in WorkItem : ReceiveCreated(h, wi)
      BY <1>2, <2>1 DEF ReceiveCreated, Idle
    <2>2. CASE \E wi \in WorkItem : \E gate \in GateEvents : ReceiveGate(h, wi, gate)
      BY <1>2, <2>2 DEF ReceiveGate, Idle
    <2> QED BY <1>4, <2>1, <2>2 DEF TrackerReceive
  <1>5. ASSUME NEW h \in Handler, NEW d \in DwiId, ReadDwi(h, d)
        PROVE  Admitted' \subseteq Admitted
    <2> DEFINE next == [handler[h] EXCEPT !.pc = "update", !.dwi = d]
    <2>1. Finish(h) \/ handler' = [handler EXCEPT ![h] = next] BY <1>5 DEF ReadDwi
    <2>2. next.pc # "insert" BY DEF HandlerState
    <2> HIDE DEF next
    <2> QED BY <1>2, <1>3, <2>1, <2>2
  <1>6. ASSUME NEW h \in Handler, UpdateCriteria(h) PROVE Admitted' \subseteq Admitted
    <2> DEFINE next == [handler[h] EXCEPT !.pc = "refetch", !.event = Idle.event]
    <2>1. handler' = [handler EXCEPT ![h] = next] BY <1>6 DEF UpdateCriteria
    <2>2. next.pc # "insert" BY DEF HandlerState
    <2> HIDE DEF next
    <2> QED BY <1>2, <2>1, <2>2
  <1>7. ASSUME NEW h \in Handler, Refetch(h) \/ CompleteDwi(h)
        PROVE  Admitted' \subseteq Admitted
    BY <1>3, <1>7 DEF Refetch, CompleteDwi, HandlerState
  <1> QED BY <1>1, <1>3, <1>4, <1>5, <1>6, <1>7
    DEF TrackerFault, BudgetRefuses, ReadNothing, ReportUsage

\* Every step keeps the bound: the check admits only under the budget, and an
\* insert spends the admission of its activation.
LEMMA NextBudget == SafetyInv /\ BudgetInv /\ [Next]_vars => BudgetInv'
  <1> SUFFICES ASSUME SafetyInv, BudgetInv, [Next]_vars PROVE BudgetInv'
    OBVIOUS
  <1>t. TypeOK BY DEF SafetyInv
  <1>n. Cardinality(Inserted) \in Nat BY FS_CardinalityType DEF BudgetInv
  <1>1. ASSUME NEW h \in Handler, NEW d \in DwiId, InsertDwi(h, d) PROVE BudgetInv'
    <2>1. Inserted' = Inserted \cup {d} /\ d \notin Inserted
      BY <1>1, <1>t DEF InsertDwi, SetRow, FreshRow, Inserted, TypeOK, RecordsTypeOK
    <2>2. h \in Admitted /\ Admitted' = Admitted \ {h}
      BY <1>1, <1>t DEF InsertDwi, Finish, Idle, Admitted, TypeOK, TrackerTypeOK
    <2>3. IsFiniteSet(Inserted') /\ Cardinality(Inserted') = Cardinality(Inserted) + 1
      BY <2>1, FS_AddElement DEF BudgetInv
    <2>4. Cardinality(Admitted') = Cardinality(Admitted) - 1
      BY <2>2, AdmittedIsFinite, FS_RemoveElement
    <2> QED BY <1>n, <2>3, <2>4, AdmittedIsFinite, TrackerAssumption DEF BudgetInv
  <1>2. ASSUME NEW h \in Handler, BudgetAllows(h) PROVE BudgetInv'
    <2>1. Inserted' = Inserted BY <1>2, OnlyInsertsInsert
    <2>2. Admitted' \subseteq Handler BY DEF Admitted
    <2>3. Cardinality(Admitted') \in Nat /\ Cardinality(Admitted') <= Cardinality(Handler)
      BY <2>2, TrackerAssumption, FS_Subset, FS_CardinalityType
    <2>4. BudgetDwis > 0 => Cardinality(Inserted) < BudgetDwis
      BY <1>2 DEF BudgetAllows
    <2> QED BY <1>n, <2>1, <2>3, <2>4, AdmittedIsFinite, TrackerAssumption DEF BudgetInv
  <1>3. CASE UNCHANGED vars
    BY <1>3, NobodyAdmitted DEF vars, Inserted, Admitted, trackerVars
  <1>4. ASSUME NEW h \in Handler,
               \/ TrackerReceive(h) \/ TrackerFault(h) \/ BudgetRefuses(h)
               \/ \E d \in DwiId : ReadDwi(h, d)
               \/ ReadNothing(h) \/ UpdateCriteria(h)
               \/ Refetch(h) \/ CompleteDwi(h) \/ ReportUsage(h)
        PROVE  BudgetInv'
    BY <1>4, <1>t, NobodyAdmitted, OnlyInsertsInsert, OnlyTheCheckAdmits
  <1>5. ASSUME MonitorStep \/ (\E g \in GateHandler : MonitorFault(g)),
               UNCHANGED trackerVars
        PROVE  BudgetInv'
    BY <1>5, <1>t, NobodyAdmitted, OnlyInsertsInsert, OnlyTheCheckAdmits
  <1>6. CASE Restart
    BY <1>6, <1>t, NobodyAdmitted, OnlyInsertsInsert, OnlyTheCheckAdmits
  <1> QED BY <1>1, <1>2, <1>3, <1>4, <1>5, <1>6
    DEF Next, Step, Fault, TrackerStep, TrackerProgress

\* However many creations race each other between the budget check and the
\* insert, they overrun the budget by less than their number.
THEOREM OvershootBounded == Spec => []OvershootIsBounded
  <1>1. Init => BudgetInv
    <2> SUFFICES ASSUME Init PROVE BudgetInv
      OBVIOUS
    <2>1. Inserted = {}
      BY DEF Init, RecordsInit, Inserted, NoRow
    <2>2. Admitted = {} BY DEF Init, TrackerInit, Admitted, Idle
    <2> QED BY <2>1, <2>2, FS_EmptySet, AdmittedIsFinite, TrackerAssumption DEF BudgetInv
  <1>2. BudgetInv => OvershootIsBounded
    BY AdmittedIsFinite, TrackerAssumption, FS_CardinalityType
      DEF BudgetInv, OvershootIsBounded
  <1>3. Spec => []SafetyInv BY Safety
  <1> QED BY <1>1, <1>2, <1>3, NextBudget, PTL DEF Spec
=============================================================================
