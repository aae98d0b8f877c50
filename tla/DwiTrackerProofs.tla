-------------------------- MODULE DwiTrackerProofs --------------------------
(***************************************************************************)
(* What the steps of the tracker do to a row and to the types, wherever    *)
(* the tracker is composed with something else.                            *)
(***************************************************************************)
EXTENDS DwiTracker, TLAPS

\* The rows the tracker writes are rows: what it builds from a row
\* and a gate has the row's shape.
LEMMA WrittenRows ==
    ASSUME NEW row \in DwiRow
    PROVE  /\ \A gate \in Gates : UpdatedRow(row, gate) \in DwiRow
           /\ CompletedRow(row) \in DwiRow
  <1>1. ASSUME NEW gate \in Gates PROVE UpdatedRow(row, gate) \in DwiRow
    <2>1. CASE gate = "prApproved" BY <2>1 DEF UpdatedRow, DwiRow, Status
    <2>2. CASE gate = "prMerged"   BY <2>2 DEF UpdatedRow, DwiRow, Status
    <2>3. CASE gate \notin {"prApproved", "prMerged"}
      BY <1>1, <2>3 DEF UpdatedRow, DwiRow, Status
    <2> QED BY <2>1, <2>2, <2>3
  <1>2. CompletedRow(row) \in DwiRow BY DEF CompletedRow, DwiRow, Status
  <1> QED BY <1>1, <1>2

\* The first UPDATE adds its gate, keeps the other gates and isBillable, and
\* moves the status to approved or merged if at all.
LEMMA UpdatedRowColumns ==
    ASSUME NEW row \in DwiRow, NEW gate \in Gates
    PROVE  /\ UpdatedRow(row, gate).gates = row.gates \cup {gate}
           /\ UpdatedRow(row, gate).isBillable = row.isBillable
           /\ UpdatedRow(row, gate).status \in {"approved", "merged", row.status}
  <1>1. CASE gate = "prApproved" BY <1>1 DEF UpdatedRow, DwiRow
  <1>2. CASE gate = "prMerged"   BY <1>2 DEF UpdatedRow, DwiRow
  <1>3. CASE gate \notin {"prApproved", "prMerged"}
    BY <1>3 DEF UpdatedRow, DwiRow
  <1> QED BY <1>1, <1>2, <1>3

\* A step of the tracker, or the failure of one of its queries, keeps the types.
LEMMA TrackerKeepsTypes ==
    ASSUME RecordsTypeOK, TrackerTypeOK, NEW h \in Handler,
           TrackerReceive(h) \/ TrackerProgress(h) \/ TrackerFault(h)
    PROVE  RecordsTypeOK' /\ TrackerTypeOK'
  <1> DEFINE TypesKept == RecordsTypeOK' /\ TrackerTypeOK'
  <1> USE DEF RecordsTypeOK, TrackerTypeOK, HandlerState, Idle, Finish,
              SetRow, GateEvents
  <1>1. ASSUME NEW wi \in WorkItem, ReceiveCreated(h, wi) PROVE TypesKept
    BY <1>1 DEF ReceiveCreated, Gates
  <1>2. ASSUME NEW wi \in WorkItem, NEW gate \in GateEvents,
               ReceiveGate(h, wi, gate)
        PROVE  TypesKept
    BY <1>2 DEF ReceiveGate
  <1>3. CASE BudgetAllows(h) BY <1>3 DEF BudgetAllows
  <1>4. CASE BudgetRefuses(h) BY <1>4 DEF BudgetRefuses, Gates
  <1>5. ASSUME NEW d \in DwiId, InsertDwi(h, d) PROVE TypesKept
    <2>1. FreshRow(handler[h].workItem) \in DwiRow
      BY DEF FreshRow, DwiRow, Status, Gates
    <2> QED BY <1>5, <2>1 DEF InsertDwi, Gates
  <1>6. ASSUME NEW d \in DwiId, ReadDwi(h, d) PROVE TypesKept
    <2>1. CASE dwiRecords[d].status \in {"completed", "reverted"}
      BY <1>6, <2>1 DEF ReadDwi, Gates
    <2>2. CASE dwiRecords[d].status \notin {"completed", "reverted"}
      <3> DEFINE next == [handler[h] EXCEPT !.pc = "update", !.dwi = d]
      <3>1. handler' = [handler EXCEPT ![h] = next]
        BY <1>6, <2>2 DEF ReadDwi
      <3>2. next \in HandlerState OBVIOUS
      <3> QED BY <1>6, <3>1, <3>2 DEF ReadDwi
    <2> QED BY <2>1, <2>2
  <1>7. CASE ReadNothing(h) BY <1>7 DEF ReadNothing, Gates
  <1>8. CASE UpdateCriteria(h)
    <2>1. dwiRecords' \in [DwiId -> DwiRow]
      BY <1>8, WrittenRows DEF UpdateCriteria
    <2>2. handler' \in [Handler -> HandlerState]
      BY <1>8 DEF UpdateCriteria, Gates
    <2> QED BY <1>8, <2>1, <2>2 DEF UpdateCriteria
  <1>9. CASE Refetch(h) BY <1>9 DEF Refetch, Gates
  <1>10. CASE CompleteDwi(h)
    <2>1. dwiRecords' \in [DwiId -> DwiRow]
      BY <1>10, WrittenRows DEF CompleteDwi
    <2> QED BY <1>10, <2>1 DEF CompleteDwi
  <1>11. CASE ReportUsage(h) BY <1>11 DEF ReportUsage, Gates
  <1>12. CASE TrackerFault(h) BY <1>12 DEF TrackerFault, Gates
  <1> QED
    BY <1>1, <1>2, <1>3, <1>4, <1>5, <1>6, <1>7, <1>8, <1>9, <1>10, <1>11,
       <1>12 DEF TrackerReceive, TrackerProgress
=============================================================================
