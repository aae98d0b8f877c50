----------------------------- MODULE DwiRecords -----------------------------
(***************************************************************************)
(* The dwi_records table that the billing service's two event subscribers  *)
(* share (packages/shared/src/db/schema.ts, table dwiRecords).             *)
(*                                                                         *)
(* A row is what decides whether a customer pays: the set of quality gates *)
(* it has passed (six boolean columns), its status and its isBillable      *)
(* flag.  A column that nothing below reads back (prId, tier, price,       *)
(* completedAt, durationMs) is left out; all rows belong to one tenant,    *)
(* which every query of the code filters by.                               *)
(***************************************************************************)
EXTENDS Naturals

CONSTANTS
    DwiId,          \* identifiers the database can hand out
    WorkItem,       \* work items of the tenant's SCM project
    NoDwi,          \* `undefined` where the code expects a DWI identifier
    NoWorkItem      \* the workItem of a row that has not been inserted

ASSUME RecordsAssumption ==
    /\ NoDwi \notin DwiId
    /\ NoWorkItem \notin WorkItem

VARIABLE dwiRecords

Gates == {"workItemExists", "prLinked", "ciPassed",
          "prApproved", "prMerged", "workItemClosed"}

\* pending_review and failed are in the enum, but no code sets them.
Status == {"absent", "in_progress", "approved", "merged",
           "completed", "reverted"}

DwiRow == [workItem   : WorkItem \cup {NoWorkItem},
           gates      : SUBSET Gates,
           status     : Status,
           isBillable : BOOLEAN]

NoRow == [workItem |-> NoWorkItem, gates |-> {},
          status |-> "absent", isBillable |-> FALSE]

\* The row that handleWorkItemCreated inserts.
FreshRow(wi) == [workItem |-> wi, gates |-> {"workItemExists"},
                 status |-> "in_progress", isBillable |-> FALSE]

RecordsInit == dwiRecords = [d \in DwiId |-> NoRow]

RecordsTypeOK == dwiRecords \in [DwiId -> DwiRow]

-----------------------------------------------------------------------------

Inserted == {d \in DwiId : dwiRecords[d].status # "absent"}

RowsOf(wi) == {d \in Inserted : dwiRecords[d].workItem = wi}

AllCriteriaMet(row) == row.gates = Gates
=============================================================================
