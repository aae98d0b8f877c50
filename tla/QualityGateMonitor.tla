------------------------- MODULE QualityGateMonitor -------------------------
(***************************************************************************)
(* packages/billing-service/src/quality-gates.ts: the subscriber that      *)
(* remembers merges for the 30-minute revert window and reverts a DWI      *)
(* whose CI fails inside it.  It has its own Redis connection, so nothing  *)
(* orders what it does against the tracker's handling of the same message. *)
(*                                                                         *)
(* recentMerges is in memory, keyed by PR.  Time is abstract: an entry is  *)
(* inWindow until WindowElapses happens to it.                             *)
(***************************************************************************)
EXTENDS DwiRecords

CONSTANTS
    Pr,             \* pull requests
    NoPr,
    GateHandler,    \* activations of handleCiResult that can be in flight
    MergeCarriesDwi \* whether a pr:merged message has a dwiId field

ASSUME MonitorAssumption ==
    /\ NoPr \notin Pr
    /\ MergeCarriesDwi \in BOOLEAN

VARIABLES
    recentMerges,   \* the merge event remembered for each PR
    gateHandler,    \* the activation in each slot
    revertRequests  \* the DWIs a revert-request was published for

monitorVars == <<recentMerges, gateHandler, revertRequests>>

MergeEntry == [tracked : BOOLEAN, inWindow : BOOLEAN, dwi : DwiId \cup {NoDwi}]

NoMerge == [tracked |-> FALSE, inWindow |-> FALSE, dwi |-> NoDwi]

GateIdle == [pc |-> "idle", pr |-> NoPr, dwi |-> NoDwi]

GateState == [pc : {"idle", "publish", "revert", "forget"},
              pr : Pr \cup {NoPr}, dwi : DwiId \cup {NoDwi}]

MonitorInit ==
    /\ recentMerges = [pr \in Pr |-> NoMerge]
    /\ gateHandler = [g \in GateHandler |-> GateIdle]
    /\ revertRequests = {}

MonitorTypeOK ==
    /\ recentMerges \in [Pr -> MergeEntry]
    /\ gateHandler \in [GateHandler -> GateState]
    /\ revertRequests \subseteq DwiId

Forget(pr) == recentMerges' = [recentMerges EXCEPT ![pr] = NoMerge]

-----------------------------------------------------------------------------

\* handleMergeEvent.  The message can name a DWI only once it exists.
HandleMerge(pr, d) ==
    /\ \/ MergeCarriesDwi /\ d \in Inserted
       \/ ~MergeCarriesDwi /\ d = NoDwi
    /\ recentMerges' = [recentMerges EXCEPT
                          ![pr] = [tracked |-> TRUE, inWindow |-> TRUE, dwi |-> d]]
    /\ UNCHANGED <<dwiRecords, gateHandler, revertRequests>>

WindowElapses(pr) ==
    /\ recentMerges[pr].inWindow
    /\ recentMerges' = [recentMerges EXCEPT ![pr].inWindow = FALSE]
    /\ UNCHANGED <<dwiRecords, gateHandler, revertRequests>>

\* cleanupStaleEntries and the first branch of handleCiResult: an entry whose
\* window is over is dropped.  A 'succeeded' result drops it in any case.
CleanUp(pr) ==
    /\ recentMerges[pr].tracked
    /\ ~recentMerges[pr].inWindow
    /\ Forget(pr)
    /\ UNCHANGED <<dwiRecords, gateHandler, revertRequests>>

CiSucceeded(pr) ==
    /\ recentMerges[pr].tracked
    /\ Forget(pr)
    /\ UNCHANGED <<dwiRecords, gateHandler, revertRequests>>

\* A defect: the row is marked without the revert request before it.
CiFailedUnannounced(g, pr) ==
    /\ gateHandler[g].pc = "idle"
    /\ recentMerges[pr].inWindow
    /\ gateHandler' = [gateHandler EXCEPT ![g] =
          [pc |-> "revert", pr |-> pr, dwi |-> recentMerges[pr].dwi]]
    /\ UNCHANGED <<dwiRecords, recentMerges, revertRequests>>

\* handleCiResult, result 'failed', inside the window: three steps, each
\* after an await, on the merge event read before the first.
CiFailed(g, pr) ==
    /\ gateHandler[g].pc = "idle"
    /\ recentMerges[pr].inWindow
    /\ gateHandler' = [gateHandler EXCEPT ![g] =
          [pc |-> "publish", pr |-> pr, dwi |-> recentMerges[pr].dwi]]
    /\ UNCHANGED <<dwiRecords, recentMerges, revertRequests>>

PublishRevertRequest(g) ==
    /\ gateHandler[g].pc = "publish"
    /\ revertRequests' = revertRequests \cup ({gateHandler[g].dwi} \ {NoDwi})
    /\ gateHandler' = [gateHandler EXCEPT ![g].pc = "revert"]
    /\ UNCHANGED <<dwiRecords, recentMerges>>

\* Three defects: the price stays, the gates go with it, or the status is the
\* one the enum has for a failure, which no query knows.
RevertedRowBillable(row) == [row EXCEPT !.status = "reverted"]

RevertedRowBlank(row) == [row EXCEPT !.status = "reverted", !.isBillable = FALSE,
                                     !.gates = {}]

RevertedRowFailed(row) == [row EXCEPT !.status = "failed", !.isBillable = FALSE]

RevertedRow(row) == [row EXCEPT !.status = "reverted", !.isBillable = FALSE]

\* With no dwiId the WHERE clause compares with nothing and no row changes.
MarkDwiReverted(g) ==
    LET d == gateHandler[g].dwi IN
    /\ gateHandler[g].pc = "revert"
    /\ dwiRecords' = [x \in DwiId |->
                        IF x = d THEN RevertedRow(dwiRecords[x]) ELSE dwiRecords[x]]
    /\ gateHandler' = [gateHandler EXCEPT ![g].pc = "forget"]
    /\ UNCHANGED <<recentMerges, revertRequests>>

ForgetMerge(g) ==
    /\ gateHandler[g].pc = "forget"
    /\ Forget(gateHandler[g].pr)
    /\ gateHandler' = [gateHandler EXCEPT ![g] = GateIdle]
    /\ UNCHANGED <<dwiRecords, revertRequests>>

-----------------------------------------------------------------------------

\* The publish or the UPDATE rejects: handleMessage logs it, the entry stays.
MonitorFault(g) ==
    /\ gateHandler[g].pc \in {"publish", "revert"}
    /\ gateHandler' = [gateHandler EXCEPT ![g] = GateIdle]
    /\ UNCHANGED <<dwiRecords, recentMerges, revertRequests>>

MonitorProgress(g) ==
    \/ PublishRevertRequest(g)
    \/ MarkDwiReverted(g)
    \/ ForgetMerge(g)

MonitorStep ==
    \/ \E pr \in Pr :
          \/ \E d \in DwiId \cup {NoDwi} : HandleMerge(pr, d)
          \/ WindowElapses(pr)
          \/ CleanUp(pr)
          \/ CiSucceeded(pr)
          \/ \E g \in GateHandler : CiFailed(g, pr)
    \/ \E g \in GateHandler : MonitorProgress(g)
=============================================================================
