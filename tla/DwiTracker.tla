----------------------------- MODULE DwiTracker -----------------------------
(***************************************************************************)
(* packages/billing-service/src/dwi-tracker.ts: the subscriber that moves  *)
(* a DWI through its six gates and bills it.                               *)
(*                                                                         *)
(* Each message starts handleDwiEvent without waiting for the one before   *)
(* it (`void handleDwiEvent(...)`), so several activations are in flight   *)
(* at once and interleave at every await.  An activation is a slot in      *)
(* Handler; its pc names the await it is suspended at.  A slot is reused   *)
(* when its activation ends, so Cardinality(Handler) bounds how many are   *)
(* in flight together, not how many there are.                             *)
(*                                                                         *)
(* The publishers are the environment: any event about any work item may   *)
(* arrive at any time, any number of times (Redis pub/sub loses messages,  *)
(* and PrStatusPoller can publish one twice).                              *)
(***************************************************************************)
EXTENDS DwiRecords, FiniteSets

CONSTANTS
    Handler,        \* activations of handleDwiEvent that can be in flight
    Event,          \* the kinds of event the environment delivers
    BudgetDwis,     \* DWIs the agent's budget pays for in a day; 0: no limit
    MaxReports      \* bound on the usage records kept per DWI

VARIABLES
    handler,        \* the activation in each slot
    stripeUsage     \* usage records Stripe has accepted, per DWI

trackerVars == <<handler, stripeUsage>>

GateEvents == Gates \ {"workItemExists"}

ASSUME TrackerAssumption ==
    /\ IsFiniteSet(Handler)
    /\ Event \subseteq Gates
    /\ BudgetDwis \in Nat
    /\ MaxReports \in Nat

\* An event is named by the gate it sets: pr:linked is "prLinked" and so on;
\* "workItemExists" is dwi:work-item-created.
Idle == [pc |-> "idle", event |-> "workItemExists",
         workItem |-> NoWorkItem, dwi |-> NoDwi]

HandlerState ==
    [pc       : {"idle", "budget", "insert",
                 "read", "update", "refetch", "complete", "stripe"},
     event    : Gates,
     workItem : WorkItem \cup {NoWorkItem},
     dwi      : DwiId \cup {NoDwi}]

TrackerInit ==
    /\ handler = [h \in Handler |-> Idle]
    /\ stripeUsage = [d \in DwiId |-> 0]

TrackerTypeOK ==
    /\ handler \in [Handler -> HandlerState]
    /\ stripeUsage \in [DwiId -> Nat]

Finish(h) == handler' = [handler EXCEPT ![h] = Idle]

SetRow(d, row) == dwiRecords' = [dwiRecords EXCEPT ![d] = row]

-----------------------------------------------------------------------------
(***************************************************************************)
(* handleWorkItemCreated: estimate, check the budget, insert.  The         *)
(* estimate has a fallback for every failure and changes nothing here.     *)
(***************************************************************************)

ReceiveCreated(h, wi) ==
    /\ "workItemExists" \in Event
    /\ handler[h].pc = "idle"
    /\ handler' = [handler EXCEPT ![h] =
                     [Idle EXCEPT !.pc = "budget", !.workItem = wi]]
    /\ UNCHANGED <<dwiRecords, stripeUsage>>

\* A defect: the last unit of the budget is spent twice.
BudgetAllowsAtLimit(h) ==
    /\ handler[h].pc = "budget"
    /\ Cardinality(Inserted) <= BudgetDwis
    /\ handler' = [handler EXCEPT ![h].pc = "insert"]
    /\ UNCHANGED <<dwiRecords, stripeUsage>>

\* checkBudget sums the prices of the agent's rows of the day (one agent, one
\* day here, and every price one unit); it lets the work through only while
\* that sum is under the limit, and always when the limit is not positive.
BudgetAllows(h) ==
    /\ handler[h].pc = "budget"
    /\ BudgetDwis > 0 => Cardinality(Inserted) < BudgetDwis
    /\ handler' = [handler EXCEPT ![h].pc = "insert"]
    /\ UNCHANGED <<dwiRecords, stripeUsage>>

\* ... and may refuse below it: recorded usage costs count too, and an agent
\* without a config has no budget at all.
BudgetRefuses(h) ==
    /\ handler[h].pc = "budget"
    /\ Finish(h)
    /\ UNCHANGED <<dwiRecords, stripeUsage>>

\* Nothing makes the row unique for its work item: neither a read before the
\* insert nor a constraint of the table.
InsertDwi(h, d) ==
    /\ handler[h].pc = "insert"
    /\ d \notin Inserted
    /\ SetRow(d, FreshRow(handler[h].workItem))
    /\ Finish(h)
    /\ UNCHANGED stripeUsage

-----------------------------------------------------------------------------
(***************************************************************************)
(* updateDwiCriteria: read, update, re-fetch, complete, report.            *)
(***************************************************************************)

\* A ci:completed whose result is not 'succeeded' ends here, with no effect.
ReceiveGate(h, wi, gate) ==
    /\ gate \in Event \cap GateEvents
    /\ handler[h].pc = "idle"
    /\ handler' = [handler EXCEPT ![h] =
                     [Idle EXCEPT !.pc = "read", !.event = gate,
                                  !.workItem = wi]]
    /\ UNCHANGED <<dwiRecords, stripeUsage>>

\* The query has LIMIT 1 and no ORDER BY: with several rows, any of them.
ReadDwi(h, d) ==
    /\ handler[h].pc = "read"
    /\ d \in RowsOf(handler[h].workItem)
    /\ IF dwiRecords[d].status \in {"completed", "reverted"}
       THEN Finish(h)
       ELSE handler' = [handler EXCEPT ![h] = [@ EXCEPT !.pc = "update", !.dwi = d]]
    /\ UNCHANGED <<dwiRecords, stripeUsage>>

\* No row yet: the event is dropped with a warning, nothing retries it.
ReadNothing(h) ==
    /\ handler[h].pc = "read"
    /\ RowsOf(handler[h].workItem) = {}
    /\ Finish(h)
    /\ UNCHANGED <<dwiRecords, stripeUsage>>

\* A defect: linking a pull request starts the gates over.
UpdatedRowRestarting(row, gate) ==
    [row EXCEPT !.gates  = IF gate = "prLinked" THEN {"workItemExists", gate}
                           ELSE @ \cup {gate},
                !.status = CASE gate = "prApproved" -> "approved"
                             [] gate = "prMerged"   -> "merged"
                             [] OTHER               -> @]

\* UPDATE ... SET names only this event's column and, for an approval or a
\* merge, the status; it does not look at the status the row has by now.
UpdatedRow(row, gate) ==
    [row EXCEPT !.gates  = @ \cup {gate},
                !.status = CASE gate = "prApproved" -> "approved"
                             [] gate = "prMerged"   -> "merged"
                             [] OTHER               -> @]

\* Two defects: closing the work item is taken for the last gate, so the row
\* is reported without a second look at it, or ...
UpdateThenReport(h) ==
    LET d == handler[h].dwi IN
    /\ handler[h].pc = "update"
    /\ SetRow(d, UpdatedRow(dwiRecords[d], handler[h].event))
    /\ handler' = [handler EXCEPT ![h] =
          [@ EXCEPT !.pc = IF handler[h].event = "workItemClosed"
                           THEN "stripe" ELSE "refetch",
                    !.event = Idle.event]]
    /\ UNCHANGED stripeUsage

\* ... the row is looked at only after that gate.
UpdateThenFinish(h) ==
    LET d == handler[h].dwi IN
    /\ handler[h].pc = "update"
    /\ SetRow(d, UpdatedRow(dwiRecords[d], handler[h].event))
    /\ handler' = [handler EXCEPT ![h] =
          IF @.event = "workItemClosed"
          THEN [@ EXCEPT !.pc = "refetch", !.event = Idle.event]
          ELSE Idle]
    /\ UNCHANGED stripeUsage

UpdateCriteria(h) ==
    LET d == handler[h].dwi IN
    /\ handler[h].pc = "update"
    /\ SetRow(d, UpdatedRow(dwiRecords[d], handler[h].event))
    /\ handler' = [handler EXCEPT
                     ![h] = [@ EXCEPT !.pc = "refetch", !.event = Idle.event]]
    /\ UNCHANGED stripeUsage

\* Two defects: a closed work item is taken for a delivered one, or only a row
\* whose status says merged is.
RefetchClosed(h) ==
    /\ handler[h].pc = "refetch"
    /\ IF "workItemClosed" \in dwiRecords[handler[h].dwi].gates
       THEN handler' = [handler EXCEPT ![h].pc = "complete"]
       ELSE Finish(h)
    /\ UNCHANGED <<dwiRecords, stripeUsage>>

RefetchMerged(h) ==
    /\ handler[h].pc = "refetch"
    /\ IF /\ AllCriteriaMet(dwiRecords[handler[h].dwi])
          /\ dwiRecords[handler[h].dwi].status = "merged"
       THEN handler' = [handler EXCEPT ![h].pc = "complete"]
       ELSE Finish(h)
    /\ UNCHANGED <<dwiRecords, stripeUsage>>

Refetch(h) ==
    /\ handler[h].pc = "refetch"
    /\ IF AllCriteriaMet(dwiRecords[handler[h].dwi])
       THEN handler' = [handler EXCEPT ![h].pc = "complete"]
       ELSE Finish(h)
    /\ UNCHANGED <<dwiRecords, stripeUsage>>

\* The second UPDATE: unconditional, by primary key.
CompletedRow(row) == [row EXCEPT !.status = "completed", !.isBillable = TRUE]

CompleteDwi(h) ==
    LET d == handler[h].dwi IN
    /\ handler[h].pc = "complete"
    /\ SetRow(d, CompletedRow(dwiRecords[d]))
    /\ handler' = [handler EXCEPT ![h].pc = "stripe"]
    /\ UNCHANGED stripeUsage

\* reportToStripe swallows its own errors, and skips a tenant that has no
\* subscription: no usage record then (nor past the bound MaxReports).  The
\* dwi:completed event is published either way; nothing in src/ reads it.
ReportUsage(h) ==
    /\ handler[h].pc = "stripe"
    /\ \/ /\ stripeUsage[handler[h].dwi] < MaxReports
          /\ stripeUsage' = [stripeUsage EXCEPT ![handler[h].dwi] = @ + 1]
       \/ UNCHANGED stripeUsage
    /\ Finish(h)
    /\ UNCHANGED dwiRecords

-----------------------------------------------------------------------------

\* A query rejects: handleDwiEvent logs the error and the activation is over.
TrackerFault(h) ==
    /\ handler[h].pc \notin {"idle", "stripe"}
    /\ Finish(h)
    /\ UNCHANGED <<dwiRecords, stripeUsage>>

\* What an activation does once its message has arrived.
TrackerProgress(h) ==
    \/ BudgetAllows(h)
    \/ BudgetRefuses(h)
    \/ \E d \in DwiId : InsertDwi(h, d)
    \/ \E d \in DwiId : ReadDwi(h, d)
    \/ ReadNothing(h)
    \/ UpdateCriteria(h)
    \/ Refetch(h)
    \/ CompleteDwi(h)
    \/ ReportUsage(h)

TrackerReceive(h) ==
    \E wi \in WorkItem :
        \/ ReceiveCreated(h, wi)
        \/ \E gate \in GateEvents : ReceiveGate(h, wi, gate)

TrackerStep == \E h \in Handler : TrackerReceive(h) \/ TrackerProgress(h)
=============================================================================
