--------------------------- MODULE DeliveryPipeline ---------------------------
(***************************************************************************)
(* From a pull request to its DWI: the two messages a pod publishes when   *)
(* it has opened one (agent-runtime/src/poll-loop.ts), the poller that     *)
(* watches it from then on, the messages as redis-bus.ts forms them, and   *)
(* the tracker that reads them.                                            *)
(*                                                                         *)
(* The quality gate monitor is left out.  It acts on a dwiId, which no     *)
(* pr:merged of a pod carries (redis-bus.ts), and on the `result` of a     *)
(* ci:completed, which has none, so it touches no row here.                *)
(***************************************************************************)
EXTENDS DwiTracker, PrStatusPoller

ASSUME PipelineAssumption == Items \subseteq WorkItem

VARIABLES
    pod,            \* how far the pod is with a pull request
    missed,         \* the events for which updateDwiCriteria found no row
    faulty          \* has anything failed or been lost?

vars == <<dwiRecords, trackerVars, pollerVars, pod, missed, faulty>>

PodStage == {"none", "opened", "announced", "linked", "watched", "lost"}

TypeOK ==
    /\ RecordsTypeOK
    /\ TrackerTypeOK
    /\ PollerTypeOK
    /\ pod \in [Pr -> PodStage]
    /\ missed \subseteq Gates \X (WorkItem \cup {NoWorkItem})
    /\ faulty \in BOOLEAN

Init ==
    /\ RecordsInit
    /\ TrackerInit
    /\ PollerInit
    /\ pod = [pr \in Pr |-> "none"]
    /\ missed = {}
    /\ faulty = FALSE

-----------------------------------------------------------------------------
(* The pod, once the pull request is there.                                *)

Stage(pr, from, to) ==
    /\ pod[pr] = from
    /\ pod' = [pod EXCEPT ![pr] = to]

Open(pr) ==
    /\ Stage(pr, "none", "opened")
    /\ UNCHANGED pollerVars

Announce(pr) ==
    /\ Stage(pr, "opened", "announced")
    /\ wire' = wire \cup {[event |-> "workItemExists", workItem |-> ItemOf[pr]]}
    /\ UNCHANGED <<scmVars, tracked, flags, tick>>

Link(pr) ==
    /\ Stage(pr, "announced", "linked")
    /\ wire' = wire \cup {[event |-> "prLinked", workItem |-> ItemOf[pr]]}
    /\ UNCHANGED <<scmVars, tracked, flags, tick>>

Watch(pr) ==
    /\ Stage(pr, "linked", "watched")
    /\ TrackPr(pr)

PodStep(pr) == Open(pr) \/ Announce(pr) \/ Link(pr) \/ Watch(pr)

-----------------------------------------------------------------------------
(* The tracker's end of the wire.                                          *)

\* data['result'], which is undefined in a message without it.
Result(m) == IF "result" \in DOMAIN m THEN m.result ELSE "undefined"

\* What handleDwiEvent hands to updateDwiCriteria ...
TakeGate(h, m) ==
    /\ m.event # "workItemExists"
    /\ m.event = "ciPassed" => Result(m) = "succeeded"
    /\ ReceiveGate(h, m.workItem, m.event)

\* ... and those it reads and drops.
Ignore(h, m) ==
    /\ m.event = "ciPassed"
    /\ Result(m) # "succeeded"
    /\ handler[h].pc = "idle"
    /\ UNCHANGED <<dwiRecords, trackerVars>>

Deliver(h, m) ==
    /\ m \in wire
    /\ wire' = wire \ {m}
    /\ \/ m.event = "workItemExists" /\ ReceiveCreated(h, m.workItem)
       \/ TakeGate(h, m)
       \/ Ignore(h, m)
    /\ UNCHANGED <<scmVars, tracked, flags, tick>>

-----------------------------------------------------------------------------
(* What can go wrong on the way.                                           *)

LoseMessage ==
    /\ \E m \in wire : wire' = wire \ {m}
    /\ UNCHANGED <<scmVars, tracked, flags, tick, pod, dwiRecords, trackerVars>>

\* A publish of the pod's own is rejected, its message sent or not.
PodFails ==
    /\ \E pr \in Pr : \/ Stage(pr, "opened", "lost")
                      \/ Stage(pr, "announced", "lost")
                      \/ Stage(pr, "linked", "lost")
    /\ UNCHANGED <<pollerVars, dwiRecords, trackerVars>>

CheckFault ==
    /\ \E t \in Tick : CheckFails(t)
    /\ UNCHANGED <<pod, dwiRecords, trackerVars>>

PodRestart ==
    /\ PollerRestart
    /\ pod' = [pr \in Pr |-> IF pod[pr] = "none" THEN "none" ELSE "lost"]
    /\ UNCHANGED <<dwiRecords, trackerVars>>

QueryFault ==
    /\ \E h \in Handler : TrackerFault(h)
    /\ UNCHANGED <<pollerVars, pod>>

Fault ==
    /\ LoseMessage \/ PodFails \/ CheckFault \/ PodRestart \/ QueryFault
    /\ faulty' = TRUE
    /\ UNCHANGED missed

-----------------------------------------------------------------------------

\* The SCM knows of a pull request once the pod has opened it.
AtScm(pr) ==
    /\ pod[pr] # "none"
    /\ ScmStep(pr)
    /\ UNCHANGED pod

Poll(t) == StartTick(t) \/ TickStep(t)

PollerStep ==
    /\ \/ \E pr \in Pr : PodStep(pr) \/ AtScm(pr)
       \/ (\E t \in Tick : Poll(t)) /\ UNCHANGED pod
    /\ UNCHANGED <<dwiRecords, trackerVars, missed>>

Delivery ==
    /\ \E m \in wire, h \in Handler : Deliver(h, m)
    /\ UNCHANGED <<pod, missed>>

\* An activation goes on; `missed` only keeps what ReadNothing drops.
HandlerStep(h) ==
    /\ TrackerProgress(h)
    /\ missed' = IF handler[h].pc = "read" /\ RowsOf(handler[h].workItem) = {}
                 THEN missed \cup {<<handler[h].event, handler[h].workItem>>}
                 ELSE missed
    /\ UNCHANGED <<pollerVars, pod>>

Step ==
    /\ PollerStep \/ Delivery \/ \E h \in Handler : HandlerStep(h)
    /\ UNCHANGED faulty

Next == Step \/ Fault

Spec == Init /\ [][Next]_vars

(***************************************************************************)
(* Without faults.  The interval fires and awaits are answered.  A message *)
(* waits in the model only for a slot; the event loop always has one,      *)
(* hence SF.                                                               *)
(***************************************************************************)
ReliableSpec ==
    /\ Init /\ [][Step]_vars
    /\ \A t \in Tick :
          WF_vars(Poll(t) /\ UNCHANGED <<dwiRecords, trackerVars, pod, missed, faulty>>)
    /\ SF_vars(Delivery /\ UNCHANGED faulty)
    /\ \A h \in Handler : WF_vars(HandlerStep(h) /\ UNCHANGED faulty)

-----------------------------------------------------------------------------
(* Safety.                                                                 *)

PrsOf(wi) == {pr \in Pr : ItemOf[pr] = wi}

\* What must be true in the SCM when a gate is set on a row of item wi.
Evidence(wi, gate) ==
    CASE gate \in {"workItemExists", "prLinked"} ->
            \E pr \in PrsOf(wi) : pod[pr] # "none"
      [] gate = "workItemClosed" ->
            wi \in closed /\ \E pr \in PrsOf(wi) : "prMerged" \in happened[pr]
      [] OTHER ->
            \E pr \in PrsOf(wi) : gate \in happened[pr]

(***************************************************************************)
(* No gate of a DWI is set unless what it stands for has happened to a     *)
(* pull request of its work item; the last gate also needs a merge, since  *)
(* the poller asks about the work item of a merged one only.  This is what *)
(* lets billing trust messages that say nothing but their name, however    *)
(* the ticks that publish them overlap and whatever is lost.               *)
(***************************************************************************)
EvidenceIsTrue ==
    \A d \in Inserted : \A gate \in dwiRecords[d].gates :
        Evidence(dwiRecords[d].workItem, gate)

Recorded(wi, gate) ==
    \E d \in RowsOf(wi) : \/ gate \in dwiRecords[d].gates
                          \/ dwiRecords[d].status \in {"completed", "reverted"}

\* A tick, a message or an activation carries the event.
OnItsWay(wi, gate) ==
    \/ \E t \in Tick : /\ tick[t].pc = "publishing"
                       /\ tick[t].about = gate
                       /\ ItemOf[tick[t].pr] = wi
    \/ [event |-> gate, workItem |-> wi] \in wire
    \/ \E h \in Handler : /\ handler[h].pc \in {"read", "update"}
                          /\ handler[h].event = gate
                          /\ handler[h].workItem = wi

(***************************************************************************)
(* The flag the poller sets before it publishes (checkPr) is the only      *)
(* trace that an event was reported, and it is never taken back.  So, as   *)
(* long as nothing fails, a flag must stand for an event that is recorded, *)
(* on its way, or was dropped because the row was not there yet            *)
(* (updateDwiCriteria).  CI results are excepted: see CiPassedIsRecorded.  *)
(***************************************************************************)
FlagIsBacked ==
    ~faulty =>
        \A pr \in Pr : \A q \in flags[pr] \ {"ciCompleted"} :
            \/ OnItsWay(ItemOf[pr], q)
            \/ Recorded(ItemOf[pr], q)
            \/ <<q, ItemOf[pr]>> \in missed

-----------------------------------------------------------------------------
(* What the safety properties rest on, on the way from the SCM to a row.   *)

TicksAreAtEntries == \A t \in Tick : tick[t].pc # "idle" => tick[t].pr \in Pr

\* The answers the poller has had, as its flags and its ticks remember them.
PollerIsHonest ==
    /\ \A pr \in Pr : \A q \in flags[pr] \ {"ciCompleted"} : Evidence(ItemOf[pr], q)
    /\ \A t \in Tick :
          /\ tick[t].pc = "asking" /\ tick[t].about = "workItemClosed" =>
                Evidence(ItemOf[tick[t].pr], "prMerged")
          /\ tick[t].pc = "publishing" /\ tick[t].about # "ciCompleted" =>
                Evidence(ItemOf[tick[t].pr], tick[t].about)

WireIsHonest ==
    \A m \in wire : m.event # "ciPassed" => Evidence(m.workItem, m.event)

\* An activation never carries a CI result, nor gets past the second look.
HonestActivation(a) ==
    /\ a.pc \in {"budget", "insert"} => Evidence(a.workItem, "workItemExists")
    /\ a.pc \in {"read", "update"} =>
          a.event # "ciPassed" /\ Evidence(a.workItem, a.event)
    /\ a.pc = "update" => a.dwi \in RowsOf(a.workItem)
    /\ a.pc = "refetch" => a.dwi \in Inserted
    /\ a.pc \notin {"complete", "stripe"}

ActivationsAreHonest == \A h \in Handler : HonestActivation(handler[h])

RowsAreUnbilled ==
    \A d \in DwiId :
        /\ "ciPassed" \notin dwiRecords[d].gates
        /\ dwiRecords[d].status \notin {"completed", "reverted"}
        /\ ~dwiRecords[d].isBillable
        /\ stripeUsage[d] = 0

HonestInv ==
    /\ TypeOK
    /\ TicksAreAtEntries
    /\ PollerIsHonest
    /\ WireIsHonest
    /\ ActivationsAreHonest
    /\ RowsAreUnbilled
    /\ EvidenceIsTrue

-----------------------------------------------------------------------------
(***************************************************************************)
(* What docs-site/.../processes/billing-dwi-lifecycle.md says of step 3,   *)
(* "CI passes": ci:completed sets ciPassed.  It does not hold: the poller  *)
(* publishes a field `passed`, the tracker reads a field `result`.         *)
(***************************************************************************)
CiPassedIsRecorded ==
    \A wi \in Items :
        (/\ [event |-> "ciPassed", workItem |-> wi, passed |-> TRUE] \in wire
         /\ RowsOf(wi) # {})
            ~> Recorded(wi, "ciPassed")
=============================================================================
