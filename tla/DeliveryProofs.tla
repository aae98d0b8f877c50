--------------------------- MODULE DeliveryProofs ---------------------------
(***************************************************************************)
(* Proofs about DeliveryPipeline, for any pull requests, work items, rows, *)
(* overlapping ticks and activations, with every fault.                    *)
(***************************************************************************)
EXTENDS DeliveryPipeline, DwiTrackerProofs

WellTyped == TypeOK /\ TicksAreAtEntries

-----------------------------------------------------------------------------
(* The ticks.                                                              *)

\* Where a tick can be once it asks a question: at an entry, and about the
\* work item only if the entry is flagged as merged.
Asking(state) ==
    /\ state.pc = "asking"
    /\ state.pr \in Pr
    /\ state.about \in Question
    /\ state.about = "workItemClosed" => "prMerged" \in flags[state.pr]

\* A tick that asks, asks what is due.
LEMMA AskAsks ==
    ASSUME PollerTypeOK, NEW t \in Tick, NEW pr \in Pr, NEW rank,
           NEW visited \in SUBSET Pr, Ask(t, pr, rank, visited)
    PROVE  \E state \in TickState :
              Asking(state) /\ tick' = [tick EXCEPT ![t] = state]
  <1>1. PICK q \in Due(pr, rank) :
           tick' = [tick EXCEPT ![t] = [pc |-> "asking", pr |-> pr, about |-> q,
                                        passed |-> FALSE, visited |-> visited \cup {pr}]]
    BY DEF Ask
  <1> DEFINE state == [pc |-> "asking", pr |-> pr, about |-> q,
                       passed |-> FALSE, visited |-> visited \cup {pr}]
  <1>2. q \in Question /\ (q = "workItemClosed" => "prMerged" \in flags[pr])
    BY PollerAssumption DEF Due
  <1>3. state \in TickState BY <1>2 DEF TickState
  <1>4. Asking(state) BY <1>2 DEF Asking
  <1> QED BY <1>1, <1>3, <1>4

\* From an entry to the next, a tick asks or ends.
LEMMA NextEntryMoves ==
    ASSUME PollerTypeOK, NEW t \in Tick, NEW visited \in SUBSET Pr,
           NEW leaving \in SUBSET Pr, NextEntry(t, visited, leaving)
    PROVE  /\ tracked' \subseteq tracked
           /\ \E state \in TickState : /\ Asking(state) \/ state = NoTick
                                       /\ tick' = [tick EXCEPT ![t] = state]
  <1> DEFINE ahead == tracked \ visited
             quiet == {pr \in ahead : Due(pr, 0) = {}}
  <1>1. CASE \E pr \in ahead \ quiet, past \in SUBSET quiet :
                /\ Ask(t, pr, 0, visited \cup past)
                /\ Forget(leaving \cup past)
    <2>1. PICK pr \in ahead \ quiet, past \in SUBSET quiet :
             Ask(t, pr, 0, visited \cup past) /\ Forget(leaving \cup past)
      BY <1>1
    <2>2. pr \in Pr /\ visited \cup past \in SUBSET Pr BY DEF PollerTypeOK
    <2>3. \E state \in TickState :
             Asking(state) /\ tick' = [tick EXCEPT ![t] = state]
      BY <2>1, <2>2, AskAsks
    <2> QED BY <2>1, <2>3 DEF Forget
  <1>2. CASE /\ tick' = [tick EXCEPT ![t] = NoTick]
             /\ Forget(leaving \cup quiet)
    BY <1>2 DEF Forget, NoTick, TickState, Question
  <1> QED BY <1>1, <1>2 DEF NextEntry

\* So does a tick that goes on after an await.
LEMMA GoOnMoves ==
    ASSUME PollerTypeOK, TicksAreAtEntries, NEW t \in Tick,
           tick[t].pc # "idle", GoOn(t)
    PROVE  /\ tracked' \subseteq tracked
           /\ \E state \in TickState : /\ Asking(state) \/ state = NoTick
                                       /\ tick' = [tick EXCEPT ![t] = state]
  <1>1. tick[t].pr \in Pr /\ tick[t].visited \in SUBSET Pr
    BY DEF TicksAreAtEntries, PollerTypeOK, TickState
  <1>2. CASE /\ Ask(t, tick[t].pr, Rank[tick[t].about], tick[t].visited)
             /\ UNCHANGED tracked
    BY <1>1, <1>2, AskAsks
  <1>3. CASE NextEntry(t, tick[t].visited, {tick[t].pr})
    BY <1>1, <1>3, NextEntryMoves
  <1> QED BY <1>2, <1>3 DEF GoOn

\* What a step of a tick, or its failure, changes: its own state, perhaps a
\* flag, and perhaps the wire.
LEMMA PollMoves ==
    ASSUME PollerTypeOK, TicksAreAtEntries, NEW t \in Tick, Poll(t) \/ CheckFails(t)
    PROVE  /\ UNCHANGED scmVars
           /\ tracked' \subseteq tracked
           /\ \/ /\ UNCHANGED flags
                 /\ wire' = wire \/ (Publish(t) /\ wire' = wire \cup {MessageOf(t)})
                 /\ \E state \in TickState : /\ Asking(state) \/ state = NoTick
                                             /\ tick' = [tick EXCEPT ![t] = state]
              \/ AnswerYes(t)
  <1>1. CASE StartTick(t)
    <2>1. NextEntry(t, {}, {}) BY <1>1 DEF StartTick
    <2> QED BY <1>1, <2>1, NextEntryMoves DEF StartTick
  <1>2. CASE AnswerYes(t) BY <1>2 DEF AnswerYes
  <1>3. CASE AnswerNo(t) BY <1>3, GoOnMoves DEF AnswerNo
  <1>4. CASE Publish(t) BY <1>4, GoOnMoves DEF Publish
  <1>5. CASE CheckFails(t)
    <2>1. NextEntry(t, tick[t].visited, {}) BY <1>5 DEF CheckFails
    <2>2. tick[t].visited \in SUBSET Pr BY DEF PollerTypeOK, TickState
    <2> QED BY <1>5, <2>1, <2>2, NextEntryMoves DEF CheckFails
  <1> QED BY <1>1, <1>2, <1>3, <1>4, <1>5 DEF Poll, TickStep

\* The answer yes: the flag is set and the tick has a message to publish.
LEMMA YesMoves ==
    ASSUME PollerTypeOK, TicksAreAtEntries, NEW t \in Tick, AnswerYes(t)
    PROVE  \E state \in TickState :
              /\ tick[t].pc = "asking"
              /\ Holds(tick[t].pr, tick[t].about)
              /\ state.pc = "publishing"
              /\ state.pr = tick[t].pr
              /\ state.about = tick[t].about
              /\ tick[t].pr \in Pr
              /\ tick[t].about \in Question
              /\ tick' = [tick EXCEPT ![t] = state]
              /\ flags' = [flags EXCEPT ![tick[t].pr] = @ \cup {tick[t].about}]
              /\ UNCHANGED <<scmVars, tracked, wire>>
  <1> DEFINE passed == tick[t].about = "ciCompleted" /\ ci[tick[t].pr] = "success"
             state == [tick[t] EXCEPT !.pc = "publishing", !.passed = passed]
  <1>1. tick[t] \in TickState /\ tick[t].pc # "idle" /\ tick[t].pr \in Pr
    BY DEF PollerTypeOK, AnswerYes, TicksAreAtEntries
  <1>2. passed \in BOOLEAN OBVIOUS
  <1>3. tick' = [tick EXCEPT ![t] = state] BY DEF AnswerYes
  <1> HIDE DEF passed
  <1>4. /\ state \in TickState
        /\ state.pc = "publishing"
        /\ state.pr = tick[t].pr
        /\ state.about = tick[t].about
    BY <1>1, <1>2 DEF TickState
  <1>5. tick[t].about \in Question BY <1>1 DEF TickState
  <1>6. /\ tick[t].pc = "asking"
        /\ Holds(tick[t].pr, tick[t].about)
        /\ flags' = [flags EXCEPT ![tick[t].pr] = @ \cup {tick[t].about}]
        /\ UNCHANGED <<scmVars, tracked, wire>>
    BY DEF AnswerYes
  <1> HIDE DEF state
  <1> QED BY <1>1, <1>3, <1>4, <1>5, <1>6

\* What a tick publishes is a message.
LEMMA MessagesAreMessages ==
    ASSUME PollerTypeOK, TicksAreAtEntries, NEW t \in Tick,
           tick[t].pc = "publishing"
    PROVE  MessageOf(t) \in Message
  <1>1. tick[t].pr \in Pr /\ tick[t].about \in Question /\ tick[t].passed \in BOOLEAN
    BY DEF PollerTypeOK, TicksAreAtEntries, TickState
  <1>2. ItemOf[tick[t].pr] \in Items BY <1>1 DEF Items
  <1>3. CASE tick[t].about = "ciCompleted"
    BY <1>1, <1>2, <1>3 DEF MessageOf, Message
  <1>4. CASE tick[t].about # "ciCompleted"
    BY <1>1, <1>2, <1>4 DEF MessageOf, Message, Question
  <1> QED BY <1>3, <1>4

-----------------------------------------------------------------------------
(* Type correctness.                                                       *)

PollerTypes == PollerTypeOK /\ TicksAreAtEntries

\* A step of a tick, or its failure, keeps the types.
LEMMA PollTypes ==
    ASSUME PollerTypes, NEW t \in Tick, Poll(t) \/ CheckFails(t)
    PROVE  PollerTypes'
  <1> USE DEF PollerTypes, PollerTypeOK, TicksAreAtEntries
  <1>1. UNCHANGED scmVars /\ tracked' \subseteq Pr BY PollMoves
  <1>2. CASE AnswerYes(t)
    BY <1>1, <1>2, YesMoves DEF scmVars
  <1>3. CASE /\ UNCHANGED flags
             /\ wire' = wire \/ (Publish(t) /\ wire' = wire \cup {MessageOf(t)})
             /\ \E state \in TickState : /\ Asking(state) \/ state = NoTick
                                         /\ tick' = [tick EXCEPT ![t] = state]
    <2>1. wire' \subseteq Message
      BY <1>3, MessagesAreMessages DEF Publish
    <2>2. PICK state \in TickState : /\ Asking(state) \/ state = NoTick
                                     /\ tick' = [tick EXCEPT ![t] = state]
      BY <1>3
    <2>3. tick' \in [Tick -> TickState] BY <2>2
    <2>4. TicksAreAtEntries' BY <2>2 DEF Asking, NoTick
    <2> QED BY <1>1, <1>3, <2>1, <2>3, <2>4 DEF scmVars
  <1> QED BY <1>2, <1>3, PollMoves

\* So do the pod, the SCM and a restart of the pod.
LEMMA OtherPollerTypes ==
    ASSUME PollerTypes, NEW pr \in Pr, PodStep(pr) \/ ScmStep(pr) \/ PollerRestart
    PROVE  PollerTypes'
  <1> USE DEF PollerTypes, PollerTypeOK, TicksAreAtEntries, scmVars
  <1>0. ItemOf[pr] \in Items BY DEF Items
  <1>1. CASE PodStep(pr)
    BY <1>0, <1>1 DEF PodStep, Open, Announce, Link, Watch, TrackPr, Message,
                      pollerVars
  <1>2. CASE ScmStep(pr)
    <2>1. ASSUME NEW state \in {"success", "failure"}, CiEnds(pr, state)
          PROVE  PollerTypes'
      BY <2>1 DEF CiEnds, PrFacts
    <2>2. CASE CiRestarts(pr) BY <2>2 DEF CiRestarts
    <2>3. ASSUME NEW fact \in Answered, Happens(pr, fact) PROVE PollerTypes'
      BY <2>3 DEF Happens
    <2>4. CASE WorkItemCloses(ItemOf[pr]) BY <1>0, <2>4 DEF WorkItemCloses
    <2> QED BY <1>2, <2>1, <2>2, <2>3, <2>4 DEF ScmStep
  <1>3. CASE PollerRestart
    BY <1>3 DEF PollerRestart, NoTick, TickState, Question
  <1> QED BY <1>1, <1>2, <1>3

\* A delivery is a message received about a work item, or ignored.
LEMMA DeliveryReceives ==
    ASSUME PollerTypeOK, NEW h \in Handler, NEW m \in wire, Deliver(h, m)
    PROVE  /\ m.workItem \in WorkItem
           /\ \/ ReceiveCreated(h, m.workItem)
              \/ m.event \in GateEvents /\ ReceiveGate(h, m.workItem, m.event)
              \/ m.event = "ciPassed" /\ UNCHANGED <<dwiRecords, trackerVars>>
  <1>1. m \in Message BY DEF PollerTypeOK
  <1>2. m.workItem \in WorkItem BY <1>1, PipelineAssumption DEF Message
  <1> QED BY <1>2 DEF Deliver, TakeGate, Ignore, ReceiveGate

\* The initial state has the types.
LEMMA InitWellTyped == Init => WellTyped
  <1> SUFFICES ASSUME Init PROVE WellTyped
    OBVIOUS
  <1> USE DEF Init
  <1>1. RecordsTypeOK /\ TrackerTypeOK
    BY DEF RecordsInit, TrackerInit, RecordsTypeOK, TrackerTypeOK, NoRow,
           DwiRow, Status, Idle, HandlerState, Gates
  <1>2. PollerTypeOK /\ TicksAreAtEntries
    BY DEF PollerInit, PollerTypeOK, TicksAreAtEntries, NoTick, TickState,
           Question
  <1> QED BY <1>1, <1>2 DEF WellTyped, TypeOK, PodStage

\* Every step keeps the types.
LEMMA NextWellTyped == WellTyped /\ [Next]_vars => WellTyped'
  <1> SUFFICES ASSUME WellTyped, [Next]_vars PROVE WellTyped'
    OBVIOUS
  <1> USE DEF WellTyped, TypeOK, PollerTypes
  <1> DEFINE Rows == RecordsTypeOK /\ TrackerTypeOK
  <1>1. ASSUME UNCHANGED pollerVars PROVE PollerTypes'
    BY <1>1 DEF pollerVars, scmVars, PollerTypeOK, TicksAreAtEntries
  <1>2. ASSUME UNCHANGED <<dwiRecords, trackerVars>> PROVE Rows'
    BY <1>2 DEF trackerVars, RecordsTypeOK, TrackerTypeOK
  <1>3. CASE PollerStep /\ UNCHANGED faulty
    <2>1. Rows' BY <1>2, <1>3 DEF PollerStep
    <2>2. ASSUME NEW pr \in Pr, PodStep(pr) \/ AtScm(pr)
          PROVE  PollerTypes' /\ pod' \in [Pr -> PodStage]
      BY <2>2, OtherPollerTypes
         DEF AtScm, PodStep, Open, Announce, Link, Watch, Stage, PodStage
    <2>3. ASSUME NEW t \in Tick, Poll(t), UNCHANGED pod
          PROVE  PollerTypes' /\ pod' \in [Pr -> PodStage]
      BY <2>3, PollTypes
    <2> QED BY <1>3, <2>1, <2>2, <2>3 DEF PollerStep
  <1>4. CASE Delivery /\ UNCHANGED faulty
    <2>1. PICK m \in wire, h \in Handler : Deliver(h, m) BY <1>4 DEF Delivery
    <2>2. Rows'
      BY <2>1, <1>2, DeliveryReceives, TrackerKeepsTypes DEF TrackerReceive
    <2>3. PollerTypes'
      BY <2>1 DEF Deliver, PollerTypeOK, TicksAreAtEntries, scmVars
    <2> QED BY <1>4, <2>2, <2>3 DEF Delivery
  <1>5. ASSUME NEW h \in Handler, HandlerStep(h), UNCHANGED faulty PROVE WellTyped'
    <2>1. Rows' BY <1>5, TrackerKeepsTypes DEF HandlerStep
    <2>2. PollerTypes' BY <1>1, <1>5 DEF HandlerStep
    <2>3. missed' \subseteq Gates \X (WorkItem \cup {NoWorkItem})
      <3>1. CASE handler[h].pc = "read" /\ RowsOf(handler[h].workItem) = {}
        BY <1>5, <3>1 DEF HandlerStep, TrackerTypeOK, HandlerState
      <3>2. CASE ~(handler[h].pc = "read" /\ RowsOf(handler[h].workItem) = {})
        BY <1>5, <3>2 DEF HandlerStep
      <3> QED BY <3>1, <3>2
    <2> QED BY <1>5, <2>1, <2>2, <2>3 DEF HandlerStep
  <1>6. CASE Fault
    <2> USE DEF Fault
    <2>1. CASE LoseMessage
      BY <1>2, <1>6, <2>1 DEF LoseMessage, PollerTypeOK, TicksAreAtEntries, scmVars
    <2>2. CASE PodFails
      BY <1>1, <1>2, <1>6, <2>2 DEF PodFails, Stage, PodStage
    <2>3. CASE CheckFault
      BY <1>2, <1>6, <2>3, PollTypes DEF CheckFault
    <2>4. CASE PodRestart
      <3>1. PollerTypes'
        BY <2>4 DEF PodRestart, PollerRestart, NoTick, TickState, Question,
                    PollerTypeOK, TicksAreAtEntries, scmVars
      <3> QED BY <1>2, <1>6, <2>4, <3>1 DEF PodRestart, PodStage
    <2>5. CASE QueryFault
      <3>1. Rows' BY <2>5, TrackerKeepsTypes DEF QueryFault
      <3> QED BY <1>1, <1>6, <2>5, <3>1 DEF QueryFault
    <2> QED BY <1>6, <2>1, <2>2, <2>3, <2>4, <2>5
  <1>7. CASE UNCHANGED vars
    BY <1>1, <1>2, <1>7 DEF vars
  <1> QED BY <1>3, <1>4, <1>5, <1>6, <1>7 DEF Next, Step

\* Every variable of the pod's poller, the wire and the tracker keeps its type.
THEOREM DeliveryTypeCorrect == Spec => []TypeOK
  <1>1. WellTyped => TypeOK BY DEF WellTyped
  <1> QED BY <1>1, InitWellTyped, NextWellTyped, PTL DEF Spec

-----------------------------------------------------------------------------
(* Evidence.                                                               *)

\* Nothing that has happened to a pull request is taken back.
LEMMA TheWorldOnlyGrows ==
    ASSUME WellTyped, [Next]_vars
    PROVE  /\ \A pr \in Pr : happened[pr] \subseteq happened'[pr]
           /\ closed \subseteq closed'
           /\ \A pr \in Pr : pod[pr] # "none" => pod'[pr] # "none"
  <1> USE DEF WellTyped, TypeOK, PollerTypeOK, scmVars, pollerVars
  <1>1. ASSUME NEW pr \in Pr, PodStep(pr)
        PROVE  /\ UNCHANGED scmVars
               /\ \A other \in Pr : pod[other] # "none" => pod'[other] # "none"
    BY <1>1 DEF PodStep, Open, Announce, Link, Watch, Stage, TrackPr
  <1>2. ASSUME NEW pr \in Pr, ScmStep(pr)
        PROVE  /\ \A other \in Pr : happened[other] \subseteq happened'[other]
               /\ closed \subseteq closed'
    BY <1>2 DEF ScmStep, CiEnds, CiRestarts, Happens, WorkItemCloses
  <1>3. ASSUME NEW t \in Tick, Poll(t) \/ CheckFails(t) PROVE UNCHANGED scmVars
    BY <1>3, PollMoves
  <1>4. CASE PollerStep BY <1>1, <1>2, <1>3, <1>4 DEF PollerStep, AtScm
  <1>5. CASE Delivery \/ \E h \in Handler : HandlerStep(h)
    BY <1>5 DEF Delivery, Deliver, HandlerStep
  <1>6. CASE Fault
    BY <1>3, <1>6 DEF Fault, LoseMessage, PodFails, CheckFault, PodRestart,
                      QueryFault, PollerRestart, Stage
  <1>7. CASE UNCHANGED vars BY <1>7 DEF vars
  <1> QED BY <1>4, <1>5, <1>6, <1>7 DEF Next, Step

\* So evidence, once there, remains.
LEMMA EvidenceRemains ==
    ASSUME WellTyped, [Next]_vars, NEW wi, NEW gate, Evidence(wi, gate)
    PROVE  Evidence(wi, gate)'
  <1>1. \A pr \in PrsOf(wi) : pr \in Pr BY DEF PrsOf
  <1>2. CASE gate \in {"workItemExists", "prLinked"}
    BY <1>1, <1>2, TheWorldOnlyGrows DEF Evidence, PrsOf
  <1>3. CASE gate = "workItemClosed"
    BY <1>1, <1>3, TheWorldOnlyGrows DEF Evidence, PrsOf
  <1>4. CASE gate \notin {"workItemExists", "prLinked", "workItemClosed"}
    BY <1>1, <1>4, TheWorldOnlyGrows DEF Evidence, PrsOf
  <1> QED BY <1>2, <1>3, <1>4

\* An answer yes is evidence for what was asked.
LEMMA AnswersAreEvidence ==
    ASSUME WellTyped, PollerIsHonest, NEW t \in Tick, tick[t].pc = "asking",
           tick[t].about # "ciCompleted", Holds(tick[t].pr, tick[t].about)
    PROVE  Evidence(ItemOf[tick[t].pr], tick[t].about)
  <1> DEFINE pr == tick[t].pr
             q  == tick[t].about
  <1>1. pr \in Pr /\ q \in Question
    BY DEF WellTyped, TypeOK, PollerTypeOK, TicksAreAtEntries, TickState
  <1>2. pr \in PrsOf(ItemOf[pr]) BY <1>1 DEF PrsOf
  <1>3. CASE q = "workItemClosed"
    <2>1. ItemOf[pr] \in closed BY <1>3 DEF Holds
    <2>2. Evidence(ItemOf[pr], "prMerged") BY <1>3 DEF PollerIsHonest
    <2> QED BY <1>3, <2>1, <2>2 DEF Evidence
  <1>4. CASE q \in {"prApproved", "prMerged"}
    <2>1. q \in happened[pr] BY <1>4 DEF Holds
    <2> QED BY <1>2, <1>4, <2>1 DEF Evidence
  <1> QED BY <1>1, <1>3, <1>4 DEF Question

-----------------------------------------------------------------------------
(* The way from the SCM to a row, one part at a time.                      *)

\* The flags and the ticks.
LEMMA PollerStaysHonest ==
    ASSUME HonestInv, [Next]_vars, WellTyped'
    PROVE  PollerIsHonest'
  <1>0. WellTyped BY DEF HonestInv, WellTyped
  <1> USE DEF HonestInv
  <1>1. ASSUME \A pr \in Pr : flags'[pr] \subseteq flags[pr], tick' = tick
        PROVE  PollerIsHonest'
    BY <1>0, <1>1, EvidenceRemains DEF PollerIsHonest
  <1>2. ASSUME NEW t \in Tick, UNCHANGED flags,
               NEW state, Asking(state) \/ state = NoTick,
               tick' = [tick EXCEPT ![t] = state]
        PROVE  PollerIsHonest'
    <2>1. ASSUME Asking(state), state.about = "workItemClosed"
          PROVE  Evidence(ItemOf[state.pr], "prMerged")
      BY <2>1 DEF Asking, PollerIsHonest
    <2> QED BY <1>0, <1>2, <2>1, EvidenceRemains
            DEF PollerIsHonest, Asking, NoTick, TypeOK, PollerTypeOK
  <1>3. ASSUME NEW t \in Tick, AnswerYes(t) PROVE PollerIsHonest'
    <2>1. PICK state \in TickState :
             /\ tick[t].pc = "asking"
             /\ Holds(tick[t].pr, tick[t].about)
             /\ state.pc = "publishing"
             /\ state.pr = tick[t].pr
             /\ state.about = tick[t].about
             /\ tick[t].pr \in Pr
             /\ tick[t].about \in Question
             /\ tick' = [tick EXCEPT ![t] = state]
             /\ flags' = [flags EXCEPT ![tick[t].pr] = @ \cup {tick[t].about}]
      BY <1>3, YesMoves DEF TypeOK
    <2>2. tick[t].about # "ciCompleted" => Evidence(ItemOf[tick[t].pr], tick[t].about)
      BY <1>0, <2>1, AnswersAreEvidence
    <2>3. ASSUME NEW pr \in Pr, NEW q \in flags'[pr], q # "ciCompleted"
          PROVE  Evidence(ItemOf[pr], q)'
      <3>1. Evidence(ItemOf[pr], q)
        BY <2>1, <2>2, <2>3 DEF PollerIsHonest, TypeOK, PollerTypeOK
      <3> QED BY <1>0, <3>1, EvidenceRemains
    <2> QED BY <1>0, <2>1, <2>2, <2>3, EvidenceRemains
            DEF PollerIsHonest, TypeOK, PollerTypeOK
  <1>4. ASSUME NEW t \in Tick, Poll(t) \/ CheckFails(t) PROVE PollerIsHonest'
    BY <1>2, <1>3, <1>4, PollMoves DEF TypeOK
  <1>5. ASSUME NEW pr \in Pr, PodStep(pr) \/ ScmStep(pr) PROVE PollerIsHonest'
    <2>1. /\ \A other \in Pr : flags'[other] \subseteq flags[other]
          /\ tick' = tick
      BY <1>5 DEF PodStep, Open, Announce, Link, Watch, TrackPr, ScmStep, CiEnds,
                  CiRestarts, Happens, WorkItemCloses, pollerVars, TypeOK,
                  PollerTypeOK
    <2> QED BY <1>1, <2>1
  <1>6. CASE PodRestart
    <2>1. \A pr \in Pr : flags'[pr] = {} BY <1>6 DEF PodRestart, PollerRestart
    <2>2. \A t \in Tick : tick'[t].pc = "idle"
      BY <1>6 DEF PodRestart, PollerRestart, NoTick
    <2> QED BY <2>1, <2>2 DEF PollerIsHonest
  <1>7. CASE \/ Delivery \/ (\E h \in Handler : HandlerStep(h)) \/ LoseMessage
             \/ PodFails \/ QueryFault \/ UNCHANGED vars
    <2>1. flags' = flags /\ tick' = tick
      BY <1>7 DEF Delivery, Deliver, HandlerStep, LoseMessage, PodFails,
                  QueryFault, vars, pollerVars
    <2> QED BY <1>1, <2>1
  <1> QED
    BY <1>4, <1>5, <1>6, <1>7
       DEF Next, Step, PollerStep, AtScm, Fault, CheckFault

\* The wire.
LEMMA WireStaysHonest ==
    ASSUME HonestInv, [Next]_vars
    PROVE  WireIsHonest'
  <1>0. WellTyped BY DEF HonestInv, WellTyped
  <1> USE DEF HonestInv
  <1>1. ASSUME wire' \subseteq wire PROVE WireIsHonest'
    BY <1>0, <1>1, EvidenceRemains DEF WireIsHonest
  <1>2. ASSUME NEW m, wire' = wire \cup {m},
               m.event # "ciPassed" => Evidence(m.workItem, m.event)'
        PROVE  WireIsHonest'
    BY <1>0, <1>2, EvidenceRemains DEF WireIsHonest
  <1>3. ASSUME NEW pr \in Pr, Announce(pr) \/ Link(pr) PROVE WireIsHonest'
    <2>1. pr \in PrsOf(ItemOf[pr]) BY DEF PrsOf
    <2>2. pod'[pr] # "none"
      BY <1>3 DEF Announce, Link, Stage, TypeOK
    <2>3. /\ Evidence(ItemOf[pr], "workItemExists")'
          /\ Evidence(ItemOf[pr], "prLinked")'
      BY <2>1, <2>2 DEF Evidence, PrsOf
    <2>4. CASE Announce(pr) BY <1>2, <2>3, <2>4 DEF Announce
    <2>5. CASE Link(pr) BY <1>2, <2>3, <2>5 DEF Link
    <2> QED BY <1>3, <2>4, <2>5
  <1>4. ASSUME NEW pr \in Pr, Open(pr) \/ Watch(pr) \/ ScmStep(pr) PROVE WireIsHonest'
    BY <1>1, <1>4 DEF Open, Watch, TrackPr, ScmStep, CiEnds, CiRestarts, Happens,
                      WorkItemCloses, pollerVars
  <1>5. ASSUME NEW t \in Tick, Publish(t), wire' = wire \cup {MessageOf(t)}
        PROVE  WireIsHonest'
    <2>1. CASE tick[t].about = "ciCompleted"
      BY <1>2, <1>5, <2>1 DEF MessageOf
    <2>2. CASE tick[t].about # "ciCompleted"
      <3>1. Evidence(ItemOf[tick[t].pr], tick[t].about)
        BY <1>5, <2>2 DEF Publish, PollerIsHonest
      <3> QED BY <1>0, <1>2, <1>5, <2>2, <3>1, EvidenceRemains DEF MessageOf
    <2> QED BY <2>1, <2>2
  <1>6. ASSUME NEW t \in Tick, Poll(t) \/ CheckFails(t) PROVE WireIsHonest'
    BY <1>1, <1>5, <1>6, PollMoves DEF TypeOK, AnswerYes
  <1>7. CASE \/ Delivery \/ (\E h \in Handler : HandlerStep(h)) \/ LoseMessage
             \/ PodFails \/ PodRestart \/ QueryFault \/ UNCHANGED vars
    <2>1. wire' \subseteq wire
      BY <1>7 DEF Delivery, Deliver, HandlerStep, LoseMessage, PodFails, PodRestart,
                  PollerRestart, QueryFault, vars, pollerVars
    <2> QED BY <1>1, <2>1
  <1> QED
    BY <1>3, <1>4, <1>6, <1>7
       DEF Next, Step, PollerStep, PodStep, AtScm, Fault, CheckFault

\* What a step can do to the table: insert a row, or add a gate to one.  No
\* activation gets as far as to complete or to charge for one.
LEMMA TableSteps ==
    ASSUME HonestInv, [Next]_vars
    PROVE  /\ UNCHANGED stripeUsage
           /\ \/ UNCHANGED dwiRecords
              \/ \E h \in Handler, d \in DwiId : InsertDwi(h, d)
              \/ \E h \in Handler : UpdateCriteria(h)
  <1> USE DEF HonestInv
  <1>1. ASSUME NEW h \in Handler, HandlerStep(h)
        PROVE  /\ UNCHANGED stripeUsage
               /\ \/ UNCHANGED dwiRecords
                  \/ \E d \in DwiId : InsertDwi(h, d)
                  \/ UpdateCriteria(h)
    <2>1. ~CompleteDwi(h) /\ ~ReportUsage(h)
      BY DEF CompleteDwi, ReportUsage, ActivationsAreHonest, HonestActivation
    <2> QED BY <1>1, <2>1 DEF HandlerStep, TrackerProgress, BudgetAllows,
               BudgetRefuses, InsertDwi, ReadDwi, ReadNothing, UpdateCriteria,
               Refetch
  <1>2. CASE Delivery
    <2>1. PICK m \in wire, h \in Handler : Deliver(h, m) BY <1>2 DEF Delivery
    <2> QED BY <2>1, DeliveryReceives
            DEF TypeOK, ReceiveCreated, ReceiveGate, trackerVars
  <1>3. CASE PollerStep \/ Fault \/ UNCHANGED vars
    BY <1>3 DEF PollerStep, Fault, LoseMessage, PodFails, CheckFault, PodRestart,
                QueryFault, TrackerFault, vars, trackerVars
  <1> QED BY <1>1, <1>2, <1>3 DEF Next, Step

\* The first UPDATE finds a row of the activation's work item, and adds the
\* activation's gate to it.
LEMMA GateIsAdded ==
    ASSUME HonestInv, NEW h \in Handler, UpdateCriteria(h)
    PROVE  LET d == handler[h].dwi IN
           /\ d \in Inserted
           /\ dwiRecords[d].workItem = handler[h].workItem
           /\ handler[h].event \in Gates \ {"ciPassed"}
           /\ Evidence(handler[h].workItem, handler[h].event)
           /\ \A x \in DwiId : x # d => dwiRecords'[x] = dwiRecords[x]
           /\ dwiRecords'[d].gates = dwiRecords[d].gates \cup {handler[h].event}
           /\ dwiRecords'[d].workItem = dwiRecords[d].workItem
           /\ dwiRecords'[d].isBillable = dwiRecords[d].isBillable
           /\ dwiRecords'[d].status \in {"approved", "merged", dwiRecords[d].status}
  <1> DEFINE d == handler[h].dwi
             row == UpdatedRow(dwiRecords[d], handler[h].event)
  <1> USE DEF HonestInv, TypeOK, RecordsTypeOK, TrackerTypeOK
  <1>1. /\ d \in Inserted
        /\ dwiRecords[d].workItem = handler[h].workItem
        /\ handler[h].event # "ciPassed"
        /\ Evidence(handler[h].workItem, handler[h].event)
    BY DEF UpdateCriteria, ActivationsAreHonest, HonestActivation, RowsOf
  <1>2. d \in DwiId /\ dwiRecords[d] \in DwiRow BY <1>1 DEF Inserted
  <1>3. handler[h].event \in Gates BY DEF HandlerState
  <1>4. dwiRecords' = [dwiRecords EXCEPT ![d] = row] BY DEF UpdateCriteria, SetRow
  <1>5. row.workItem = dwiRecords[d].workItem BY <1>2 DEF UpdatedRow, DwiRow
  <1>6. /\ row.gates = dwiRecords[d].gates \cup {handler[h].event}
        /\ row.isBillable = dwiRecords[d].isBillable
        /\ row.status \in {"approved", "merged", dwiRecords[d].status}
    BY <1>2, <1>3, UpdatedRowColumns
  <1> HIDE DEF row
  <1>7. dwiRecords'[d] = row /\ \A x \in DwiId : x # d => dwiRecords'[x] = dwiRecords[x]
    BY <1>2, <1>4
  <1> QED BY <1>1, <1>3, <1>5, <1>6, <1>7

\* An inserted row stays that row, with the gates it had.
LEMMA RowsRemain ==
    ASSUME HonestInv, [Next]_vars, NEW d \in Inserted
    PROVE  /\ d \in Inserted'
           /\ dwiRecords'[d].workItem = dwiRecords[d].workItem
           /\ dwiRecords[d].gates \subseteq dwiRecords'[d].gates
  <1>1. d \in DwiId /\ dwiRecords[d].status # "absent" BY DEF Inserted
  <1>2. CASE UNCHANGED dwiRecords BY <1>2 DEF Inserted
  <1>3. ASSUME NEW h \in Handler, NEW x \in DwiId, InsertDwi(h, x)
        PROVE  dwiRecords'[d] = dwiRecords[d]
    BY <1>3 DEF InsertDwi, SetRow, HonestInv, TypeOK, RecordsTypeOK
  <1>4. ASSUME NEW h \in Handler, UpdateCriteria(h)
        PROVE  /\ dwiRecords'[d].status # "absent"
               /\ dwiRecords'[d].workItem = dwiRecords[d].workItem
               /\ dwiRecords[d].gates \subseteq dwiRecords'[d].gates
    BY <1>1, <1>4, GateIsAdded
  <1> QED BY <1>1, <1>2, <1>3, <1>4, TableSteps DEF Inserted

\* The table: no row is ever completed, reverted or billable.
LEMMA RowsStayUnbilled ==
    ASSUME HonestInv, [Next]_vars
    PROVE  RowsAreUnbilled'
  <1> USE DEF HonestInv, RowsAreUnbilled, TypeOK, RecordsTypeOK
  <1>1. UNCHANGED stripeUsage BY TableSteps
  <1>2. CASE UNCHANGED dwiRecords BY <1>1, <1>2
  <1>3. ASSUME NEW h \in Handler, NEW x \in DwiId, InsertDwi(h, x)
        PROVE  RowsAreUnbilled'
    <2>1. \A d \in DwiId : d # x => dwiRecords'[d] = dwiRecords[d]
      BY <1>3 DEF InsertDwi, SetRow
    <2>2. dwiRecords'[x] = FreshRow(handler[h].workItem)
      BY <1>3 DEF InsertDwi, SetRow
    <2> QED BY <1>1, <2>1, <2>2 DEF FreshRow
  <1>4. ASSUME NEW h \in Handler, UpdateCriteria(h) PROVE RowsAreUnbilled'
    <2> DEFINE d == handler[h].dwi
    <2>1. d \in DwiId BY <1>4, GateIsAdded DEF Inserted
    <2>2. /\ \A x \in DwiId : x # d => dwiRecords'[x] = dwiRecords[x]
          /\ "ciPassed" \notin dwiRecords'[d].gates
          /\ dwiRecords'[d].status \notin {"completed", "reverted"}
          /\ ~dwiRecords'[d].isBillable
      BY <1>4, <2>1, GateIsAdded
    <2> QED BY <1>1, <2>1, <2>2
  <1> QED BY <1>2, <1>3, <1>4, TableSteps

\* The table: what its gates say has happened.
LEMMA EvidenceStaysTrue ==
    ASSUME HonestInv, [Next]_vars
    PROVE  EvidenceIsTrue'
  <1>0. WellTyped BY DEF HonestInv, WellTyped
  <1> USE DEF HonestInv, TypeOK, RecordsTypeOK
  <1> SUFFICES ASSUME NEW d \in DwiId, d \in Inserted',
                      NEW gate, gate \in dwiRecords'[d].gates,
                      NEW wi, wi = dwiRecords'[d].workItem
               PROVE  Evidence(wi, gate)
    BY <1>0, EvidenceRemains DEF EvidenceIsTrue, Inserted
  <1>1. CASE dwiRecords'[d] = dwiRecords[d]
    BY <1>1 DEF EvidenceIsTrue, Inserted
  <1>2. ASSUME NEW h \in Handler, NEW x \in DwiId, InsertDwi(h, x)
        PROVE  Evidence(wi, gate)
    <2>1. CASE d = x
      <3>1. dwiRecords'[d] = FreshRow(handler[h].workItem)
        BY <1>2, <2>1 DEF InsertDwi, SetRow
      <3>2. gate = "workItemExists" /\ wi = handler[h].workItem
        BY <3>1 DEF FreshRow
      <3> QED BY <1>2, <3>2 DEF InsertDwi, ActivationsAreHonest, HonestActivation
    <2>2. CASE d # x BY <1>1, <1>2, <2>2 DEF InsertDwi, SetRow
    <2> QED BY <2>1, <2>2
  <1>3. ASSUME NEW h \in Handler, UpdateCriteria(h) PROVE Evidence(wi, gate)
    <2>1. CASE d = handler[h].dwi
      <3>1. /\ d \in Inserted
            /\ wi = dwiRecords[d].workItem
            /\ wi = handler[h].workItem
            /\ gate \in dwiRecords[d].gates \cup {handler[h].event}
            /\ Evidence(handler[h].workItem, handler[h].event)
        BY <1>3, <2>1, GateIsAdded
      <3> QED BY <3>1 DEF EvidenceIsTrue
    <2>2. CASE d # handler[h].dwi BY <1>1, <1>3, <2>2, GateIsAdded
    <2> QED BY <2>1, <2>2
  <1> QED BY <1>1, <1>2, <1>3, TableSteps

\* What an activation knows stays true while it waits.
LEMMA HonestyRemains ==
    ASSUME HonestInv, [Next]_vars, NEW a, HonestActivation(a)
    PROVE  HonestActivation(a)'
  <1>1. \A wi, gate : Evidence(wi, gate) => Evidence(wi, gate)'
    BY EvidenceRemains DEF HonestInv, WellTyped
  <1>2. \A d \in Inserted : d \in Inserted' /\ dwiRecords'[d].workItem = dwiRecords[d].workItem
    BY RowsRemain
  <1>3. \A wi : RowsOf(wi) \subseteq RowsOf(wi)' BY <1>2 DEF RowsOf
  <1> QED BY <1>1, <1>2, <1>3 DEF HonestActivation

\* No message has a result.
LEMMA NoResult == ASSUME NEW m \in Message PROVE Result(m) = "undefined"
  BY DEF Message, Result

\* The activations: they start from honest messages.
LEMMA ActivationsStayHonest ==
    ASSUME HonestInv, [Next]_vars
    PROVE  ActivationsAreHonest'
  <1> USE DEF HonestInv, TypeOK, TrackerTypeOK
  <1>1. \A h \in Handler : HonestActivation(handler[h]) BY DEF ActivationsAreHonest
  <1>2. ASSUME UNCHANGED handler PROVE ActivationsAreHonest'
    BY <1>1, <1>2, HonestyRemains DEF ActivationsAreHonest
  <1>3. ASSUME NEW h \in Handler, NEW a, HonestActivation(a)',
               handler' = [handler EXCEPT ![h] = a]
        PROVE  ActivationsAreHonest'
    <2>1. ASSUME NEW k \in Handler PROVE HonestActivation(handler[k])'
      <3>1. CASE k = h
        <4>1. handler'[k] = a BY <1>3, <3>1
        <4> QED BY <1>3, <4>1 DEF HonestActivation
      <3>2. CASE k # h
        <4>1. handler'[k] = handler[k] BY <1>3, <3>2
        <4>2. PICK b : b = handler[k] OBVIOUS
        <4>3. HonestActivation(b)' BY <1>1, <4>2, HonestyRemains
        <4> QED BY <4>1, <4>2, <4>3 DEF HonestActivation
      <3> QED BY <3>1, <3>2
    <2> QED BY <2>1 DEF ActivationsAreHonest
  <1>4. ASSUME NEW h \in Handler, NEW a, HonestActivation(a),
               handler' = [handler EXCEPT ![h] = a]
        PROVE  ActivationsAreHonest'
    BY <1>3, <1>4, HonestyRemains
  <1>5. ASSUME NEW h \in Handler, handler' = [handler EXCEPT ![h] = Idle]
        PROVE  ActivationsAreHonest'
    BY <1>4, <1>5 DEF HonestActivation, Idle
  <1>6. CASE Delivery
    <2>1. PICK m \in wire, h \in Handler : Deliver(h, m) BY <1>6 DEF Delivery
    <2>2. m \in Message /\ (m.event # "ciPassed" => Evidence(m.workItem, m.event))
      BY DEF PollerTypeOK, WireIsHonest
    <2>3. CASE m.event = "workItemExists" /\ ReceiveCreated(h, m.workItem)
      <3> DEFINE a == [Idle EXCEPT !.pc = "budget", !.workItem = m.workItem]
      <3>1. handler' = [handler EXCEPT ![h] = a] BY <2>3 DEF ReceiveCreated
      <3>2. HonestActivation(a) BY <2>2, <2>3 DEF HonestActivation, Idle
      <3> HIDE DEF a
      <3> QED BY <1>4, <3>1, <3>2
    <2>4. CASE TakeGate(h, m)
      <3> DEFINE a == [Idle EXCEPT !.pc = "read", !.event = m.event,
                                   !.workItem = m.workItem]
      <3>1. handler' = [handler EXCEPT ![h] = a] BY <2>4 DEF TakeGate, ReceiveGate
      <3>2. m.event # "ciPassed" BY <2>2, <2>4, NoResult DEF TakeGate
      <3>3. HonestActivation(a) BY <2>2, <3>2 DEF HonestActivation, Idle
      <3> HIDE DEF a
      <3> QED BY <1>4, <3>1, <3>3
    <2>5. CASE Ignore(h, m) BY <1>2, <2>5 DEF Ignore, trackerVars
    <2> QED BY <2>1, <2>3, <2>4, <2>5 DEF Deliver
  <1>7. ASSUME NEW h \in Handler, HandlerStep(h) PROVE ActivationsAreHonest'
    <2>0. HonestActivation(handler[h]) /\ handler[h] \in HandlerState BY <1>1
    <2>1. CASE \/ BudgetRefuses(h) \/ (\E d \in DwiId : InsertDwi(h, d))
               \/ ReadNothing(h)
      BY <1>5, <2>1 DEF BudgetRefuses, InsertDwi, ReadNothing, Finish
    <2>2. CASE BudgetAllows(h)
      <3> DEFINE a == [handler[h] EXCEPT !.pc = "insert"]
      <3>1. handler' = [handler EXCEPT ![h] = a] BY <2>2 DEF BudgetAllows
      <3>2. HonestActivation(a)
        BY <2>0, <2>2 DEF BudgetAllows, HonestActivation, HandlerState
      <3> HIDE DEF a
      <3> QED BY <1>4, <3>1, <3>2
    <2>3. ASSUME NEW d \in DwiId, ReadDwi(h, d) PROVE ActivationsAreHonest'
      <3> DEFINE a == [handler[h] EXCEPT !.pc = "update", !.dwi = d]
      <3>1. handler' = [handler EXCEPT ![h] = Idle] \/ handler' = [handler EXCEPT ![h] = a]
        BY <2>3 DEF ReadDwi, Finish
      <3>2. HonestActivation(a)
        BY <2>0, <2>3 DEF ReadDwi, HonestActivation, HandlerState
      <3> HIDE DEF a
      <3> QED BY <1>4, <1>5, <3>1, <3>2
    <2>4. CASE UpdateCriteria(h)
      <3> DEFINE a == [handler[h] EXCEPT !.pc = "refetch", !.event = Idle.event]
      <3>1. handler' = [handler EXCEPT ![h] = a] BY <2>4 DEF UpdateCriteria
      <3>2. HonestActivation(a)
        BY <2>0, <2>4, GateIsAdded DEF HonestActivation, HandlerState
      <3> HIDE DEF a
      <3> QED BY <1>4, <3>1, <3>2
    <2>5. CASE Refetch(h)
      <3>1. handler[h].dwi \in DwiId
        BY <2>0, <2>5 DEF Refetch, HonestActivation, Inserted
      <3>2. ~AllCriteriaMet(dwiRecords[handler[h].dwi])
        BY <3>1 DEF RowsAreUnbilled, AllCriteriaMet, Gates
      <3> QED BY <1>5, <2>5, <3>2 DEF Refetch, Finish
    <2>6. ~CompleteDwi(h) /\ ~ReportUsage(h)
      BY <2>0 DEF CompleteDwi, ReportUsage, HonestActivation
    <2> QED BY <1>7, <2>1, <2>2, <2>3, <2>4, <2>5, <2>6
            DEF HandlerStep, TrackerProgress
  <1>8. ASSUME NEW h \in Handler, TrackerFault(h) PROVE ActivationsAreHonest'
    BY <1>5, <1>8 DEF TrackerFault, Finish
  <1>9. CASE \/ PollerStep \/ LoseMessage \/ PodFails \/ CheckFault \/ PodRestart
             \/ UNCHANGED vars
    <2>1. UNCHANGED handler
      BY <1>9 DEF PollerStep, LoseMessage, PodFails, CheckFault, PodRestart, vars,
                  trackerVars
    <2> QED BY <1>2, <2>1
  <1> QED BY <1>6, <1>7, <1>8, <1>9 DEF Next, Step, Fault, QueryFault

-----------------------------------------------------------------------------

\* The inductive invariant.
LEMMA DeliverySafety == Spec => []HonestInv
  <1>1. Init => HonestInv
    <2> SUFFICES ASSUME Init PROVE HonestInv
      OBVIOUS
    <2>1. TypeOK /\ TicksAreAtEntries BY InitWellTyped DEF WellTyped
    <2> USE DEF Init, PollerInit, TrackerInit, RecordsInit
    <2>2. PollerIsHonest BY DEF PollerIsHonest, NoTick
    <2>3. WireIsHonest BY DEF WireIsHonest
    <2>4. ActivationsAreHonest BY DEF ActivationsAreHonest, HonestActivation, Idle
    <2>5. RowsAreUnbilled BY DEF RowsAreUnbilled, NoRow
    <2>6. EvidenceIsTrue BY DEF EvidenceIsTrue, Inserted, NoRow
    <2> QED BY <2>1, <2>2, <2>3, <2>4, <2>5, <2>6 DEF HonestInv
  <1>2. HonestInv /\ [Next]_vars => HonestInv'
    <2> SUFFICES ASSUME HonestInv, [Next]_vars PROVE HonestInv'
      OBVIOUS
    <2>1. WellTyped' BY NextWellTyped DEF HonestInv, WellTyped
    <2> QED BY <2>1, PollerStaysHonest, WireStaysHonest, ActivationsStayHonest,
               RowsStayUnbilled, EvidenceStaysTrue
            DEF HonestInv, WellTyped
  <1> QED BY <1>1, <1>2, PTL DEF Spec

\* The gates of a row have happened to a pull request of its work item.
THEOREM EvidenceHolds == Spec => []EvidenceIsTrue
  <1>1. HonestInv => EvidenceIsTrue BY DEF HonestInv
  <1> QED BY <1>1, DeliverySafety, PTL

\* As the poller and the tracker are, no DWI of a pod is ever completed,
\* marked billable or charged for: ci:completed sets no gate (dwi-tracker.ts
\* reads `result`, redis-bus.ts writes `passed`).
THEOREM NothingIsBilled == Spec => []RowsAreUnbilled
  <1>1. HonestInv => RowsAreUnbilled BY DEF HonestInv
  <1> QED BY <1>1, DeliverySafety, PTL

-----------------------------------------------------------------------------
(* Flags.                                                                  *)

\* What is recorded stays recorded.
LEMMA RecordRemains ==
    ASSUME HonestInv, [Next]_vars, NEW wi, NEW gate, Recorded(wi, gate)
    PROVE  Recorded(wi, gate)'
  <1>1. PICK d \in RowsOf(wi) : gate \in dwiRecords[d].gates
    BY DEF Recorded, RowsOf, Inserted, HonestInv, RowsAreUnbilled
  <1>2. d \in RowsOf(wi)' /\ gate \in dwiRecords'[d].gates
    BY <1>1, RowsRemain DEF RowsOf
  <1> QED BY <1>2 DEF Recorded

Backed(wi, gate) ==
    \/ OnItsWay(wi, gate)
    \/ Recorded(wi, gate)
    \/ <<gate, wi>> \in missed

LifecycleGates == Question \ {"ciCompleted"}

\* A step without a fault loses no event of the poller's: it hands it on from
\* the tick to the wire, from there to an activation, and from there to the
\* row or to `missed`.
LEMMA NoEventIsLost ==
    ASSUME HonestInv, [Step]_vars, NEW wi, NEW gate \in LifecycleGates,
           Backed(wi, gate)
    PROVE  Backed(wi, gate)'
  <1> USE DEF HonestInv, TypeOK, TrackerTypeOK, PollerTypeOK
  <1>0. [Next]_vars BY DEF Next
  <1>1. CASE Recorded(wi, gate) BY <1>0, <1>1, RecordRemains DEF Backed
  <1>2. CASE <<gate, wi>> \in missed
    BY <1>2 DEF Backed, Step, PollerStep, Delivery, HandlerStep, vars
  <1>3. ASSUME NEW t \in Tick, tick[t].pc = "publishing", tick[t].about = gate,
               ItemOf[tick[t].pr] = wi
        PROVE  Backed(wi, gate)'
    <2>1. CASE tick'[t] = tick[t] BY <1>3, <2>1 DEF Backed, OnItsWay
    <2>2. CASE Publish(t)
      <3>1. MessageOf(t) = [event |-> gate, workItem |-> wi]
        BY <1>3 DEF MessageOf, LifecycleGates
      <3>2. [event |-> gate, workItem |-> wi] \in wire'
        BY <2>2, <3>1 DEF Publish
      <3> QED BY <3>2 DEF Backed, OnItsWay
    <2>3. ASSUME NEW u \in Tick, Poll(u), u # t PROVE tick'[t] = tick[t]
      <3>1. CASE AnswerYes(u) BY <2>3, <3>1, YesMoves
      <3>2. CASE \E state \in TickState : tick' = [tick EXCEPT ![u] = state]
        BY <2>3, <3>2
      <3> QED BY <2>3, <3>1, <3>2, PollMoves
    <2>4. Poll(t) => Publish(t)
      BY <1>3 DEF Poll, StartTick, TickStep, AnswerYes, AnswerNo
    <2>5. CASE \/ (\E pr \in Pr : PodStep(pr) \/ AtScm(pr)) \/ Delivery
               \/ (\E h \in Handler : HandlerStep(h)) \/ UNCHANGED vars
      <3>1. tick' = tick
        BY <2>5 DEF PodStep, Open, Announce, Link, Watch, TrackPr, AtScm, ScmStep,
                    CiEnds, CiRestarts, Happens, WorkItemCloses, Delivery, Deliver,
                    HandlerStep, pollerVars, vars
      <3> QED BY <2>1, <3>1
    <2> QED BY <2>1, <2>2, <2>3, <2>4, <2>5 DEF Step, PollerStep
  <1>4. CASE [event |-> gate, workItem |-> wi] \in wire
    <2> DEFINE mine == [event |-> gate, workItem |-> wi]
    <2>1. CASE mine \in wire' BY <2>1 DEF Backed, OnItsWay
    <2>2. CASE Delivery
      <3>1. PICK m \in wire, h \in Handler : Deliver(h, m) BY <2>2 DEF Delivery
      <3>2. CASE m # mine BY <1>4, <2>1, <3>1, <3>2 DEF Deliver
      <3>3. CASE m = mine
        <4>1. m.event = gate /\ m.workItem = wi BY <3>3
        <4>2. gate \notin {"workItemExists", "ciPassed"}
          BY DEF LifecycleGates, Question
        <4>3. ReceiveGate(h, wi, gate)
          BY <3>1, <4>1, <4>2 DEF Deliver, TakeGate, Ignore
        <4>4. /\ handler'[h].pc = "read"
              /\ handler'[h].event = gate
              /\ handler'[h].workItem = wi
          BY <4>3 DEF ReceiveGate, Idle
        <4> QED BY <4>4 DEF Backed, OnItsWay
      <3> QED BY <3>2, <3>3
    <2>3. CASE \E t \in Tick : Poll(t)
      BY <1>4, <2>1, <2>3, PollMoves DEF AnswerYes
    <2>4. CASE \/ (\E pr \in Pr : PodStep(pr) \/ AtScm(pr))
               \/ (\E h \in Handler : HandlerStep(h)) \/ UNCHANGED vars
      <3>1. wire \subseteq wire'
        BY <2>4 DEF PodStep, Open, Announce, Link, Watch, TrackPr, AtScm, ScmStep,
                    CiEnds, CiRestarts, Happens, WorkItemCloses, HandlerStep,
                    pollerVars, vars
      <3> QED BY <1>4, <2>1, <3>1
    <2> QED BY <2>2, <2>3, <2>4 DEF Step, PollerStep
  <1>5. ASSUME NEW h \in Handler, handler[h].pc \in {"read", "update"},
               handler[h].event = gate, handler[h].workItem = wi
        PROVE  Backed(wi, gate)'
    <2>1. CASE handler'[h] = handler[h] BY <1>5, <2>1 DEF Backed, OnItsWay
    <2>2. CASE HandlerStep(h)
      <3>1. ASSUME NEW d \in DwiId, ReadDwi(h, d) PROVE Backed(wi, gate)'
        <4>1. dwiRecords[d].status \notin {"completed", "reverted"}
          BY DEF RowsAreUnbilled
        <4> DEFINE a == [handler[h] EXCEPT !.pc = "update", !.dwi = d]
        <4>2. handler' = [handler EXCEPT ![h] = a] BY <3>1, <4>1 DEF ReadDwi
        <4>3. a.pc = "update" /\ a.event = gate /\ a.workItem = wi
          BY <1>5 DEF HandlerState
        <4> HIDE DEF a
        <4> QED BY <4>2, <4>3 DEF Backed, OnItsWay
      <3>2. CASE ReadNothing(h)
        BY <1>5, <2>2, <3>2 DEF ReadNothing, HandlerStep, Backed
      <3>3. CASE UpdateCriteria(h)
        <4> DEFINE d == handler[h].dwi
        <4>1. /\ d \in Inserted
              /\ dwiRecords[d].workItem = wi
              /\ gate \in dwiRecords'[d].gates
          BY <1>5, <3>3, GateIsAdded
        <4>2. d \in Inserted' /\ dwiRecords'[d].workItem = wi
          BY <1>0, <4>1, RowsRemain
        <4> HIDE DEF d
        <4>3. Recorded(wi, gate)' BY <4>1, <4>2 DEF Recorded, RowsOf
        <4> QED BY <4>3 DEF Backed
      <3> QED BY <1>5, <2>2, <3>1, <3>2, <3>3
              DEF HandlerStep, TrackerProgress, BudgetAllows, BudgetRefuses,
                  InsertDwi, Refetch, CompleteDwi, ReportUsage
    <2>3. ASSUME NEW k \in Handler, k # h, HandlerStep(k) PROVE handler'[h] = handler[h]
      BY <2>3 DEF HandlerStep, TrackerProgress, BudgetAllows, BudgetRefuses,
                  InsertDwi, ReadDwi, ReadNothing, UpdateCriteria, Refetch,
                  CompleteDwi, ReportUsage, Finish
    <2>4. CASE Delivery
      <3>1. PICK m \in wire, k \in Handler : Deliver(k, m) BY <2>4 DEF Delivery
      <3>2. handler'[h] = handler[h]
        BY <1>5, <3>1, DeliveryReceives DEF ReceiveCreated, ReceiveGate, trackerVars
      <3> QED BY <2>1, <3>2
    <2>5. CASE PollerStep \/ UNCHANGED vars
      BY <2>1, <2>5 DEF PollerStep, trackerVars, vars
    <2> QED BY <2>1, <2>2, <2>3, <2>4, <2>5 DEF Step
  <1> QED BY <1>1, <1>2, <1>3, <1>4, <1>5 DEF Backed, OnItsWay

\* As long as nothing fails, a flag of the poller stands for an event that is
\* recorded, on its way, or came before its row.
THEOREM FlagsAreBacked == Spec => []FlagIsBacked
  <1>1. Init => FlagIsBacked BY DEF Init, PollerInit, FlagIsBacked
  <1>2. HonestInv /\ FlagIsBacked /\ [Next]_vars => FlagIsBacked'
    <2> SUFFICES ASSUME HonestInv, FlagIsBacked, [Next]_vars, ~faulty',
                        NEW pr \in Pr, NEW q, q \in flags'[pr], q # "ciCompleted"
                 PROVE  Backed(ItemOf[pr], q)'
      BY DEF FlagIsBacked, Backed
    <2>0. [Step]_vars /\ ~faulty BY DEF Next, Fault, Step, vars
    <2>1. HonestInv' /\ q \in LifecycleGates
      <3>1. WellTyped' BY NextWellTyped DEF HonestInv, WellTyped
      <3> QED BY <3>1, PollerStaysHonest, WireStaysHonest, ActivationsStayHonest,
                 RowsStayUnbilled, EvidenceStaysTrue
              DEF HonestInv, WellTyped, TypeOK, PollerTypeOK, LifecycleGates
    <2>2. CASE q \in flags[pr]
      <3>1. Backed(ItemOf[pr], q) BY <2>0, <2>2 DEF FlagIsBacked, Backed
      <3> QED BY <2>0, <2>1, <3>1, NoEventIsLost
    <2>3. CASE q \notin flags[pr]
      <3>1. PICK t \in Tick : AnswerYes(t)
        <4>1. ASSUME \A x \in Pr : flags'[x] \subseteq flags[x] PROVE FALSE
          BY <2>3, <4>1
        <4>2. ASSUME NEW x \in Pr, PodStep(x) \/ ScmStep(x) PROVE FALSE
          <5>1. \A y \in Pr : flags'[y] \subseteq flags[y]
            BY <4>2 DEF PodStep, Open, Announce, Link, Watch, TrackPr, ScmStep,
                        CiEnds, CiRestarts, Happens, WorkItemCloses, pollerVars,
                        HonestInv, TypeOK, PollerTypeOK
          <5> QED BY <4>1, <5>1
        <4>3. ASSUME NEW t \in Tick, Poll(t) PROVE UNCHANGED flags \/ AnswerYes(t)
          BY <4>3, PollMoves DEF HonestInv, TypeOK
        <4> QED BY <2>0, <4>1, <4>2, <4>3
                DEF Step, PollerStep, AtScm, Delivery, Deliver, HandlerStep,
                    pollerVars, vars
      <3>2. PICK state \in TickState :
               /\ state.pc = "publishing"
               /\ state.pr = tick[t].pr
               /\ state.about = tick[t].about
               /\ tick' = [tick EXCEPT ![t] = state]
               /\ flags' = [flags EXCEPT ![tick[t].pr] = @ \cup {tick[t].about}]
        BY <3>1, YesMoves DEF HonestInv, TypeOK
      <3>3. pr = tick[t].pr /\ q = tick[t].about
        BY <2>3, <3>2 DEF HonestInv, TypeOK, PollerTypeOK
      <3>4. tick'[t] = state BY <3>2 DEF HonestInv, TypeOK, PollerTypeOK
      <3> QED BY <3>2, <3>3, <3>4 DEF Backed, OnItsWay
    <2> QED BY <2>2, <2>3
  <1> QED BY <1>1, <1>2, DeliverySafety, PTL DEF Spec
=============================================================================
