---------------------------- MODULE AgentPodProofs ----------------------------
(***************************************************************************)
(* Proofs about AgentPod, for any sets of pods and work items.             *)
(***************************************************************************)
EXTENDS AgentPod, SequenceTheorems, TLAPS

-----------------------------------------------------------------------------
(* The inductive invariant.                                                *)

\* A poll that has chosen an item knows it.
HandsOnAnItem ==
    \A a \in Agent :
        agent[a].pc \notin {"idle", "polling"} => agent[a].item \in WorkItem

\* A child process runs exactly while the poll awaits it.
SessionsAreAwaited ==
    \A a \in Agent : /\ session[a].kind = "coding" => agent[a].pc = "coding"
                     /\ session[a].kind = "triage" => agent[a].pc = "triage"

\* How far the work on an item has come shows in what it left behind: once it has a pull
\* request, that is its own, and nothing has been published but what it has published.
Reached(pc) == CASE pc = "created" -> <<>>
                 [] pc = "linked"  -> <<"created">>
                 [] pc = "resolve" -> <<"created", "linked">>

StagesAreReached ==
    \A a \in Agent : agent[a].pc \in {"created", "linked", "resolve"} =>
        /\ pulls[agent[a].item] = a
        /\ announced[agent[a].item] = Reached(agent[a].pc)

\* Between its start and its stop the watchdog is armed for the item at hand.
WatchdogIsCurrent ==
    \A a \in Agent :
        agent[a].pc \in {"launch", "coding"} => armed[a] \subseteq {agent[a].item}

-----------------------------------------------------------------------------
(* What the helpers of the actions do to each pod.                         *)

Pcs == {"idle"} \cup PollPcs \cup WorkPcs \cup AftermathPcs

\* GoTo moves the poll of its pod and nothing else.
LEMMA Moves ==
    ASSUME agent \in [Agent -> AgentState], NEW a \in Agent, NEW pc \in Pcs, GoTo(a, pc)
    PROVE  /\ agent' \in [Agent -> AgentState]
           /\ agent'[a].pc = pc
           /\ agent'[a].item = agent[a].item
           /\ \A b \in Agent \ {a} : agent'[b] = agent[b]
  <1> DEFINE next == [agent[a] EXCEPT !.pc = pc]
  <1>1. agent' = [agent EXCEPT ![a] = next] BY DEF GoTo
  <1>2. next \in AgentState /\ next.pc = pc /\ next.item = agent[a].item
    BY DEF AgentState, Pcs
  <1> QED BY <1>1, <1>2

\* GiveUp ends the poll of its pod.
LEMMA Retires ==
    ASSUME agent \in [Agent -> AgentState], NEW a \in Agent, GiveUp(a)
    PROVE  /\ agent' \in [Agent -> AgentState]
           /\ agent'[a].pc = "idle"
           /\ \A b \in Agent \ {a} : agent'[b] = agent[b]
  BY DEF GiveUp, Idle, AgentState

\* Spawn starts a child process in its pod.
LEMMA Spawns ==
    ASSUME session \in [Agent -> Session], NEW a \in Agent,
           NEW kind \in {"triage", "coding"}, Spawn(a, kind)
    PROVE  /\ session' \in [Agent -> Session]
           /\ session'[a].kind = kind
           /\ \A b \in Agent \ {a} : session'[b] = session[b]
  <1> DEFINE next == [NoSession EXCEPT !.kind = kind]
  <1>1. session' = [session EXCEPT ![a] = next] BY DEF Spawn
  <1>2. next \in Session /\ next.kind = kind BY DEF Session, NoSession
  <1> QED BY <1>1, <1>2

-----------------------------------------------------------------------------
(* Type correctness.                                                       *)

\* The types of the variables the awaits of a poll do not share.
PodTypes == /\ agent \in [Agent -> AgentState]
            /\ session \in [Agent -> Session]
            /\ armed \in [Agent -> SUBSET WorkItem]
            /\ lifecycle \in [Agent -> {"running", "draining", "exited"}]
            /\ HandsOnAnItem
            /\ SessionsAreAwaited

BoardTypes == /\ items \in [WorkItem -> Item]
              /\ pulls \in [WorkItem -> Agent \cup {NoAgent}]
              /\ escalated \subseteq WorkItem
              /\ announced \in [WorkItem -> Seq({"created", "linked"})]

\* No step of a pod spoils the board, given the item in its hands.
LEMMA BoardStep ==
    ASSUME PodTypes, BoardTypes, NEW a \in Agent, Step(a) \/ Fault(a)
    PROVE  BoardTypes'
  <1> USE DEF BoardTypes, Escalate, At, boardVars
  <1>1. agent[a].pc \notin {"idle", "polling"} => agent[a].item \in WorkItem
    BY DEF PodTypes, HandsOnAnItem
  <1>2. CASE UNCHANGED boardVars BY <1>2
  <1>3. CASE TriageEnds(a) BY <1>1, <1>3 DEF TriageEnds
  <1>4. CASE ClaimWorkItem(a) BY <1>1, <1>4 DEF ClaimWorkItem, Item
  <1>5. CASE PreFlightConflict(a) BY <1>1, <1>5 DEF PreFlightConflict
  <1>6. CASE EscalateTimeout(a) BY <1>1, <1>6 DEF EscalateTimeout
  <1>7. CASE CreatePr(a) BY <1>1, <1>7 DEF CreatePr
  <1>8. CASE PublishCreated(a) BY <1>1, <1>8 DEF PublishCreated
  <1>9. CASE PublishLinked(a) BY <1>1, <1>9 DEF PublishLinked
  <1>10. CASE Resolve(a) BY <1>1, <1>10 DEF Resolve, Item
  <1>11. CASE EscalateBlocked(a) BY <1>1, <1>11 DEF EscalateBlocked
  <1>12. CASE TagBlocked(a)
    <2> DEFINE wi == agent[a].item
               next == [items[wi] EXCEPT !.tags = {"ai-claimed", "ai-blocked"}]
    <2>1. wi \in WorkItem /\ items' = [items EXCEPT ![wi] = next]
      BY <1>1, <1>12 DEF TagBlocked
    <2>3. items[wi] \in Item BY <2>1
    <2>2. next \in Item BY <2>3 DEF Item
    <2> QED BY <1>12, <2>1, <2>2 DEF TagBlocked
  <1> QED BY <1>2, <1>3, <1>4, <1>5, <1>6, <1>7, <1>8, <1>9, <1>10, <1>11, <1>12
    DEF Step, Fault, Progress, SessionEnds, TimerFires, Poll, NothingToDo,
        Triage, AnnounceClaim, CreateBranch, PreFlightFresh, StartCoding,
        CreatePrRefused, AnnounceDone, CleanUp, CodingEnds, WatchdogFires,
        SessionTimerFires, OverBudget, AwaitFails, Shutdown, Exit, Crash,
        Gone, Start

\* Most steps only move a poll on that has its item and runs no child process.
LEMMA MovingOn ==
    ASSUME PodTypes, NEW a \in Agent, NEW pc \in Pcs,
           agent[a].pc \notin {"idle", "polling", "triage", "coding"},
           GoTo(a, pc), UNCHANGED <<session, armed, lifecycle>>
    PROVE  PodTypes'
  BY Moves DEF PodTypes, HandsOnAnItem, SessionsAreAwaited

\* A poll that ends leaves no child process behind.
LEMMA Retiring ==
    ASSUME PodTypes, NEW a \in Agent, GiveUp(a), UNCHANGED <<armed, lifecycle>>,
           \/ agent[a].pc \notin {"triage", "coding"} /\ UNCHANGED session
           \/ session' = [session EXCEPT ![a] = NoSession]
    PROVE  PodTypes'
  <1> USE DEF PodTypes, HandsOnAnItem, SessionsAreAwaited
  <1>1. CASE agent[a].pc \notin {"triage", "coding"} /\ UNCHANGED session
    BY <1>1, Retires
  <1>2. CASE session' = [session EXCEPT ![a] = NoSession]
    BY <1>2, Retires DEF NoSession, Session
  <1> QED BY <1>1, <1>2

\* A pod that is gone has neither poll nor child process nor timer.
LEMMA Leaving ==
    ASSUME PodTypes, NEW a \in Agent, Gone(a)
    PROVE  PodTypes'
  BY DEF PodTypes, HandsOnAnItem, SessionsAreAwaited, Gone, Idle, NoSession,
         AgentState, Session

\* A step of a pod keeps the types of the pods.
LEMMA PodStep ==
    ASSUME PodTypes, NEW a \in Agent, Step(a) \/ Fault(a)
    PROVE  PodTypes'
  <1> USE DEF At
  <1>t. /\ "idle" \in Pcs /\ PollPcs \subseteq Pcs
        /\ WorkPcs \subseteq Pcs /\ AftermathPcs \subseteq Pcs
    BY DEF Pcs
  <1>p. PollPcs = {"polling", "triage", "claim", "claimed"} BY DEF PollPcs
  <1>w. WorkPcs = {"branch", "preflight", "launch", "coding", "timedOut",
                   "createPr", "created", "linked", "resolve", "done"}
    BY DEF WorkPcs
  <1>a. AftermathPcs = {"blocked", "tag", "cleanup"} BY DEF AftermathPcs
  <1>1. CASE Poll(a)
    <2>1. GoTo(a, "polling") BY <1>1 DEF Poll
    <2> QED BY <1>1, <2>1, <1>t, <1>p, Moves
      DEF Poll, PodTypes, HandsOnAnItem, SessionsAreAwaited
  <1>2. CASE NothingToDo(a) BY <1>2, Retiring DEF NothingToDo
  <1>3. CASE Triage(a)
    <2>1. PICK wi \in WorkItem : agent' = [agent EXCEPT ![a] = [pc |-> "triage", item |-> wi]]
      BY <1>3 DEF Triage, Offered
    <2>2. [pc |-> "triage", item |-> wi] \in AgentState BY <1>t, <1>p DEF AgentState, Pcs
    <2>3. Spawn(a, "triage") BY <1>3 DEF Triage
    <2> QED BY <1>3, <2>1, <2>2, <2>3, Spawns
      DEF Triage, PodTypes, HandsOnAnItem, SessionsAreAwaited
  <1>4. CASE TriageEnds(a)
    <2>1. CASE GiveUp(a) BY <1>4, <2>1, Retiring DEF TriageEnds
    <2>2. CASE GoTo(a, "claim")
      BY <1>4, <2>2, <1>t, <1>p, Moves
        DEF TriageEnds, PodTypes, HandsOnAnItem, SessionsAreAwaited, NoSession, Session
    <2> QED BY <1>4, <2>1, <2>2 DEF TriageEnds
  <1>5. CASE ClaimWorkItem(a) BY <1>5, <1>t, <1>p, MovingOn DEF ClaimWorkItem
  <1>6. CASE AnnounceClaim(a) BY <1>6, <1>t, <1>w, MovingOn DEF AnnounceClaim
  <1>7. CASE CreateBranch(a) BY <1>7, <1>t, <1>w, MovingOn DEF CreateBranch
  <1>8. CASE PreFlightConflict(a)
    BY <1>8, <1>t, <1>a, MovingOn DEF PreFlightConflict
  <1>9. CASE PreFlightFresh(a)
    <2>1. GoTo(a, "launch") BY <1>9 DEF PreFlightFresh
    <2> QED BY <1>9, <2>1, <1>t, <1>w, Moves
      DEF PreFlightFresh, PodTypes, HandsOnAnItem, SessionsAreAwaited
  <1>10. CASE StartCoding(a)
    <2>1. GoTo(a, "coding") /\ Spawn(a, "coding") BY <1>10 DEF StartCoding
    <2> QED BY <1>10, <2>1, <1>t, <1>w, Moves, Spawns
      DEF StartCoding, PodTypes, HandsOnAnItem, SessionsAreAwaited
  <1>11. CASE WatchdogFires(a)
    BY <1>11 DEF WatchdogFires, PodTypes, HandsOnAnItem, SessionsAreAwaited, Session
  <1>12. CASE SessionTimerFires(a)
    <2> DEFINE next == [session[a] EXCEPT !.killed = TRUE, !.aborted = TRUE]
    <2>1. session' = [session EXCEPT ![a] = next] BY <1>12 DEF SessionTimerFires
    <2>2. next \in Session /\ next.kind = session[a].kind BY DEF PodTypes, Session
    <2> QED BY <1>12, <2>1, <2>2
      DEF SessionTimerFires, PodTypes, HandsOnAnItem, SessionsAreAwaited
  <1>13. CASE CodingEnds(a)
    <2> DEFINE next == IF session[a].aborted THEN "timedOut" ELSE "createPr"
    <2>1. GoTo(a, next) /\ next \in Pcs \ {"idle", "polling", "triage", "coding"}
      BY <1>13, <1>t, <1>w DEF CodingEnds
    <2>2. session' = [session EXCEPT ![a].kind = "none"] BY <1>13 DEF CodingEnds
    <2>3. session' \in [Agent -> Session]
      BY <2>2 DEF PodTypes, Session
    <2> QED BY <1>13, <2>1, <2>2, <2>3, Moves
      DEF CodingEnds, PodTypes, HandsOnAnItem, SessionsAreAwaited, Session
  <1>14. CASE EscalateTimeout(a)
    BY <1>14, <1>t, <1>a, MovingOn DEF EscalateTimeout
  <1>15. CASE CreatePr(a) BY <1>15, <1>t, <1>w, MovingOn DEF CreatePr
  <1>16. CASE CreatePrRefused(a)
    BY <1>16, <1>t, <1>a, MovingOn DEF CreatePrRefused
  <1>17. CASE PublishCreated(a) BY <1>17, <1>t, <1>w, MovingOn DEF PublishCreated
  <1>18. CASE PublishLinked(a) BY <1>18, <1>t, <1>w, MovingOn DEF PublishLinked
  <1>19. CASE Resolve(a) BY <1>19, <1>t, <1>w, MovingOn DEF Resolve
  <1>20. CASE AnnounceDone(a) BY <1>20, <1>t, <1>a, MovingOn DEF AnnounceDone
  <1>21. CASE EscalateBlocked(a)
    BY <1>21, <1>t, <1>a, MovingOn DEF EscalateBlocked
  <1>22. CASE TagBlocked(a) BY <1>22, <1>t, <1>a, MovingOn DEF TagBlocked
  <1>23. CASE CleanUp(a) BY <1>23, Retiring DEF CleanUp
  <1>24. CASE OverBudget(a) BY <1>24, Retiring DEF OverBudget
  <1>25. CASE AwaitFails(a)
    <2>1. CASE agent[a].pc \in {"polling", "claim", "claimed"} /\ GiveUp(a)
      BY <1>25, <2>1, Retiring DEF AwaitFails
    <2>2. CASE agent[a].pc \in WorkPcs \ {"coding"} /\ GoTo(a, "blocked")
      BY <1>25, <2>2, <1>t, <1>w, <1>a, MovingOn DEF AwaitFails
    <2>3. CASE agent[a].pc \in {"blocked", "tag"} /\ GoTo(a, "cleanup")
      BY <1>25, <2>3, <1>t, <1>a, MovingOn DEF AwaitFails
    <2> QED BY <1>25, <2>1, <2>2, <2>3 DEF AwaitFails
  <1>26. CASE Exit(a) \/ Crash(a) BY <1>26, Leaving DEF Exit, Crash
  <1>27. CASE Shutdown(a) \/ Start(a)
    BY <1>27 DEF Shutdown, Start, PodTypes, HandsOnAnItem, SessionsAreAwaited
  <1> QED BY <1>1, <1>2, <1>3, <1>4, <1>5, <1>6, <1>7, <1>8, <1>9, <1>10, <1>11,
             <1>12, <1>13, <1>14, <1>15, <1>16, <1>17, <1>18, <1>19, <1>20,
             <1>21, <1>22, <1>23, <1>24, <1>25, <1>26, <1>27
    DEF Step, Fault, Progress, SessionEnds, TimerFires

TypeInv == PodTypes /\ BoardTypes

\* Together they are an invariant: a step keeps them.
LEMMA TypeStep == TypeInv /\ [Next]_vars => TypeInv'
  <1>1. ASSUME TypeInv, NEW a \in Agent, Step(a) \/ Fault(a) PROVE TypeInv'
    BY <1>1, PodStep, BoardStep DEF TypeInv
  <1>2. ASSUME TypeInv, UNCHANGED vars PROVE TypeInv'
    BY <1>2 DEF TypeInv, PodTypes, BoardTypes, HandsOnAnItem, SessionsAreAwaited, vars
  <1> QED BY <1>1, <1>2 DEF Next

\* The initial state has the types.
LEMMA TypeInit == Init => TypeInv
  BY DEF Init, TypeInv, PodTypes, BoardTypes, HandsOnAnItem, SessionsAreAwaited,
         Idle, NoSession, AgentState, Session, Item

\* Every variable keeps its type, through faults, shutdowns and crashes.
THEOREM PodTypeCorrect == Spec => []TypeOK
  <1>1. TypeInv => TypeOK BY DEF TypeInv, PodTypes, BoardTypes, TypeOK
  <1> QED BY <1>1, TypeInit, TypeStep, PTL DEF Spec

-----------------------------------------------------------------------------
(* Safety through faults.                                                  *)

BoardInv == StagesAreReached /\ EventsFollowThePr /\ ResolvedIsAnnounced

\* A step of a pod moves no other poll, arms no other watchdog, and brings its
\* own poll to the stages after a pull request only by the calls that end in them.
LEMMA StepOfOne ==
    ASSUME TypeInv, NEW a \in Agent, Step(a) \/ Fault(a)
    PROVE  /\ \A b \in Agent \ {a} : agent'[b] = agent[b] /\ armed'[b] = armed[b]
           /\ \/ CreatePr(a) \/ PublishCreated(a) \/ PublishLinked(a)
              \/ agent'[a] = agent[a]
              \/ agent'[a].pc \notin {"created", "linked", "resolve"}
           /\ \/ PreFlightFresh(a) \/ StartCoding(a)
              \/ agent'[a] = agent[a] /\ armed'[a] \subseteq armed[a]
              \/ agent'[a].pc \notin {"launch", "coding"}
  BY DEF TypeInv, PodTypes, AgentState, Step, Fault, Progress, SessionEnds, TimerFires,
         Poll, NothingToDo, Triage, TriageEnds, ClaimWorkItem, AnnounceClaim,
         CreateBranch, PreFlightConflict, PreFlightFresh, StartCoding,
         WatchdogFires, SessionTimerFires, CodingEnds, EscalateTimeout, CreatePr,
         CreatePrRefused, PublishCreated, PublishLinked, Resolve, AnnounceDone,
         EscalateBlocked, TagBlocked, CleanUp, OverBudget, AwaitFails, Shutdown,
         Exit, Crash, Gone, Start, GoTo, GiveUp, Idle, At

\* Pull requests stay open and announcements stay made; an item becomes
\* Resolved only at the end of the work on it.
LEMMA BoardOnlyGrows ==
    ASSUME TypeInv, NEW a \in Agent, Step(a) \/ Fault(a), NEW wi \in WorkItem
    PROVE  /\ pulls[wi] # NoAgent => pulls'[wi] = pulls[wi]
           /\ \/ announced'[wi] = announced[wi]
              \/ PublishCreated(a) /\ agent[a].item = wi
              \/ PublishLinked(a) /\ agent[a].item = wi
           /\ \/ items'[wi].state = "Resolved" => items[wi].state = "Resolved"
              \/ Resolve(a) /\ agent[a].item = wi
  <1>1. pulls[wi] # NoAgent => pulls'[wi] = pulls[wi]
    BY DEF TypeInv, BoardTypes, Item, PublishCreated, PublishLinked,
           Step, Fault, Progress, SessionEnds, TimerFires,
           Poll, NothingToDo, Triage, TriageEnds, ClaimWorkItem, AnnounceClaim,
           CreateBranch, PreFlightConflict, PreFlightFresh, StartCoding,
           WatchdogFires, SessionTimerFires, CodingEnds, EscalateTimeout, CreatePr,
           CreatePrRefused, Resolve, AnnounceDone, EscalateBlocked, TagBlocked, CleanUp,
           OverBudget, AwaitFails, Shutdown, Exit, Crash, Gone, Start, boardVars
  <1>2. \/ announced'[wi] = announced[wi]
        \/ PublishCreated(a) /\ agent[a].item = wi
        \/ PublishLinked(a) /\ agent[a].item = wi
    <2>1. CASE UNCHANGED announced BY <2>1
    <2>2. CASE PublishCreated(a) BY <2>2 DEF PublishCreated, TypeInv, BoardTypes
    <2>3. CASE PublishLinked(a) BY <2>3 DEF PublishLinked, TypeInv, BoardTypes
    <2> QED BY <2>1, <2>2, <2>3
      DEF Step, Fault, Progress, SessionEnds, TimerFires,
           Poll, NothingToDo, Triage, TriageEnds, ClaimWorkItem, AnnounceClaim,
           CreateBranch, PreFlightConflict, PreFlightFresh, StartCoding,
           WatchdogFires, SessionTimerFires, CodingEnds, EscalateTimeout, CreatePr,
           CreatePrRefused, Resolve, AnnounceDone, EscalateBlocked, TagBlocked, CleanUp,
           OverBudget, AwaitFails, Shutdown, Exit, Crash, Gone, Start, boardVars
  <1>3. \/ items'[wi].state = "Resolved" => items[wi].state = "Resolved"
        \/ Resolve(a) /\ agent[a].item = wi
    BY DEF TypeInv, BoardTypes, Item, PublishCreated, PublishLinked,
           Step, Fault, Progress, SessionEnds, TimerFires,
           Poll, NothingToDo, Triage, TriageEnds, ClaimWorkItem, AnnounceClaim,
           CreateBranch, PreFlightConflict, PreFlightFresh, StartCoding,
           WatchdogFires, SessionTimerFires, CodingEnds, EscalateTimeout, CreatePr,
           CreatePrRefused, Resolve, AnnounceDone, EscalateBlocked, TagBlocked, CleanUp,
           OverBudget, AwaitFails, Shutdown, Exit, Crash, Gone, Start, boardVars
  <1> QED BY <1>1, <1>2, <1>3

\* A sequence of one that grows by one is the sequence of the two.
LEMMA AppendedPair ==
    ASSUME NEW S, NEW x \in S, NEW y \in S
    PROVE  Append(<<x>>, y) = <<x, y>> /\ <<x>> # <<x, y>>
  <1> DEFINE s == Append(<<x>>, y)
             t == <<x, y>>
  <1>1. <<x>> \in Seq(S) /\ Len(<<x>>) = 1 /\ <<x>>[1] = x OBVIOUS
  <1>2. s \in Seq(S) /\ Len(s) = 2 /\ s[1] = x /\ s[2] = y BY <1>1, AppendProperties
  <1>3. t \in Seq(S) /\ Len(t) = 2 /\ t[1] = x /\ t[2] = y OBVIOUS
  <1> HIDE DEF s, t
  <1>4. s = t /\ t # <<x>> BY <1>1, <1>2, <1>3, SeqEqual
  <1> QED BY <1>4 DEF s, t

\* What the two events leave published, one after the other.
LEMMA EventsInTurn ==
    /\ Append(<<>>, "created") = <<"created">> /\ <<>> # <<"created">>
    /\ Append(<<"created">>, "linked") = <<"created", "linked">>
    /\ <<"created">> # <<"created", "linked">>
  <1>1. Append(<<>>, "created") = <<"created">> /\ <<>> # <<"created">> OBVIOUS
  <1>2. "created" \in {"created", "linked"} /\ "linked" \in {"created", "linked"} OBVIOUS
  <1> QED BY <1>1, <1>2, AppendedPair

\* No step takes back a stage reached, an event in order or a resolution
\* announced.
LEMMA BoardInvStep ==
    ASSUME TypeInv, BoardInv, NEW a \in Agent, Step(a) \/ Fault(a)
    PROVE  BoardInv'
  <1> USE DEF BoardInv
  <1>t. TypeInv' BY TypeStep DEF Next
  <1>h. \A b \in Agent : agent[b].pc \in {"created", "linked", "resolve"}
                            => agent[b].item \in WorkItem
    BY DEF TypeInv, PodTypes, HandsOnAnItem
  <1>n. NoAgent \notin Agent BY PodAssumption
  <1>1. \A b \in Agent \ {a} : agent'[b] = agent[b] BY StepOfOne
  <1>2. ASSUME NEW wi \in WorkItem, announced'[wi] # announced[wi]
        PROVE  /\ agent[a].item = wi /\ pulls[wi] = a /\ pulls'[wi] = a
               /\ \/ PublishCreated(a) /\ announced'[wi] = <<"created">>
                  \/ PublishLinked(a) /\ announced'[wi] = <<"created", "linked">>
    <2>1. CASE PublishCreated(a) /\ agent[a].item = wi
      <3>1. pulls[wi] = a /\ announced[wi] = <<>>
        BY <2>1 DEF PublishCreated, At, StagesAreReached, Reached
      <3>2. announced'[wi] = Append(<<>>, "created") /\ UNCHANGED pulls
        BY <2>1, <3>1 DEF PublishCreated, TypeInv, BoardTypes
      <3> QED BY <2>1, <3>1, <3>2, EventsInTurn
    <2>2. CASE PublishLinked(a) /\ agent[a].item = wi
      <3>1. pulls[wi] = a /\ announced[wi] = <<"created">>
        BY <2>2 DEF PublishLinked, At, StagesAreReached, Reached
      <3>2. announced'[wi] = Append(<<"created">>, "linked") /\ UNCHANGED pulls
        BY <2>2, <3>1 DEF PublishLinked, TypeInv, BoardTypes
      <3> QED BY <2>2, <3>1, <3>2, EventsInTurn
    <2> QED BY <1>2, <2>1, <2>2, BoardOnlyGrows
  <1>3. StagesAreReached'
    <2> SUFFICES ASSUME NEW b \in Agent, agent'[b].pc \in {"created", "linked", "resolve"}
                 PROVE  /\ pulls'[agent'[b].item] = b
                        /\ announced'[agent'[b].item] = Reached(agent'[b].pc)
      BY DEF StagesAreReached, Reached
    <2>1. CASE agent'[b] = agent[b]
      <3> DEFINE wi == agent[b].item
      <3>1. wi \in WorkItem /\ pulls[wi] = b /\ announced[wi] = Reached(agent[b].pc)
        BY <1>h, <2>1 DEF StagesAreReached
      <3>2. pulls'[wi] = b BY <1>n, <3>1, BoardOnlyGrows
      <3>3. ASSUME announced'[wi] # announced[wi] PROVE FALSE
        <4>1. b = a /\ (PublishCreated(a) \/ PublishLinked(a)) BY <1>2, <3>1, <3>3
        <4>2. agent'[a].pc # agent[a].pc
          BY <4>1, Moves DEF PublishCreated, PublishLinked, At, TypeInv, PodTypes, Pcs, WorkPcs
        <4> QED BY <2>1, <4>1, <4>2
      <3> QED BY <2>1, <3>1, <3>2, <3>3
    <2>2. CASE b = a /\ CreatePr(a)
      <3>1. agent'[a].pc = "created" /\ agent'[a].item = agent[a].item
        BY <2>2, Moves DEF CreatePr, TypeInv, PodTypes, Pcs, WorkPcs
      <3>2. agent[a].item \in WorkItem
        BY <2>2 DEF CreatePr, At, TypeInv, PodTypes, HandsOnAnItem
      <3>3. announced'[agent[a].item] = <<>>
        BY <2>2, <3>2 DEF CreatePr, EventsFollowThePr
      <3> QED BY <2>2, <3>1, <3>2, <3>3 DEF CreatePr, TypeInv, BoardTypes, Reached
    <2>3. CASE b = a /\ PublishCreated(a)
      <3>1. agent'[a].pc = "linked" /\ agent'[a].item = agent[a].item
        BY <2>3, Moves DEF PublishCreated, TypeInv, PodTypes, Pcs, WorkPcs
      <3>2. agent[a].item \in WorkItem /\ announced[agent[a].item] = <<>>
        BY <2>3, <1>h DEF PublishCreated, At, StagesAreReached, Reached
      <3>3. announced'[agent[a].item] = Append(<<>>, "created")
        BY <2>3, <3>2 DEF PublishCreated, TypeInv, BoardTypes
      <3>4. announced'[agent[a].item] # announced[agent[a].item] BY <3>2, <3>3, EventsInTurn
      <3> QED BY <1>2, <2>3, <3>1, <3>2, <3>3, <3>4 DEF Reached
    <2>4. CASE b = a /\ PublishLinked(a)
      <3>1. agent'[a].pc = "resolve" /\ agent'[a].item = agent[a].item
        BY <2>4, Moves DEF PublishLinked, TypeInv, PodTypes, Pcs, WorkPcs
      <3>2. agent[a].item \in WorkItem /\ announced[agent[a].item] = <<"created">>
        BY <2>4, <1>h DEF PublishLinked, At, StagesAreReached, Reached
      <3>3. announced'[agent[a].item] = Append(<<"created">>, "linked")
        BY <2>4, <3>2 DEF PublishLinked, TypeInv, BoardTypes
      <3>4. announced'[agent[a].item] = <<"created", "linked">> BY <3>3, EventsInTurn
      <3>5. announced'[agent[a].item] # announced[agent[a].item] BY <3>2, <3>4, EventsInTurn
      <3> QED BY <1>2, <2>4, <3>1, <3>2, <3>4, <3>5 DEF Reached
    <2> QED BY <2>1, <2>2, <2>3, <2>4, StepOfOne
  <1>4. EventsFollowThePr'
    <2> SUFFICES ASSUME NEW wi \in WorkItem
                 PROVE  \/ announced'[wi] = <<>>
                        \/ /\ pulls'[wi] # NoAgent
                           /\ announced'[wi] \in {<<"created">>, <<"created", "linked">>}
      BY DEF EventsFollowThePr
    <2>1. CASE announced'[wi] = announced[wi]
      BY <2>1, BoardOnlyGrows DEF EventsFollowThePr
    <2>2. CASE announced'[wi] # announced[wi] BY <1>n, <1>2, <2>2
    <2> QED BY <2>1, <2>2
  <1>5. ResolvedIsAnnounced'
    <2> SUFFICES ASSUME NEW wi \in WorkItem, items'[wi].state = "Resolved"
                 PROVE  announced'[wi] = <<"created", "linked">>
      BY DEF ResolvedIsAnnounced
    <2>1. CASE items[wi].state = "Resolved"
      <3>1. announced[wi] = <<"created", "linked">> BY <2>1 DEF ResolvedIsAnnounced
      <3>2. ASSUME announced'[wi] # announced[wi] PROVE announced'[wi] = <<"created", "linked">>
        <4>1. CASE PublishCreated(a) /\ agent[a].item = wi
          BY <3>1, <4>1 DEF PublishCreated, At, StagesAreReached, Reached
        <4>2. CASE PublishLinked(a)
          BY <1>2, <3>2, <4>2 DEF PublishCreated, PublishLinked, At
        <4> QED BY <1>2, <3>2, <4>1, <4>2
      <3> QED BY <3>1, <3>2
    <2>2. CASE Resolve(a) /\ agent[a].item = wi
      BY <2>2 DEF Resolve, At, StagesAreReached, Reached
    <2> QED BY <2>1, <2>2, BoardOnlyGrows
  <1> QED BY <1>3, <1>4, <1>5

\* Only a fresh pre-flight enters the stages under the watchdog, and it has
\* re-armed it.
LEMMA WatchdogStep ==
    ASSUME TypeInv, WatchdogIsCurrent, NEW a \in Agent, Step(a) \/ Fault(a)
    PROVE  WatchdogIsCurrent'
  <1> SUFFICES ASSUME NEW b \in Agent, agent'[b].pc \in {"launch", "coding"}
               PROVE  armed'[b] \subseteq {agent'[b].item}
    BY DEF WatchdogIsCurrent
  <1>1. CASE agent'[b] = agent[b] /\ armed'[b] \subseteq armed[b]
    BY <1>1 DEF WatchdogIsCurrent
  <1>2. CASE b = a /\ PreFlightFresh(a)
    BY <1>2, Moves DEF PreFlightFresh, TypeInv, PodTypes, Pcs, WorkPcs
  <1>3. CASE b = a /\ StartCoding(a)
    BY <1>3, Moves DEF StartCoding, At, WatchdogIsCurrent, TypeInv, PodTypes, Pcs, WorkPcs
  <1> QED BY <1>1, <1>2, <1>3, StepOfOne

PodInv == TypeInv /\ BoardInv /\ WatchdogIsCurrent

\* The inductive invariant of the pods: what each stage of the work has left
\* behind, in every reachable state.
THEOREM PodSafety == Spec => []PodInv
  <1>1. Init => PodInv
    BY TypeInit DEF Init, PodInv, BoardInv, StagesAreReached, EventsFollowThePr,
                    ResolvedIsAnnounced, WatchdogIsCurrent, Idle
  <1>2. PodInv /\ [Next]_vars => PodInv'
    <2>1. ASSUME PodInv, NEW a \in Agent, Step(a) \/ Fault(a) PROVE PodInv'
      BY <2>1, TypeStep, BoardInvStep, WatchdogStep DEF PodInv, Next
    <2>2. ASSUME PodInv, UNCHANGED vars PROVE PodInv'
      <3>1. TypeInv' BY <2>2, TypeStep DEF PodInv
      <3> QED BY <2>2, <3>1
        DEF PodInv, BoardInv, StagesAreReached, EventsFollowThePr,
            ResolvedIsAnnounced, WatchdogIsCurrent, vars
    <2> QED BY <2>1, <2>2 DEF Next
  <1> QED BY <1>1, <1>2, PTL DEF Spec

\* The DWI events of an item are about a pull request that exists, in order and once
\* each, whichever pods worked on it and whatever failed.
THEOREM PrEventsInOrder == Spec => []EventsFollowThePr
  <1>1. PodInv => EventsFollowThePr BY DEF PodInv, BoardInv
  <1> QED BY <1>1, PodSafety, PTL

\* The billing service has been told of every Resolved item.
THEOREM ResolutionsAreAnnounced == Spec => []ResolvedIsAnnounced
  <1>1. PodInv => ResolvedIsAnnounced BY DEF PodInv, BoardInv
  <1> QED BY <1>1, PodSafety, PTL

\* No coding session runs under the timer of another item.
THEOREM WatchdogsStayHome == Spec => []CodingHasItsOwnWatchdog
  <1>1. PodInv => CodingHasItsOwnWatchdog
    BY DEF PodInv, TypeInv, PodTypes, SessionsAreAwaited, WatchdogIsCurrent,
           CodingHasItsOwnWatchdog
  <1> QED BY <1>1, PodSafety, PTL

-----------------------------------------------------------------------------
(* What every step of a poll in progress comes nearer to.                  *)

\* How far an await is from the end of its poll, the longest way round.
Rank(pc) ==
    CASE pc = "polling" -> 17 [] pc = "triage" -> 16
      [] pc = "claim" -> 15 [] pc = "claimed" -> 14
      [] pc = "branch" -> 13 [] pc = "preflight" -> 12
      [] pc = "launch" -> 11 [] pc = "coding" -> 10
      [] pc \in {"timedOut", "createPr"} -> 9
      [] pc = "created" -> 8 [] pc = "linked" -> 7 [] pc = "resolve" -> 6
      [] pc = "done" -> 5 [] pc = "blocked" -> 4 [] pc = "tag" -> 3
      [] pc = "cleanup" -> 2 [] pc = "idle" -> 0

\* The timers that may still fire: the watchdog's, and that of the child process.
TimersLeft(a) ==
    (IF armed[a] = {} THEN 0 ELSE 1)
    + (IF session[a].kind = "none" \/ session[a].aborted THEN 0 ELSE 1)

PollLeft(a) == 3 * Rank(agent[a].pc) + TimersLeft(a)

pollVars(a) == <<agent[a], session[a], armed[a]>>

\* The place of each await.
LEMMA Ranks ==
    /\ Rank("polling") = 17 /\ Rank("triage") = 16 /\ Rank("claim") = 15
    /\ Rank("claimed") = 14 /\ Rank("branch") = 13 /\ Rank("preflight") = 12
    /\ Rank("launch") = 11 /\ Rank("coding") = 10 /\ Rank("timedOut") = 9
    /\ Rank("createPr") = 9 /\ Rank("created") = 8 /\ Rank("linked") = 7
    /\ Rank("resolve") = 6 /\ Rank("done") = 5 /\ Rank("blocked") = 4
    /\ Rank("tag") = 3 /\ Rank("cleanup") = 2 /\ Rank("idle") = 0
  <1>1. Rank("polling") = 17 BY DEF Rank
  <1>2. Rank("triage") = 16 BY DEF Rank
  <1>3. Rank("claim") = 15 BY DEF Rank
  <1>4. Rank("claimed") = 14 BY DEF Rank
  <1>5. Rank("branch") = 13 BY DEF Rank
  <1>6. Rank("preflight") = 12 BY DEF Rank
  <1>7. Rank("launch") = 11 BY DEF Rank
  <1>8. Rank("coding") = 10 BY DEF Rank
  <1>9. Rank("timedOut") = 9 BY DEF Rank
  <1>10. Rank("createPr") = 9 BY DEF Rank
  <1>11. Rank("created") = 8 BY DEF Rank
  <1>12. Rank("linked") = 7 BY DEF Rank
  <1>13. Rank("resolve") = 6 BY DEF Rank
  <1>14. Rank("done") = 5 BY DEF Rank
  <1>15. Rank("blocked") = 4 BY DEF Rank
  <1>16. Rank("tag") = 3 BY DEF Rank
  <1>17. Rank("cleanup") = 2 BY DEF Rank
  <1>18. Rank("idle") = 0 BY DEF Rank
  <1> QED
    BY <1>1, <1>2, <1>3, <1>4, <1>5, <1>6, <1>7, <1>8, <1>9,
       <1>10, <1>11, <1>12, <1>13, <1>14, <1>15, <1>16, <1>17, <1>18

\* Every await has one.
LEMMA Ranked == \A pc \in Pcs : Rank(pc) \in 0..17 /\ (pc # "idle" => Rank(pc) > 0)
  BY Ranks DEF Pcs, PollPcs, WorkPcs, AftermathPcs

\* A step of a pod leaves the polls of the others as they are.
LEMMA PollOfOne ==
    ASSUME TypeInv, NEW a \in Agent, Step(a) \/ Fault(a), NEW b \in Agent \ {a}
    PROVE  agent'[b] = agent[b] /\ session'[b] = session[b] /\ armed'[b] = armed[b]
  BY DEF TypeInv, PodTypes, AgentState, Step, Fault, Progress, SessionEnds, TimerFires,
         Poll, NothingToDo, Triage, TriageEnds, ClaimWorkItem, AnnounceClaim,
         CreateBranch, PreFlightConflict, PreFlightFresh, StartCoding,
         WatchdogFires, SessionTimerFires, CodingEnds, EscalateTimeout, CreatePr,
         CreatePrRefused, PublishCreated, PublishLinked, Resolve, AnnounceDone,
         EscalateBlocked, TagBlocked, CleanUp, OverBudget, AwaitFails, Shutdown,
         Exit, Crash, Gone, Start, GoTo, GiveUp, Idle, Spawn, NoSession

\* A step of a poll goes on to a later await, ends the poll, or is a timer's.
LEMMA PollMoves ==
    ASSUME TypeInv, NEW a \in Agent, Step(a) \/ Fault(a), agent[a].pc # "idle"
    PROVE  \/ Rank(agent'[a].pc) < Rank(agent[a].pc)
           \/ agent'[a] = agent[a] /\ TimersLeft(a)' < TimersLeft(a)
           \/ UNCHANGED pollVars(a)
  <1> DEFINE Falls == Rank(agent'[a].pc) < Rank(agent[a].pc)
  <1>t. agent \in [Agent -> AgentState] /\ agent[a].pc \in Pcs
    BY DEF TypeInv, PodTypes, AgentState, Pcs
  <1> SUFFICES \/ Falls
               \/ agent'[a] = agent[a] /\ TimersLeft(a)' < TimersLeft(a)
               \/ UNCHANGED pollVars(a)
    OBVIOUS
  <1>0. ASSUME GiveUp(a) PROVE Falls
    BY <1>t, <1>0, Retires, Ranks, Ranked
  <1>g. ASSUME NEW pc \in Pcs, GoTo(a, pc), Rank(pc) < Rank(agent[a].pc) PROVE Falls
    BY <1>t, <1>g, Moves
  <1> HIDE DEF Falls
  <1>p. /\ \A pc \in PollPcs \cup WorkPcs \cup AftermathPcs : pc \in Pcs
        /\ {"triage", "claim", "claimed"} \subseteq PollPcs
        /\ {"branch", "preflight", "launch", "coding", "timedOut", "createPr", "created",
            "linked", "resolve", "done"} = WorkPcs
        /\ {"blocked", "tag", "cleanup"} = AftermathPcs
    BY DEF Pcs, PollPcs, WorkPcs, AftermathPcs
  <1>1. CASE Poll(a) BY <1>1 DEF Poll
  <1>2. CASE NothingToDo(a) \/ OverBudget(a) \/ CleanUp(a)
    BY <1>0, <1>2 DEF NothingToDo, OverBudget, CleanUp
  <1>3. CASE Triage(a)
    <2>1. agent'[a].pc = "triage" /\ agent[a].pc = "polling"
      BY <1>t, <1>3 DEF Triage, At
    <2> QED BY <2>1, Ranks DEF Falls
  <1>4. CASE TriageEnds(a)
    BY <1>0, <1>g, <1>p, Ranks, <1>4 DEF TriageEnds, At
  <1>5. CASE ClaimWorkItem(a) BY <1>g, <1>p, Ranks, <1>5 DEF ClaimWorkItem, At
  <1>6. CASE AnnounceClaim(a) BY <1>g, <1>p, Ranks, <1>6 DEF AnnounceClaim, At
  <1>7. CASE CreateBranch(a) BY <1>g, <1>p, Ranks, <1>7 DEF CreateBranch, At
  <1>8. CASE PreFlightConflict(a) BY <1>g, <1>p, Ranks, <1>8 DEF PreFlightConflict, At
  <1>9. CASE PreFlightFresh(a) BY <1>g, <1>p, Ranks, <1>9 DEF PreFlightFresh, At
  <1>10. CASE StartCoding(a) BY <1>g, <1>p, Ranks, <1>10 DEF StartCoding, At
  <1>11. CASE WatchdogFires(a)
    <2>1. agent' = agent /\ armed[a] # {} /\ armed'[a] = {}
      BY <1>11 DEF WatchdogFires, TypeInv, PodTypes
    <2>2. session'[a].kind = session[a].kind /\ session'[a].aborted = session[a].aborted
      BY <1>11 DEF WatchdogFires, TypeInv, PodTypes, Session
    <2> QED BY <2>1, <2>2 DEF TimersLeft
  <1>12. CASE SessionTimerFires(a)
    <2> DEFINE next == [session[a] EXCEPT !.killed = TRUE, !.aborted = TRUE]
    <2>1. session' = [session EXCEPT ![a] = next] BY <1>12 DEF SessionTimerFires
    <2>2. next.aborted = TRUE BY DEF TypeInv, PodTypes, Session
    <2>3. agent' = agent /\ armed' = armed /\ session[a].kind # "none" /\ ~session[a].aborted
      BY <1>12 DEF SessionTimerFires
    <2>4. session'[a].aborted
      <3> HIDE DEF next
      <3> QED BY <2>1, <2>2 DEF TypeInv, PodTypes
    <2> QED BY <2>3, <2>4 DEF TimersLeft
  <1>13. CASE CodingEnds(a) BY <1>g, <1>p, Ranks, <1>13 DEF CodingEnds, At
  <1>14. CASE EscalateTimeout(a) BY <1>g, <1>p, Ranks, <1>14 DEF EscalateTimeout, At
  <1>15. CASE CreatePr(a) BY <1>g, <1>p, Ranks, <1>15 DEF CreatePr, At
  <1>16. CASE CreatePrRefused(a) BY <1>g, <1>p, Ranks, <1>16 DEF CreatePrRefused, At
  <1>17. CASE PublishCreated(a) BY <1>g, <1>p, Ranks, <1>17 DEF PublishCreated, At
  <1>18. CASE PublishLinked(a) BY <1>g, <1>p, Ranks, <1>18 DEF PublishLinked, At
  <1>19. CASE Resolve(a) BY <1>g, <1>p, Ranks, <1>19 DEF Resolve, At
  <1>20. CASE AnnounceDone(a) BY <1>g, <1>p, Ranks, <1>20 DEF AnnounceDone, At
  <1>21. CASE EscalateBlocked(a) BY <1>g, <1>p, Ranks, <1>21 DEF EscalateBlocked, At
  <1>22. CASE TagBlocked(a) BY <1>g, <1>p, Ranks, <1>22 DEF TagBlocked, At
  <1>23. CASE AwaitFails(a)
    <2>1. CASE GiveUp(a) BY <1>0, <2>1
    <2>2. CASE agent[a].pc \in WorkPcs \ {"coding"} /\ GoTo(a, "blocked")
      <3>1. Rank("blocked") < Rank(agent[a].pc) BY <1>p, <2>2, Ranks
      <3> QED BY <1>g, <1>p, <2>2, <3>1
    <2>3. CASE agent[a].pc \in {"blocked", "tag"} /\ GoTo(a, "cleanup")
      <3>1. Rank("cleanup") < Rank(agent[a].pc) BY <2>3, Ranks
      <3> QED BY <1>g, <1>p, <2>3, <3>1
    <2> QED BY <1>23, <2>1, <2>2, <2>3 DEF AwaitFails
  <1>24. CASE Exit(a) \/ Crash(a)
    <2>1. agent'[a].pc = "idle" BY <1>t, <1>24 DEF Exit, Crash, Gone, Idle
    <2> QED BY <1>t, <2>1, Ranks, Ranked DEF Falls
  <1>25. CASE Shutdown(a) \/ Start(a) BY <1>25 DEF Shutdown, Start, pollVars
  <1> QED BY <1>1, <1>2, <1>3, <1>4, <1>5, <1>6, <1>7, <1>8, <1>9, <1>10, <1>11, <1>12,
             <1>13, <1>14, <1>15, <1>16, <1>17, <1>18, <1>19, <1>20, <1>21, <1>22, <1>23,
             <1>24, <1>25
    DEF Step, Fault, Progress, SessionEnds, TimerFires

\* A poll in progress, once begun, is at most 53 steps of its own from its end, whatever
\* fails, whichever timer fires and whatever the other pods do: no await is come back to,
\* and nothing inside a poll is tried twice.
THEOREM PollsGetOn ==
    Spec => [][\A a \in Agent :
                  /\ PollLeft(a) \in 0..53
                  /\ agent[a].pc # "idle" /\ ~UNCHANGED pollVars(a)
                         => PollLeft(a)' < PollLeft(a)]_vars
  <1>1. Spec => []TypeInv BY TypeInit, TypeStep, PTL DEF Spec
  <1>2. TypeInv /\ TypeInv' /\ [Next]_vars =>
            [\A a \in Agent :
                /\ PollLeft(a) \in 0..53
                /\ agent[a].pc # "idle" /\ ~UNCHANGED pollVars(a)
                       => PollLeft(a)' < PollLeft(a)]_vars
    <2> SUFFICES ASSUME TypeInv, TypeInv', [Next]_vars, ~UNCHANGED vars, NEW a \in Agent
                 PROVE  /\ PollLeft(a) \in 0..53
                        /\ agent[a].pc # "idle" /\ ~UNCHANGED pollVars(a)
                               => PollLeft(a)' < PollLeft(a)
      OBVIOUS
    <2>1. Rank(agent[a].pc) \in 0..17 /\ Rank(agent'[a].pc) \in 0..17
      BY Ranked DEF TypeInv, PodTypes, AgentState, Pcs
    <2>2. TimersLeft(a) \in 0..2 /\ TimersLeft(a)' \in 0..2 BY DEF TimersLeft
    <2>3. ASSUME agent[a].pc # "idle", ~UNCHANGED pollVars(a)
          PROVE  PollLeft(a)' < PollLeft(a)
      <3>1. PICK b \in Agent : Step(b) \/ Fault(b) BY DEF Next
      <3>2. b = a BY <2>3, <3>1, PollOfOne DEF pollVars
      <3>3. \/ Rank(agent'[a].pc) < Rank(agent[a].pc)
            \/ agent'[a] = agent[a] /\ TimersLeft(a)' < TimersLeft(a)
        BY <2>3, <3>1, <3>2, PollMoves
      <3> QED BY <2>1, <2>2, <3>3 DEF PollLeft
    <2> QED BY <2>1, <2>2, <2>3 DEF PollLeft
  <1> QED BY <1>1, <1>2, PTL DEF Spec

-----------------------------------------------------------------------------
(* Without faults.                                                         *)

\* A reliable step starts no item, and leaves an item that it takes from hand
\* to hand at work, resolved or escalated.
LEMMA HandsStep ==
    ASSUME TypeInv, ActiveIsInHand, NEW a \in Agent, Step(a)
    PROVE  ActiveIsInHand'
  <1> SUFFICES ASSUME NEW wi \in WorkItem, items'[wi].state = "Active", wi \notin escalated'
               PROVE  AtWork(wi)'
    BY DEF ActiveIsInHand
  <1> DEFINE Busy == ({"claimed", "blocked"} \cup WorkPcs) \ {"done"}
  <1>w. WorkPcs = {"branch", "preflight", "launch", "coding", "timedOut",
                   "createPr", "created", "linked", "resolve", "done"}
    BY DEF WorkPcs
  <1>b. Busy \subseteq Pcs BY DEF Pcs, PollPcs, AftermathPcs
  <1>1. wi \notin escalated
    BY DEF Step, Progress, SessionEnds, TimerFires, Escalate,
           Poll, NothingToDo, Triage, TriageEnds, ClaimWorkItem, AnnounceClaim,
           CreateBranch, PreFlightConflict, PreFlightFresh, StartCoding,
           WatchdogFires, SessionTimerFires, CodingEnds, EscalateTimeout, CreatePr,
           CreatePrRefused, PublishCreated, PublishLinked, Resolve, AnnounceDone,
           EscalateBlocked, TagBlocked, CleanUp, boardVars
  <1>2. CASE ClaimWorkItem(a) /\ agent[a].item = wi
    <2>1. agent'[a].pc = "claimed" /\ agent'[a].item = wi
      BY <1>2, Moves DEF ClaimWorkItem, TypeInv, PodTypes, Pcs, PollPcs
    <2> QED BY <2>1 DEF AtWork
  <1>3. CASE ~(ClaimWorkItem(a) /\ agent[a].item = wi)
    <2>1. items[wi].state = "Active"
      BY <1>3 DEF TypeInv, BoardTypes, Item, Step, Progress, SessionEnds, TimerFires,
           Poll, NothingToDo, Triage, TriageEnds, ClaimWorkItem, AnnounceClaim,
           CreateBranch, PreFlightConflict, PreFlightFresh, StartCoding,
           WatchdogFires, SessionTimerFires, CodingEnds, EscalateTimeout, CreatePr,
           CreatePrRefused, PublishCreated, PublishLinked, Resolve, AnnounceDone,
           EscalateBlocked, TagBlocked, CleanUp, boardVars
    <2>2. PICK b \in Agent : agent[b].item = wi /\ agent[b].pc \in Busy
      BY <1>1, <2>1 DEF ActiveIsInHand, AtWork
    <2>3. CASE agent'[b] = agent[b] BY <2>2, <2>3 DEF AtWork
    <2>4. CASE b = a /\ agent'[b].item = wi /\ agent'[b].pc \in Busy
      BY <2>4 DEF AtWork
    <2>5. CASE b = a /\ agent'[a] # agent[a]
      <3> HIDE DEF Busy
      <3>1. agent[a].pc \in {"claimed", "blocked", "branch", "preflight", "launch",
                             "coding", "timedOut", "createPr", "created", "linked",
                             "resolve"}
        BY <2>2, <2>5, <1>w DEF Busy
      <3>2. ~EscalateBlocked(a) /\ ~PreFlightConflict(a) /\ ~EscalateTimeout(a)
        BY <2>2, <2>5 DEF EscalateBlocked, PreFlightConflict, EscalateTimeout, Escalate
      <3>3. ~Resolve(a)
        BY <2>2, <2>5 DEF Resolve, TypeInv, BoardTypes, Item
      <3>4. PICK pc \in Busy : GoTo(a, pc)
        BY <1>w, <2>5, <3>1, <3>2, <3>3
          DEF Busy, Step, Progress, SessionEnds, TimerFires, At,
              Poll, NothingToDo, Triage, TriageEnds, ClaimWorkItem, AnnounceClaim,
              CreateBranch, PreFlightFresh, StartCoding, WatchdogFires,
              SessionTimerFires, CodingEnds, CreatePr, CreatePrRefused,
              PublishCreated, PublishLinked, AnnounceDone, TagBlocked, CleanUp
      <3> QED BY <1>b, <2>2, <2>4, <2>5, <3>4, Moves DEF TypeInv, PodTypes
    <2> QED BY <2>3, <2>4, <2>5, StepOfOne
  <1> QED BY <1>2, <1>3

\* While calls succeed and pods stay up, an Active item is in the hands of a
\* pod or was escalated.
THEOREM NobodyForgets == ReliableSpec => []ActiveIsInHand
  <1> DEFINE Steps == \E a \in Agent : Step(a)
  <1>1. Init => TypeInv /\ ActiveIsInHand
    BY TypeInit DEF Init, ActiveIsInHand
  <1>2. TypeInv /\ ActiveIsInHand /\ [Steps]_vars => (TypeInv /\ ActiveIsInHand)'
    <2>1. ASSUME TypeInv, ActiveIsInHand, NEW a \in Agent, Step(a)
          PROVE  (TypeInv /\ ActiveIsInHand)'
      BY <2>1, TypeStep, HandsStep DEF Next
    <2>2. ASSUME TypeInv, ActiveIsInHand, UNCHANGED vars
          PROVE  (TypeInv /\ ActiveIsInHand)'
      BY <2>2, TypeStep DEF ActiveIsInHand, AtWork, vars
    <2> QED BY <2>1, <2>2
  <1>3. ReliableSpec => Init /\ [][Steps]_vars BY DEF ReliableSpec
  <1> HIDE DEF Steps
  <1> QED BY <1>1, <1>2, <1>3, PTL
=============================================================================
