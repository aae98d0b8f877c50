------------------------------ MODULE AgentPod ------------------------------
(***************************************************************************)
(* packages/agent-runtime: the agent pods of one vertical, each with its   *)
(* poll loop, its Claude Code child process, its watchdog and its          *)
(* lifecycle, all taking work from one board.                              *)
(*                                                                         *)
(* An agent's pc names the await its poll is suspended at; awaits between  *)
(* which nothing shared changes are one pc.  Between two awaits the timers *)
(* and the signal handler of the same process, and the other pods, run.    *)
(* The agent's status and heartbeats are left out: nothing here reads them.*)
(***************************************************************************)
EXTENDS Naturals, Sequences

CONSTANTS
    Agent,
    NoAgent,
    WorkItem,       \* numbered in the order the query returns them
    NoItem,
    Answers         \* what triage may answer

ASSUME PodAssumption ==
    /\ NoAgent \notin Agent
    /\ WorkItem \subseteq Nat
    /\ NoItem \notin WorkItem
    /\ Answers \subseteq {"claim", "ignore", "escalate"}

VARIABLES
    items,          \* the board: state and tags of each work item
    pulls,          \* the agent whose pull request is open for the item
    agent,          \* the poll in progress in each pod
    session,        \* the child process of each pod's ClaudeCodeExecutor
    armed,          \* the items each pod's watchdog is armed for
    lifecycle,
    escalated,      \* items an escalation was published for
    announced       \* the DWI events published for each item, in order

vars == <<items, pulls, agent, session, armed, lifecycle, escalated, announced>>

boardVars == <<items, pulls, escalated, announced>>

Item == [state : {"New", "Active", "Resolved"},
         tags  : SUBSET {"ai-claimed", "ai-completed", "ai-blocked"}]

\* The awaits of poll and claimWorkItem, then those of processWorkItem's try
\* block, then those of its catch and finally.
PollPcs == {"polling", "triage", "claim", "claimed"}

WorkPcs == {"branch", "preflight", "launch", "coding", "timedOut",
            "createPr", "created", "linked", "resolve", "done"}

AftermathPcs == {"blocked", "tag", "cleanup"}

AgentState == [pc   : {"idle"} \cup PollPcs \cup WorkPcs \cup AftermathPcs,
               item : WorkItem \cup {NoItem}]

Idle == [pc |-> "idle", item |-> NoItem]

\* killed: the child was sent SIGTERM; aborted: by the executor's own timer.
Session == [kind : {"none", "triage", "coding"}, killed : BOOLEAN, aborted : BOOLEAN]

NoSession == [kind |-> "none", killed |-> FALSE, aborted |-> FALSE]

TypeOK ==
    /\ items \in [WorkItem -> Item]
    /\ pulls \in [WorkItem -> Agent \cup {NoAgent}]
    /\ agent \in [Agent -> AgentState]
    /\ session \in [Agent -> Session]
    /\ armed \in [Agent -> SUBSET WorkItem]
    /\ lifecycle \in [Agent -> {"running", "draining", "exited"}]
    /\ escalated \subseteq WorkItem
    /\ announced \in [WorkItem -> Seq({"created", "linked"})]

Init ==
    /\ items = [wi \in WorkItem |-> [state |-> "New", tags |-> {}]]
    /\ pulls = [wi \in WorkItem |-> NoAgent]
    /\ agent = [a \in Agent |-> Idle]
    /\ session = [a \in Agent |-> NoSession]
    /\ armed = [a \in Agent |-> {}]
    /\ lifecycle = [a \in Agent |-> "running"]
    /\ escalated = {}
    /\ announced = [wi \in WorkItem |-> <<>>]

-----------------------------------------------------------------------------

\* buildWorkItemQuery: New and not tagged.
Offered == {wi \in WorkItem : /\ items[wi].state = "New"
                              /\ "ai-claimed" \notin items[wi].tags}

GoTo(a, pc) == agent' = [agent EXCEPT ![a].pc = pc]

GiveUp(a) == agent' = [agent EXCEPT ![a] = Idle]

Spawn(a, kind) == session' = [session EXCEPT ![a] = [NoSession EXCEPT !.kind = kind]]

Escalate(wi) == escalated' = escalated \cup {wi}

At(a, pc) == lifecycle[a] # "exited" /\ agent[a].pc = pc

-----------------------------------------------------------------------------
(* poll and triageWorkItem                                                 *)

\* The guards: a poll in progress, or a shutdown, skips this one.
Poll(a) ==
    /\ agent[a].pc = "idle"
    /\ lifecycle[a] = "running"
    /\ GoTo(a, "polling")
    /\ UNCHANGED <<boardVars, session, armed, lifecycle>>

NothingToDo(a) ==
    /\ At(a, "polling")
    /\ Offered = {}
    /\ GiveUp(a)
    /\ UNCHANGED <<boardVars, session, armed, lifecycle>>

\* The first item of the answer; it is not read again before the claim.
Triage(a) ==
    /\ At(a, "polling")
    /\ \E wi \in Offered :
          /\ \A other \in Offered : wi <= other
          /\ agent' = [agent EXCEPT ![a] = [pc |-> "triage", item |-> wi]]
    /\ Spawn(a, "triage")
    /\ UNCHANGED <<boardVars, armed, lifecycle>>

\* Whatever ended the session, its output is parsed, and an output that does
\* not parse is a claim.
TriageEnds(a) ==
    /\ At(a, "triage")
    /\ session' = [session EXCEPT ![a] = NoSession]
    /\ \/ GoTo(a, "claim") /\ UNCHANGED escalated
       \/ "ignore" \in Answers /\ GiveUp(a) /\ UNCHANGED escalated
       \/ "escalate" \in Answers /\ GiveUp(a) /\ Escalate(agent[a].item)
    /\ UNCHANGED <<items, pulls, announced, armed, lifecycle>>

\* The update is unconditional: it does not ask whether the item is still New.
ClaimWorkItem(a) ==
    /\ At(a, "claim")
    /\ items' = [items EXCEPT ![agent[a].item] =
                   [state |-> "Active", tags |-> {"ai-claimed"}]]
    /\ GoTo(a, "claimed")
    /\ UNCHANGED <<pulls, escalated, announced, session, armed, lifecycle>>

\* The comment and the progress message of the claim.
AnnounceClaim(a) ==
    /\ At(a, "claimed")
    /\ GoTo(a, "branch")
    /\ UNCHANGED <<boardVars, session, armed, lifecycle>>

-----------------------------------------------------------------------------
(* processWorkItem                                                         *)

CreateBranch(a) ==
    /\ At(a, "branch")
    /\ GoTo(a, "preflight")
    /\ UNCHANGED <<boardVars, session, armed, lifecycle>>

\* A defect: a conflict ends the work without a word.
PreFlightConflictSilent(a) ==
    /\ At(a, "preflight")
    /\ GoTo(a, "cleanup")
    /\ UNCHANGED <<boardVars, session, armed, lifecycle>>

PreFlightConflict(a) ==
    /\ At(a, "preflight")
    /\ Escalate(agent[a].item)
    /\ GoTo(a, "cleanup")
    /\ UNCHANGED <<items, pulls, announced, session, armed, lifecycle>>

\* A defect: an earlier timer that is still running is left running.
PreFlightFreshAdding(a) ==
    /\ At(a, "preflight")
    /\ armed' = [armed EXCEPT ![a] = @ \cup {agent[a].item}]
    /\ GoTo(a, "launch")
    /\ UNCHANGED <<boardVars, session, lifecycle>>

\* Watchdog.start stops the timer it had and arms a new one.
PreFlightFresh(a) ==
    /\ At(a, "preflight")
    /\ armed' = [armed EXCEPT ![a] = {agent[a].item}]
    /\ GoTo(a, "launch")
    /\ UNCHANGED <<boardVars, session, lifecycle>>

StartCoding(a) ==
    /\ At(a, "launch")
    /\ Spawn(a, "coding")
    /\ GoTo(a, "coding")
    /\ UNCHANGED <<boardVars, armed, lifecycle>>

\* The watchdog kills whatever session runs when it fires, and does not set
\* `aborted`.
WatchdogFires(a) ==
    /\ lifecycle[a] # "exited"
    /\ armed[a] # {}
    /\ armed' = [armed EXCEPT ![a] = {}]
    /\ session' = [session EXCEPT ![a].killed = @ \/ session[a].kind # "none"]
    /\ UNCHANGED <<boardVars, agent, lifecycle>>

\* The executor's own timer has the watchdog's delay and is set after it, so
\* in a coding session it fires second.
SessionTimerFires(a) ==
    /\ lifecycle[a] # "exited"
    /\ session[a].kind # "none"
    /\ ~session[a].aborted
    /\ session[a].kind = "coding" => armed[a] = {}
    /\ session' = [session EXCEPT ![a] = [@ EXCEPT !.killed = TRUE, !.aborted = TRUE]]
    /\ UNCHANGED <<boardVars, agent, armed, lifecycle>>

\* The exit reason is timeout only if the executor's own timer fired; any
\* other end, an exit code that is not 0 included, goes on to the pull request.
CodingEnds(a) ==
    /\ At(a, "coding")
    /\ GoTo(a, IF session[a].aborted THEN "timedOut" ELSE "createPr")
    /\ session' = [session EXCEPT ![a].kind = "none"]
    /\ armed' = [armed EXCEPT ![a] = {}]
    /\ UNCHANGED <<boardVars, lifecycle>>

\* A defect: a timeout ends the work without a word.
EscalateTimeoutSilent(a) ==
    /\ At(a, "timedOut")
    /\ GoTo(a, "cleanup")
    /\ UNCHANGED <<boardVars, session, armed, lifecycle>>

EscalateTimeout(a) ==
    /\ At(a, "timedOut")
    /\ Escalate(agent[a].item)
    /\ GoTo(a, "cleanup")
    /\ UNCHANGED <<items, pulls, announced, session, armed, lifecycle>>

\* recordCodingSession, commitAndPush and createPr.  The branch is named after
\* the item, and the SCM refuses a second pull request for a branch.
CreatePr(a) ==
    /\ At(a, "createPr")
    /\ pulls[agent[a].item] = NoAgent
    /\ pulls' = [pulls EXCEPT ![agent[a].item] = a]
    /\ GoTo(a, "created")
    /\ UNCHANGED <<items, escalated, announced, session, armed, lifecycle>>

\* It also refuses one for a branch with no commits on it.
CreatePrRefused(a) ==
    /\ At(a, "createPr")
    /\ GoTo(a, "blocked")
    /\ UNCHANGED <<boardVars, session, armed, lifecycle>>

\* A defect: the two events are published in the other order.
PublishSwapped(a) ==
    /\ At(a, "created")
    /\ announced' = [announced EXCEPT ![agent[a].item] = Append(@, "linked")]
    /\ GoTo(a, "linked")
    /\ UNCHANGED <<items, pulls, escalated, session, armed, lifecycle>>

PublishCreated(a) ==
    /\ At(a, "created")
    /\ announced' = [announced EXCEPT ![agent[a].item] = Append(@, "created")]
    /\ GoTo(a, "linked")
    /\ UNCHANGED <<items, pulls, escalated, session, armed, lifecycle>>

\* A defect: the item is resolved before the billing service hears of its PR.
ResolveFirst(a) ==
    /\ At(a, "linked")
    /\ items' = [items EXCEPT ![agent[a].item] =
                   [state |-> "Resolved", tags |-> {"ai-claimed", "ai-completed"}]]
    /\ GoTo(a, "resolve")
    /\ UNCHANGED <<pulls, escalated, announced, session, armed, lifecycle>>

PublishLinked(a) ==
    /\ At(a, "linked")
    /\ announced' = [announced EXCEPT ![agent[a].item] = Append(@, "linked")]
    /\ GoTo(a, "resolve")
    /\ UNCHANGED <<items, pulls, escalated, session, armed, lifecycle>>

\* A defect: the state is one of the other SCM.
ResolveAsClosed(a) ==
    /\ At(a, "resolve")
    /\ items' = [items EXCEPT ![agent[a].item] =
                   [state |-> "closed", tags |-> {"ai-claimed", "ai-completed"}]]
    /\ GoTo(a, "done")
    /\ UNCHANGED <<pulls, escalated, announced, session, armed, lifecycle>>

Resolve(a) ==
    /\ At(a, "resolve")
    /\ items' = [items EXCEPT ![agent[a].item] =
                   [state |-> "Resolved", tags |-> {"ai-claimed", "ai-completed"}]]
    /\ GoTo(a, "done")
    /\ UNCHANGED <<pulls, escalated, announced, session, armed, lifecycle>>

\* The progress message `done`.
AnnounceDone(a) ==
    /\ At(a, "done")
    /\ GoTo(a, "cleanup")
    /\ UNCHANGED <<boardVars, session, armed, lifecycle>>

\* The catch block: escalate, then tag.
EscalateBlocked(a) ==
    /\ At(a, "blocked")
    /\ Escalate(agent[a].item)
    /\ GoTo(a, "tag")
    /\ UNCHANGED <<items, pulls, announced, session, armed, lifecycle>>

\* The tags are replaced, the state is not touched.
TagBlocked(a) ==
    /\ At(a, "tag")
    /\ items' = [items EXCEPT ![agent[a].item].tags = {"ai-claimed", "ai-blocked"}]
    /\ GoTo(a, "cleanup")
    /\ UNCHANGED <<pulls, escalated, announced, session, armed, lifecycle>>

\* The finally block, and with it the end of the poll.
CleanUp(a) ==
    /\ At(a, "cleanup")
    /\ GiveUp(a)
    /\ session' = [session EXCEPT ![a] = NoSession]
    /\ UNCHANGED <<boardVars, armed, lifecycle>>

-----------------------------------------------------------------------------
(* Faults and the lifecycle                                                *)

\* The budget is spent: an escalation that names no item, and no work.
OverBudget(a) ==
    /\ At(a, "polling")
    /\ GiveUp(a)
    /\ UNCHANGED <<boardVars, session, armed, lifecycle>>

\* The await rejects.  Outside processWorkItem the poll just ends; inside it
\* the catch block runs, with the watchdog as it is; the catch block's own
\* failures are dropped.  A call that took effect before it failed is the
\* step that makes it, and then this one.
AwaitFails(a) ==
    /\ lifecycle[a] # "exited"
    /\ \/ agent[a].pc \in {"polling", "claim", "claimed"} /\ GiveUp(a)
       \/ agent[a].pc \in WorkPcs \ {"coding"} /\ GoTo(a, "blocked")
       \/ agent[a].pc \in {"blocked", "tag"} /\ GoTo(a, "cleanup")
    /\ UNCHANGED <<boardVars, session, armed, lifecycle>>

\* SIGTERM: no new polls.
Shutdown(a) ==
    /\ lifecycle[a] = "running"
    /\ lifecycle' = [lifecycle EXCEPT ![a] = "draining"]
    /\ UNCHANGED <<boardVars, agent, session, armed>>

Gone(a) ==
    /\ lifecycle' = [lifecycle EXCEPT ![a] = "exited"]
    /\ agent' = [agent EXCEPT ![a] = Idle]
    /\ session' = [session EXCEPT ![a] = NoSession]
    /\ armed' = [armed EXCEPT ![a] = {}]
    /\ UNCHANGED boardVars

\* gracefulShutdown waits for the child process, up to 60 s, and for nothing
\* else: then process.exit.
Exit(a) == lifecycle[a] = "draining" /\ Gone(a)

Crash(a) == lifecycle[a] # "exited" /\ Gone(a)

\* A new process starts with an idle poll loop and reads nothing back.
Start(a) ==
    /\ lifecycle[a] = "exited"
    /\ lifecycle' = [lifecycle EXCEPT ![a] = "running"]
    /\ UNCHANGED <<boardVars, agent, session, armed>>

-----------------------------------------------------------------------------

\* The steps that follow once an await has been answered.
Progress(a) ==
    \/ NothingToDo(a) \/ Triage(a) \/ ClaimWorkItem(a) \/ AnnounceClaim(a)
    \/ CreateBranch(a) \/ PreFlightConflict(a) \/ PreFlightFresh(a)
    \/ StartCoding(a) \/ EscalateTimeout(a)
    \/ CreatePr(a) \/ CreatePrRefused(a) \/ PublishCreated(a) \/ PublishLinked(a)
    \/ Resolve(a) \/ AnnounceDone(a) \/ EscalateBlocked(a) \/ TagBlocked(a) \/ CleanUp(a)

SessionEnds(a) == TriageEnds(a) \/ CodingEnds(a)

TimerFires(a) == WatchdogFires(a) \/ SessionTimerFires(a)

Step(a) == Poll(a) \/ Progress(a) \/ SessionEnds(a) \/ TimerFires(a)

Fault(a) ==
    \/ OverBudget(a) \/ AwaitFails(a)
    \/ Shutdown(a) \/ Exit(a) \/ Crash(a) \/ Start(a)

Next == \E a \in Agent : Step(a) \/ Fault(a)

Spec == Init /\ [][Next]_vars

\* The poll interval elapses, awaits are answered, timers fire, and a child
\* that was sent SIGTERM exits.  (Nothing stronger would be justified: the
\* SIGKILL that is meant to follow is sent only `if (!proc.killed)`, which the
\* SIGTERM has already made false.)
Fairness ==
    \A a \in Agent :
        /\ WF_vars(Poll(a))
        /\ WF_vars(Progress(a))
        /\ WF_vars(TimerFires(a))
        /\ WF_vars(session[a].killed /\ SessionEnds(a))

ReliableSpec == Init /\ [][\E a \in Agent : Step(a)]_vars /\ Fairness

-----------------------------------------------------------------------------
(* What holds through faults, shutdowns and crashes.                       *)

\* The billing service drops a pr:linked that no work-item-created precedes, opens
\* another DWI for every work-item-created it hears of, and must not open one for
\* work without a pull request: events are about a pull request that exists, in the
\* order processWorkItem publishes them (poll-loop.ts:287-298) and once each,
\* whichever pods worked on the item, failed at it and took it up again.
EventsFollowThePr ==
    \A wi \in WorkItem :
        \/ announced[wi] = <<>>
        \/ pulls[wi] # NoAgent /\ announced[wi] \in {<<"created">>, <<"created", "linked">>}

\* Nobody looks at a Resolved item again, so one whose DWI the billing service
\* has not heard of would be delivered for free (poll-loop.ts:296-307).
ResolvedIsAnnounced ==
    \A wi \in WorkItem :
        items[wi].state = "Resolved" => announced[wi] = <<"created", "linked">>

\* The watchdog kills whatever session runs when it fires, and work that fails
\* between its start and its stop leaves it armed.  Such a timer may hit the
\* triage of the next item, but no coding session ever runs under the timer of
\* another item (watchdog.ts:12-20).
CodingHasItsOwnWatchdog ==
    \A a \in Agent :
        session[a].kind = "coding" => armed[a] \subseteq {agent[a].item}

-----------------------------------------------------------------------------
(* What holds while calls succeed and pods stay up.                        *)

AtWork(wi) ==
    \E a \in Agent : /\ agent[a].item = wi
                     /\ agent[a].pc \in ({"claimed", "blocked"} \cup WorkPcs) \ {"done"}

\* An Active item is in the hands of a pod, or somebody was told about it,
\* even when two pods claimed it and the slower one reopened what the faster
\* one had resolved (claimWorkItem, poll-loop.ts:206-224).
ActiveIsInHand ==
    \A wi \in WorkItem :
        items[wi].state = "Active" => AtWork(wi) \/ wi \in escalated

\* Every item is resolved or escalated in the end.
EveryItemIsAnswered ==
    \A wi \in WorkItem : <>(items[wi].state = "Resolved" \/ wi \in escalated)

-----------------------------------------------------------------------------
(* A statement of the documentation that the code refutes.                 *)

\* "Kills Claude Code processes that exceed COMPLEXITY_TIMEOUTS_MS[tier]" and
\* "Escalates to Jarvis on timeout" (docs-site/versioned_docs/version-1.1.0/
\* packages/agent-runtime.md:133-134): a session that was killed for its time
\* does not go on to a pull request.
NoPrFromAKilledSession ==
    \A a \in Agent : agent[a].pc = "created" => ~session[a].killed
=============================================================================
