----------------------------- MODULE SquadManager -----------------------------
(***************************************************************************)
(* packages/jarvis-runtime/src/squad-manager.ts: what Jarvis believes of   *)
(* the agents of a tenant, from their heartbeats, and the assignments it   *)
(* publishes on that belief.                                               *)
(*                                                                         *)
(* assignWorkItem chooses an agent, awaits the publish, and only then      *)
(* marks the agent.  An activation of it, with the caller waiting for it,  *)
(* is a slot in Call.                                                      *)
(***************************************************************************)
EXTENDS Naturals, Sequences, Functions

CONSTANTS
    Agent,
    NoAgent,
    VerticalOf,     \* extractVertical
    Item,
    NoItem,
    Call            \* activations that can be in flight

ASSUME SquadAssumption ==
    /\ NoAgent \notin Agent
    /\ NoItem \notin Item
    /\ DOMAIN VerticalOf = Agent

VARIABLES
    roster,         \* the keys of `agents`, in the order of the Map
    squad,          \* its entries
    call,
    announced       \* the task assignments that were published

squadVars == <<roster, squad, call, announced>>

\* The statuses the code tells apart; `other` is polling, error and the rest.
\* No pod's heartbeat says working, nor names a work item.
HeartbeatStatus == {"idle", "offline", "other"}

Tracked == [status : HeartbeatStatus \cup {"working"},
            item   : Item \cup {NoItem},
            fresh  : BOOLEAN]      \* last heartbeat within the threshold

Unknown == [status |-> "offline", item |-> NoItem, fresh |-> FALSE]

\* Who waits for assignWorkItem: the handling of an escalation, which catches
\* what it throws, or one of two callers that are not awaited themselves.
Caller == {"escalation", "unawaited"}

CallState == [pc     : {"idle", "publishing", "notifying"},
              caller : Caller,
              agent  : Agent \cup {NoAgent},
              item   : Item \cup {NoItem}]

NoCall == [pc |-> "idle", caller |-> "unawaited", agent |-> NoAgent, item |-> NoItem]

SquadTypeOK ==
    /\ roster \in Seq(Agent)
    /\ squad \in [Agent -> Tracked]
    /\ call \in [Call -> CallState]
    /\ announced \subseteq Agent \X Item

SquadInit ==
    /\ roster = <<>>
    /\ squad = [a \in Agent |-> Unknown]
    /\ call = [c \in Call |-> NoCall]
    /\ announced = {}

-----------------------------------------------------------------------------

Known == Range(roster)

HandleHeartbeat(a, status, recent) ==
    /\ roster' = IF a \in Known THEN roster ELSE Append(roster, a)
    /\ squad' = [squad EXCEPT ![a] = [status |-> status, item |-> NoItem, fresh |-> recent]]
    /\ UNCHANGED <<call, announced>>

\* Two poll intervals pass without a heartbeat.
FallSilent(a) ==
    /\ a \in Known
    /\ squad[a].fresh
    /\ squad' = [squad EXCEPT ![a].fresh = FALSE]
    /\ UNCHANGED <<roster, call, announced>>

IdleAgents == {a \in Known : squad[a].status = "idle"}

IdleIn(vertical) == {a \in IdleAgents : VerticalOf[a] = vertical}

(***************************************************************************)
(* The candidates are sorted by workItemsCompleted, which handleHeartbeat  *)
(* never increments (it compares the status with the one it has just       *)
(* stored): the stable sort leaves them in the order of the Map.           *)
(***************************************************************************)
Chosen(candidates) ==
    roster[CHOOSE i \in DOMAIN roster :
              /\ roster[i] \in candidates
              /\ \A j \in 1..(i - 1) : roster[j] \notin candidates]

\* assignWorkItem up to its await.
AssignWorkItem(c, caller, item, candidates) ==
    /\ call[c].pc = "idle"
    /\ candidates # {}
    /\ call' = [call EXCEPT ![c] = [pc |-> "publishing", caller |-> caller,
                                    agent |-> Chosen(candidates), item |-> item]]

\* And from there on.
FinishAssignment(c) ==
    LET a == call[c].agent IN
    /\ call[c].pc = "publishing"
    /\ announced' = announced \cup {<<a, call[c].item>>}
    /\ squad' = [squad EXCEPT ![a] = [@ EXCEPT !.status = "working", !.item = call[c].item]]
    /\ call' = [call EXCEPT ![c] = NoCall]
    /\ UNCHANGED roster

\* A defect: only agents that were given nothing are looked at.
StuckAgentsIdle == {a \in Known : squad[a].status = "idle" /\ ~squad[a].fresh}

StuckAgents == {a \in Known : squad[a].status # "offline" /\ ~squad[a].fresh}

(***************************************************************************)
(* detectStuckAgents calls reassignWork for each stuck agent without       *)
(* waiting: the part before the first await is done for all of them at     *)
(* once, so two of a vertical choose the same idle agent.  Without one the *)
(* item is dropped.                                                        *)
(***************************************************************************)
DetectStuckAgents ==
    LET from   == {a \in StuckAgents : squad[a].item # NoItem}
        placed == {a \in from : IdleIn(VerticalOf[a]) # {}}
    IN  /\ from # {}
        /\ squad' = [a \in Agent |->
                        IF a \in from
                        THEN [squad[a] EXCEPT !.status = "offline", !.item = NoItem]
                        ELSE squad[a]]
        /\ \E slot \in Injection(placed, {c \in Call : call[c].pc = "idle"}) :
              call' = [c \in Call |->
                          IF \E a \in placed : slot[a] = c
                          THEN LET a == CHOOSE a \in placed : slot[a] = c IN
                               [pc |-> "publishing", caller |-> "unawaited",
                                agent |-> Chosen(IdleIn(VerticalOf[a])),
                                item |-> squad[a].item]
                          ELSE call[c]]
        /\ UNCHANGED <<roster, announced>>

\* handleCrossVerticalRequest of jarvis.ts.
CrossVerticalRequest(c, item) ==
    /\ AssignWorkItem(c, "unawaited", item, IdleAgents)
    /\ UNCHANGED <<roster, squad, announced>>
=============================================================================
