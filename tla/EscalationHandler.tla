--------------------------- MODULE EscalationHandler ---------------------------
(***************************************************************************)
(* packages/jarvis-runtime/src/escalation-handler.ts: what Jarvis does     *)
(* with an agent that gives up on an item.  Each handler decides without a *)
(* pause between an assignment, a word to a human and nothing, and then    *)
(* waits for one publish.                                                  *)
(***************************************************************************)
EXTENDS SquadManager

\* escalateToHuman and notifyHuman, up to the publish.
TellHuman(c, item) ==
    /\ call[c].pc = "idle"
    /\ call' = [call EXCEPT ![c] = [pc |-> "notifying", caller |-> "escalation",
                                    agent |-> NoAgent, item |-> item]]
    /\ UNCHANGED <<roster, squad, announced>>

\* "Will retry later" is all that happens: nothing keeps the item.
Defer == UNCHANGED squadVars

AssignAgain(c, item, candidates) ==
    /\ AssignWorkItem(c, "escalation", item, candidates)
    /\ UNCHANGED <<roster, squad, announced>>

\* Another idle agent shows which vertical to ask; its first idle agent may
\* then be the one that escalated.
HandleMergeConflict(c, from, item) ==
    LET others == IdleAgents \ {from} IN
    \/ /\ others # {}
       /\ AssignAgain(c, item, IdleIn(VerticalOf[Chosen(others)]))
    \/ others = {} /\ Defer

\* The agent itself if it is idle, or rather its vertical; then anybody.
HandleTestFailure(c, from, item) ==
    LET candidates == IF from \in IdleAgents THEN IdleIn(VerticalOf[from]) ELSE IdleAgents
    IN  \/ AssignAgain(c, item, candidates)
        \/ candidates = {} /\ TellHuman(c, item)

\* atXL: the details of the escalation name the highest tier.
HandleTimeout(c, item, atXL) ==
    \/ atXL /\ TellHuman(c, item)
    \/ ~atXL /\ AssignAgain(c, item, IdleAgents)
    \/ ~atXL /\ IdleAgents = {} /\ Defer

\* What the details sound like: environment first, dependency next.
HandleBlocked(c, item, blocker) ==
    \/ blocker = "dependency" /\ AssignAgain(c, item, IdleAgents)
    \/ /\ blocker = "dependency" => IdleAgents = {}
       /\ TellHuman(c, item)

\* By subType; budget-exceeded goes to a human, quality-issue the way of blocked.
Escalation(c, from, item) ==
    \/ HandleMergeConflict(c, from, item)
    \/ HandleTestFailure(c, from, item)
    \/ \E atXL \in BOOLEAN : HandleTimeout(c, item, atXL)
    \/ TellHuman(c, item)
    \/ \E blocker \in {"dependency", "other"} : HandleBlocked(c, item, blocker)

FinishTelling(c) ==
    /\ call[c].pc = "notifying"
    /\ call' = [call EXCEPT ![c] = NoCall]
    /\ UNCHANGED <<roster, squad, announced>>
=============================================================================
