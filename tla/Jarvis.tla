-------------------------------- MODULE Jarvis --------------------------------
(***************************************************************************)
(* packages/jarvis-runtime/src/jarvis.ts: the process that routes what the *)
(* agents of a tenant say to the squad manager and the escalation handler. *)
(* All it knows of them is in memory.                                      *)
(***************************************************************************)
EXTENDS EscalationHandler

VARIABLE shuttingDown

jarvisVars == <<squadVars, shuttingDown>>

JarvisTypeOK ==
    /\ SquadTypeOK
    /\ shuttingDown \in BOOLEAN

JarvisInit ==
    /\ SquadInit
    /\ shuttingDown = FALSE

\* The messages of the channels that change anything, until gracefulShutdown
\* unsubscribes.
Receive ==
    /\ ~shuttingDown
    /\ \/ \E a \in Agent, status \in HeartbeatStatus, recent \in BOOLEAN :
              HandleHeartbeat(a, status, recent)
       \/ \E c \in Call, a \in Agent, item \in Item : Escalation(c, a, item)
       \/ \E c \in Call, item \in Item : CrossVerticalRequest(c, item)
    /\ UNCHANGED shuttingDown

Answer(c) ==
    /\ FinishAssignment(c) \/ FinishTelling(c)
    /\ UNCHANGED shuttingDown

CheckStuck ==
    /\ ~shuttingDown
    /\ DetectStuckAgents
    /\ UNCHANGED shuttingDown

Silence ==
    /\ \E a \in Agent : FallSilent(a)
    /\ UNCHANGED shuttingDown

\* The process ends and comes back knowing nobody.
Forgotten ==
    /\ roster' = <<>>
    /\ squad' = [a \in Agent |-> Unknown]
    /\ call' = [c \in Call |-> NoCall]
    /\ shuttingDown' = FALSE
    /\ UNCHANGED announced

\* A defect: the agent is marked although the publish failed.
PublishFailsMarking(c) ==
    /\ call[c].pc = "publishing"
    /\ call[c].caller = "escalation"
    /\ squad' = [squad EXCEPT ![call[c].agent] =
                    [@ EXCEPT !.status = "working", !.item = call[c].item]]
    /\ call' = [call EXCEPT ![c] = NoCall]
    /\ UNCHANGED <<roster, announced, shuttingDown>>

\* A rejected publish is caught in the handling of an escalation only; the
\* other two callers are not awaited, and an unhandled rejection ends Node.
PublishFails(c) ==
    /\ call[c].pc # "idle"
    /\ \/ /\ call[c].caller = "escalation"
          /\ call' = [call EXCEPT ![c] = NoCall]
          /\ UNCHANGED <<roster, squad, announced, shuttingDown>>
       \/ call[c].caller = "unawaited" /\ Forgotten

GracefulShutdown ==
    /\ ~shuttingDown
    /\ shuttingDown' = TRUE
    /\ UNCHANGED squadVars

\* The end of gracefulShutdown, or a crash.
Restart == Forgotten

JarvisNext ==
    \/ Receive
    \/ \E c \in Call : Answer(c) \/ PublishFails(c)
    \/ CheckStuck
    \/ Silence
    \/ GracefulShutdown
    \/ Restart

\* The interval of the stuck check fires (SF, since only the model makes it wait
\* for a slot), publishes are answered or rejected, and a shutdown ends.
JarvisFairness ==
    /\ SF_jarvisVars(CheckStuck)
    /\ \A c \in Call : WF_jarvisVars(Answer(c) \/ PublishFails(c))
    /\ WF_jarvisVars(shuttingDown /\ Restart)

JarvisSpec == JarvisInit /\ [][JarvisNext]_jarvisVars /\ JarvisFairness

(***************************************************************************)
(* Jarvis believes an agent to be at work only on an item it has told the  *)
(* agent of (assignWorkItem, reassignWork, handleHeartbeat), whatever      *)
(* heartbeats come while the publish is under way and however it ends.     *)
(***************************************************************************)
WorkIsAnnounced ==
    \A a \in Agent : squad[a].item # NoItem =>
        squad[a].status = "working" /\ <<a, squad[a].item>> \in announced

(***************************************************************************)
(* An agent that falls silent with an item is relieved of it               *)
(* (detectStuckAgents), unless it is heard of again, even if it was given  *)
(* the item when already silent.                                           *)
(***************************************************************************)
SilentAgentsAreRelieved ==
    \A a \in Agent : (squad[a].item # NoItem /\ ~squad[a].fresh)
                        ~> (squad[a].item = NoItem \/ squad[a].fresh)
=============================================================================
