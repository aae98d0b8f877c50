----------------------------- MODULE MCAgentPod -----------------------------
(***************************************************************************)
(* Small instances of AgentPod for TLC.                                    *)
(***************************************************************************)
EXTENDS AgentPod, TLC

AnyAnswer == {"claim", "ignore", "escalate"}

AlwaysClaim == {"claim"}

Pods == Permutations(Agent)
=============================================================================
