---------------------------- MODULE PrStatusPoller ----------------------------
(***************************************************************************)
(* packages/agent-runtime/src/pr-status-poller.ts: a pod's poller, which   *)
(* asks the SCM about each pull request it tracks and publishes what has   *)
(* become true of it, once.                                                *)
(*                                                                         *)
(* setInterval starts a tick every minute whether or not the one before it *)
(* has ended, so ticks overlap.  A tick is a slot in Tick, suspended at a  *)
(* question to the SCM or at a publish.  The order in which it visits the  *)
(* pull requests is left open.                                             *)
(***************************************************************************)
EXTENDS Naturals

CONSTANTS
    Pr,
    NoPr,
    ItemOf,         \* the work item a pull request is for
    Tick,           \* ticks that can be in flight together
    Answered        \* the questions the SCM adapter has a method for

\* The flags of TrackedPr, which are also the questions of checkPr.
Question == {"ciCompleted", "prApproved", "prMerged", "workItemClosed"}

ASSUME PollerAssumption ==
    /\ NoPr \notin Pr
    /\ DOMAIN ItemOf = Pr
    /\ {"prMerged", "workItemClosed"} \subseteq Answered
    /\ Answered \subseteq Question

VARIABLES
    ci,             \* the state of the checks of a pull request's head
    happened,       \* what has been true of it so far
    closed,         \* the work items that are closed
    tracked,        \* the keys of the tracked Map
    flags,          \* the flags of its entry
    tick,
    wire            \* the messages Redis has not delivered yet

scmVars == <<ci, happened, closed>>

pollerVars == <<scmVars, tracked, flags, tick, wire>>

PrFacts == {"ciPassed", "prApproved", "prMerged"}

Items == {ItemOf[pr] : pr \in Pr}

\* An event is named by the gate it is meant to set.  Of its fields only those
\* that the tracker could read are kept; publishCiCompleted alone adds one.
Message == [event : {"workItemExists", "prLinked", "prApproved", "prMerged",
                     "workItemClosed"}, workItem : Items]
           \cup [event : {"ciPassed"}, workItem : Items, passed : BOOLEAN]

\* The order of the questions.
Rank == [ciCompleted |-> 1, prApproved |-> 2, prMerged |-> 3, workItemClosed |-> 4]

TickState == [pc      : {"idle", "asking", "publishing"},
              pr      : Pr \cup {NoPr},
              about   : Question,
              passed  : BOOLEAN,
              visited : SUBSET Pr]

NoTick == [pc |-> "idle", pr |-> NoPr, about |-> "ciCompleted",
           passed |-> FALSE, visited |-> {}]

PollerTypeOK ==
    /\ ci \in [Pr -> {"pending", "success", "failure"}]
    /\ happened \in [Pr -> SUBSET PrFacts]
    /\ closed \subseteq Items
    /\ tracked \subseteq Pr
    /\ flags \in [Pr -> SUBSET Question]
    /\ tick \in [Tick -> TickState]
    /\ wire \subseteq Message

PollerInit ==
    /\ ci = [pr \in Pr |-> "pending"]
    /\ happened = [pr \in Pr |-> {}]
    /\ closed = {}
    /\ tracked = {}
    /\ flags = [pr \in Pr |-> {}]
    /\ tick = [t \in Tick |-> NoTick]
    /\ wire = {}

-----------------------------------------------------------------------------
(* The SCM, as far as the poller can see it.                               *)

CiEnds(pr, state) ==
    /\ ci[pr] = "pending"
    /\ ci' = [ci EXCEPT ![pr] = state]
    /\ happened' = [happened EXCEPT
                      ![pr] = @ \cup (IF state = "success" THEN {"ciPassed"} ELSE {})]
    /\ UNCHANGED <<closed, tracked, flags, tick, wire>>

\* The run is repeated, or a new commit is pushed.
CiRestarts(pr) ==
    /\ ci[pr] # "pending"
    /\ ci' = [ci EXCEPT ![pr] = "pending"]
    /\ UNCHANGED <<happened, closed, tracked, flags, tick, wire>>

\* A reviewer approves, somebody merges.
Happens(pr, fact) ==
    /\ fact \in PrFacts \ ({"ciPassed"} \cup happened[pr])
    /\ happened' = [happened EXCEPT ![pr] = @ \cup {fact}]
    /\ UNCHANGED <<ci, closed, tracked, flags, tick, wire>>

WorkItemCloses(wi) ==
    /\ closed' = closed \cup {wi}
    /\ UNCHANGED <<ci, happened, tracked, flags, tick, wire>>

-----------------------------------------------------------------------------

\* Once per pull request and life of the pod, so no tick holds an older entry.
TrackPr(pr) ==
    /\ tracked' = tracked \cup {pr}
    /\ flags' = [flags EXCEPT ![pr] = {}]
    /\ UNCHANGED <<scmVars, tick, wire>>

\* A defect: the work item is asked about before the merge.
DueUnmerged(pr, rank) == {q \in Answered \ flags[pr] : Rank[q] > rank}

\* The guards of checkPr after the question of that rank, against the flags of
\* the entry as they are by now.
Due(pr, rank) ==
    {q \in Answered \ flags[pr] :
        /\ Rank[q] > rank
        /\ q = "workItemClosed" => "prMerged" \in flags[pr]}

Ask(t, pr, rank, visited) ==
    \E q \in Due(pr, rank) :
        /\ \A other \in Due(pr, rank) : Rank[q] <= Rank[other]
        /\ tick' = [tick EXCEPT ![t] = [pc |-> "asking", pr |-> pr, about |-> q,
                                       passed |-> FALSE, visited |-> visited \cup {pr}]]

\* The completed entries among those the tick comes past are removed.
Forget(prs) == tracked' = tracked \ {pr \in prs : flags[pr] = Question}

(***************************************************************************)
(* The loop of tick() from one entry to the next, without a pause: it      *)
(* comes past entries that leave nothing to ask, and stops at one that     *)
(* does or at the end.  The Map is iterated live: entries that were added  *)
(* meanwhile are visited too.  leaving: the entry checked last, if checked *)
(* to its end.                                                             *)
(***************************************************************************)
NextEntry(t, visited, leaving) ==
    LET ahead == tracked \ visited
        quiet == {pr \in ahead : Due(pr, 0) = {}}
    IN  \/ \E pr \in ahead \ quiet, past \in SUBSET quiet :
              /\ Ask(t, pr, 0, visited \cup past)
              /\ Forget(leaving \cup past)
        \/ /\ ahead = quiet
           /\ tick' = [tick EXCEPT ![t] = NoTick]
           /\ Forget(leaving \cup quiet)

StartTick(t) ==
    /\ tick[t].pc = "idle"
    /\ NextEntry(t, {}, {})
    /\ UNCHANGED <<scmVars, flags, wire>>

\* What follows an await: the entry's next question, or the next entry.
GoOn(t) ==
    LET pr   == tick[t].pr
        rank == Rank[tick[t].about]
    IN  \/ Ask(t, pr, rank, tick[t].visited) /\ UNCHANGED tracked
        \/ Due(pr, rank) = {} /\ NextEntry(t, tick[t].visited, {pr})

Holds(pr, q) ==
    CASE q = "ciCompleted"    -> ci[pr] # "pending"
      [] q = "workItemClosed" -> ItemOf[pr] \in closed
      [] OTHER                -> q \in happened[pr]

\* The flag is set before the publish, and whatever other ticks have done.
AnswerYes(t) ==
    LET pr == tick[t].pr
        q  == tick[t].about
    IN  /\ tick[t].pc = "asking"
        /\ Holds(pr, q)
        /\ flags' = [flags EXCEPT ![pr] = @ \cup {q}]
        /\ tick' = [tick EXCEPT
              ![t] = [@ EXCEPT !.pc = "publishing",
                               !.passed = q = "ciCompleted" /\ ci[pr] = "success"]]
        /\ UNCHANGED <<scmVars, tracked, wire>>

\* An approval may have been withdrawn, a work item reopened.
HoldsNot(pr, q) == q \in {"prApproved", "workItemClosed"} \/ ~Holds(pr, q)

\* A defect: the flag is set before the answer is looked at.
AnswerNoFlagged(t) ==
    /\ tick[t].pc = "asking"
    /\ HoldsNot(tick[t].pr, tick[t].about)
    /\ GoOn(t)
    /\ flags' = [flags EXCEPT ![tick[t].pr] = @ \cup {tick[t].about}]
    /\ UNCHANGED <<scmVars, wire>>

AnswerNo(t) ==
    /\ tick[t].pc = "asking"
    /\ HoldsNot(tick[t].pr, tick[t].about)
    /\ GoOn(t)
    /\ UNCHANGED <<scmVars, flags, wire>>

\* A defect: the result of CI goes out under the name of its flag.
MessageOfFlag(t) == [event |-> tick[t].about, workItem |-> ItemOf[tick[t].pr]]

MessageOf(t) ==
    LET wi == ItemOf[tick[t].pr] IN
    IF tick[t].about = "ciCompleted"
    THEN [event |-> "ciPassed", workItem |-> wi, passed |-> tick[t].passed]
    ELSE [event |-> tick[t].about, workItem |-> wi]

Publish(t) ==
    /\ tick[t].pc = "publishing"
    /\ wire' = wire \cup {MessageOf(t)}
    /\ GoOn(t)
    /\ UNCHANGED <<scmVars, flags>>

\* The question or the publish fails: the tick leaves the entry, flags as
\* they are, and goes on to the next.
CheckFails(t) ==
    /\ tick[t].pc \in {"asking", "publishing"}
    /\ NextEntry(t, tick[t].visited, {})
    /\ UNCHANGED <<scmVars, flags, wire>>

\* The tracked Map is nowhere but in memory.
PollerRestart ==
    /\ tracked' = {}
    /\ flags' = [pr \in Pr |-> {}]
    /\ tick' = [t \in Tick |-> NoTick]
    /\ UNCHANGED <<scmVars, wire>>

\* What no question is about is left out.
ScmStep(pr) ==
    \/ "ciCompleted" \in Answered /\ \E state \in {"success", "failure"} : CiEnds(pr, state)
    \/ CiRestarts(pr)
    \/ \E fact \in Answered : Happens(pr, fact)
    \/ WorkItemCloses(ItemOf[pr])

\* What a tick does once it has started.
TickStep(t) == AnswerYes(t) \/ AnswerNo(t) \/ Publish(t)
=============================================================================
