---------------------------- MODULE SkillRegistry ----------------------------
(***************************************************************************)
(* packages/skill-registry/src: registry.ts links skills to one agent,     *)
(* skill-loader.ts writes them to its workspace, and skill-scorer.ts keeps *)
(* a running mean for one skill and task type. skill_scores has no         *)
(* uniqueness beyond its id.                                               *)
(***************************************************************************)
EXTENDS Integers, FiniteSets, Functions

CONSTANTS Skill,
          Sample,     \* calls of recordScore
          DeltaOf,    \* sample -> its qualityDelta
          MaxLinks    \* times a skill may be linked at once

ASSUME SkillAssumption ==
    /\ IsFiniteSet(Sample)
    /\ DeltaOf \in [Sample -> Int]
    /\ MaxLinks \in Nat

VARIABLES skillRows,  \* registered skills
          links,      \* skill -> its rows of agent_skills
          workspace,  \* skills with a SKILL.md
          scoreRows,  \* sample that inserted it -> row of skill_scores
          scoring     \* sample -> where its call is, and the row it has read

skillVars == <<skillRows, links, workspace, scoreRows, scoring>>

\* qualityDelta times sampleCount is kept, so that the mean needs no division.
ScoreRow == [total : Int, sampleCount : 0..Cardinality(Sample)]

NoScore == [total |-> 0, sampleCount |-> 0]

NotScoring == [at |-> "idle", row |-> "none", seen |-> NoScore]

SkillTypeOK ==
    /\ skillRows \subseteq Skill
    /\ workspace \subseteq Skill
    /\ links \in [Skill -> 0..MaxLinks]
    /\ scoreRows \in [Sample -> ScoreRow]
    /\ scoring \in [Sample -> [at : {"idle", "update", "insert", "done"},
                               row : Sample \cup {"none"}, seen : ScoreRow]]

SkillInit ==
    /\ skillRows = {}
    /\ links = [k \in Skill |-> 0]
    /\ workspace = {}
    /\ scoreRows = [x \in Sample |-> NoScore]
    /\ scoring = [x \in Sample |-> NotScoring]

RegisterSkill(k) ==
    /\ k \notin skillRows
    /\ skillRows' = skillRows \cup {k}
    /\ UNCHANGED <<links, workspace, scoreRows, scoring>>

\* Nothing stops a second link.
ActivateForAgent(k) ==
    /\ k \in skillRows
    /\ links[k] < MaxLinks
    /\ links' = [links EXCEPT ![k] = @ + 1]
    /\ UNCHANGED <<skillRows, workspace, scoreRows, scoring>>

DeactivateForAgent(k) ==
    /\ links' = [links EXCEPT ![k] = 0]
    /\ UNCHANGED <<skillRows, workspace, scoreRows, scoring>>

GetAgentSkills == {k \in Skill : links[k] > 0}

\* Files of skills deactivated since stay.
WriteToWorkspace ==
    /\ workspace' = workspace \cup GetAgentSkills
    /\ UNCHANGED <<skillRows, links, scoreRows, scoring>>

----------------------------------------------------------------------------
ScoreRowExists(x) == scoreRows[x].sampleCount > 0

\* Of several rows the query may return any.
ReadScore(x) ==
    /\ scoring[x].at = "idle"
    /\ \/ \E r \in Sample :
              /\ ScoreRowExists(r)
              /\ scoring' = [scoring EXCEPT ![x] = [at |-> "update", row |-> r, seen |-> scoreRows[r]]]
       \/ /\ \A r \in Sample : ~ScoreRowExists(r)
          /\ scoring' = [scoring EXCEPT ![x].at = "insert"]
    /\ UNCHANGED <<skillRows, links, workspace, scoreRows>>

MeanOverOldCount(x) ==   \* a defect: the new sample is summed but not counted
    [total |-> scoring[x].seen.total + DeltaOf[x], sampleCount |-> scoring[x].seen.sampleCount]

RunningMean(x) ==
    [total |-> scoring[x].seen.total + DeltaOf[x], sampleCount |-> scoring[x].seen.sampleCount + 1]

WriteScore(x) ==
    /\ scoring[x].at = "update"
    /\ scoreRows' = [scoreRows EXCEPT ![scoring[x].row] = RunningMean(x)]
    /\ scoring' = [scoring EXCEPT ![x].at = "done"]
    /\ UNCHANGED <<skillRows, links, workspace>>

InsertScore(x) ==
    /\ scoring[x].at = "insert"
    /\ scoreRows' = [scoreRows EXCEPT ![x] = [total |-> DeltaOf[x], sampleCount |-> 1]]
    /\ scoring' = [scoring EXCEPT ![x].at = "done"]
    /\ UNCHANGED <<skillRows, links, workspace>>

SkillNext ==
    \/ \E k \in Skill : RegisterSkill(k) \/ ActivateForAgent(k) \/ DeactivateForAgent(k)
    \/ WriteToWorkspace
    \/ \E x \in Sample : ReadScore(x) \/ WriteScore(x) \/ InsertScore(x)

SkillSpec == SkillInit /\ [][SkillNext]_skillVars

----------------------------------------------------------------------------
\* Samples may be lost when calls overlap, or split over two rows, but a score is
\* never made up: every row is the mean of that many different samples of those
\* recorded, and no sample counts in two rows.
ScoresAreBacked ==
    LET written == {x \in Sample : scoring[x].at = "done"}
        Backs(row, samples) == /\ Cardinality(samples) = row.sampleCount
                               /\ row.total = SumFunctionOnSet(DeltaOf, samples)
    IN  \E share \in [Sample -> SUBSET written] :
            /\ \A r \in Sample : Backs(scoreRows[r], share[r])
            /\ \A r, q \in Sample : r # q => share[r] \cap share[q] = {}
=============================================================================
