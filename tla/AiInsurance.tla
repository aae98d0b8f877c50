----------------------------- MODULE AiInsurance -----------------------------
(***************************************************************************)
(* packages/governance/src/ai-insurance.ts: a claim is filed in three      *)
(* statements with no transaction around them; the check of compliance     *)
(* marks what has expired from a list it read before.                      *)
(***************************************************************************)
EXTENDS Naturals, FiniteSets

CONSTANTS Policy, Filer

VARIABLES policyStatus,   \* policy -> status in insurance_policies
          lapsed,         \* policies whose expiresAt has passed
          claims,         \* rows of insurance_claims
          filing,         \* filer -> where fileClaim is
          checking        \* policies the check of compliance has still to look at

insuranceVars == <<policyStatus, lapsed, claims, filing, checking>>

NotFiling == [at |-> "done", policy |-> "none"]

InsuranceTypeOK ==
    /\ policyStatus \in [Policy -> {"none", "active", "expired", "claimed"}]
    /\ lapsed \subseteq Policy
    /\ claims \subseteq [policy : Policy, by : Filer, resolved : BOOLEAN]
    /\ filing \in [Filer -> [at : {"mark", "insert"}, policy : Policy] \cup {NotFiling}]
    /\ checking \subseteq Policy

InsuranceInit ==
    /\ policyStatus = [p \in Policy |-> "none"]
    /\ lapsed = {}
    /\ claims = {}
    /\ filing = [f \in Filer |-> NotFiling]
    /\ checking = {}

CreatePolicy(p) ==
    /\ policyStatus[p] = "none"
    /\ policyStatus' = [policyStatus EXCEPT ![p] = "active"]
    /\ UNCHANGED <<lapsed, claims, filing, checking>>

Lapse(p) ==
    /\ policyStatus[p] # "none"
    /\ lapsed' = lapsed \cup {p}
    /\ UNCHANGED <<policyStatus, claims, filing, checking>>

\* The status is looked at, the date is not; a policy that is not active throws.
FileClaim(f, p) ==
    /\ filing[f].at = "done"
    /\ policyStatus[p] = "active"
    /\ filing' = [filing EXCEPT ![f] = [at |-> "mark", policy |-> p]]
    /\ UNCHANGED <<policyStatus, lapsed, claims, checking>>

MarkClaimedLater(f) ==   \* a defect: the claim is inserted first, the policy marked after
    LET p == filing[f].policy
    IN  /\ filing[f].at = "mark"
        /\ claims' = claims \cup {[policy |-> p, by |-> f, resolved |-> FALSE]}
        /\ filing' = [filing EXCEPT ![f].at = "insert"]
        /\ UNCHANGED <<policyStatus, lapsed, checking>>

MarkClaimed(f) ==
    /\ filing[f].at = "mark"
    /\ policyStatus' = [policyStatus EXCEPT ![filing[f].policy] = "claimed"]
    /\ filing' = [filing EXCEPT ![f].at = "insert"]
    /\ UNCHANGED <<lapsed, claims, checking>>

InsertClaim(f) ==
    /\ filing[f].at = "insert"
    /\ claims' = claims \cup {[policy |-> filing[f].policy, by |-> f, resolved |-> FALSE]}
    /\ filing' = [filing EXCEPT ![f] = NotFiling]
    /\ UNCHANGED <<policyStatus, lapsed, checking>>

\* A statement throws, or the process stops between two.
FilingFails(f) ==
    /\ filing[f].at # "done"
    /\ filing' = [filing EXCEPT ![f] = NotFiling]
    /\ UNCHANGED <<policyStatus, lapsed, claims, checking>>

ResolveClaim(c) ==
    /\ ~c.resolved
    /\ claims' = (claims \ {c}) \cup {[c EXCEPT !.resolved = TRUE]}
    /\ UNCHANGED <<policyStatus, lapsed, filing, checking>>

CheckSlaCompliance ==
    /\ checking = {}
    /\ checking' = {p \in Policy : policyStatus[p] = "active"}
    /\ UNCHANGED <<policyStatus, lapsed, claims, filing>>

\* One round of its loop; the update asks for the id only.
CheckPolicy(p) ==
    /\ p \in checking
    /\ checking' = checking \ {p}
    /\ policyStatus' = IF p \in lapsed THEN [policyStatus EXCEPT ![p] = "expired"]
                                       ELSE policyStatus
    /\ UNCHANGED <<lapsed, claims, filing>>

InsuranceNext ==
    \/ \E p \in Policy : \/ CreatePolicy(p) \/ Lapse(p) \/ CheckPolicy(p)
                         \/ \E f \in Filer : FileClaim(f, p)
    \/ \E f \in Filer : MarkClaimed(f) \/ InsertClaim(f) \/ FilingFails(f)
    \/ \E c \in claims : ResolveClaim(c)
    \/ CheckSlaCompliance

InsuranceSpec == InsuranceInit /\ [][InsuranceNext]_insuranceVars

\* No interleaving of filers, of the check of compliance and of failures between
\* the statements leaves a policy open for new claims when one has been filed.
ClaimsSpendThePolicy ==
    \A c \in claims : policyStatus[c.policy] \in {"claimed", "expired"}
=============================================================================
