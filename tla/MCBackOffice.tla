----------------------------- MODULE MCBackOffice -----------------------------
(***************************************************************************)
(* The services behind the agents side by side: governance's trails,       *)
(* failure patterns, grants and insurance, the usage recorder and the      *)
(* invoices, the tenants, the agents' memories and their skills.           *)
(* They share no state, so each is checked on its own: a behaviour belongs *)
(* to one part, and the others keep their initial state.                   *)
(***************************************************************************)
EXTENDS AuditTrail, FailurePatternEngine, AuthorityDecay, AiInsurance, UsageRecorder,
        InvoiceGenerator, TenantManager, AgentMemory, SkillRegistry, TLC

CONSTANTS x1, x2, x3

\* Values of the constants
TwoDwis == {1, 2}
Keywords(tier, n) == [t \in Tier |-> IF t = tier THEN n ELSE 0]
LargeAndTiny ==
    [d \in Dwi |-> IF d = 1
                   THEN [keywords |-> Keywords("L", 3), files |-> 5, tests |-> -1, length |-> 1000]
                   ELSE [keywords |-> Keywords("XS", 1), files |-> -1, tests |-> 0, length |-> 20]]
Deltas == x1 :> 1 @@ x2 :> -1 @@ x3 :> 2

VARIABLE part

governanceVars == <<auditVars, patternVars, authorityVars, insuranceVars>>
vars == <<governanceVars, usageVars, invoiceVars, tenantVars, memoryVars, skillVars, part>>

Parts == {"audit", "patterns", "authority", "insurance", "usage", "invoices", "tenants",
          "memory", "skills"}

Init ==
    /\ part \in Parts
    /\ AuditInit
    /\ part # "audit" => writer = "audit"
    /\ PatternInit
    /\ AuthorityInit
    /\ InsuranceInit
    /\ UsageInit
    /\ InvoiceInit
    /\ TenantInit
    /\ MemoryInit
    /\ SkillInit

AuditPart ==
    /\ part = "audit"
    /\ AuditNext
    /\ UNCHANGED <<patternVars, authorityVars, insuranceVars, usageVars, invoiceVars, tenantVars,
                   memoryVars, skillVars>>

PatternPart ==
    /\ part = "patterns"
    /\ PatternNext
    /\ UNCHANGED <<auditVars, authorityVars, insuranceVars, usageVars, invoiceVars, tenantVars,
                   memoryVars, skillVars>>

AuthorityPart ==
    /\ part = "authority"
    /\ AuthorityNext
    /\ UNCHANGED <<auditVars, patternVars, insuranceVars, usageVars, invoiceVars, tenantVars,
                   memoryVars, skillVars>>

InsurancePart ==
    /\ part = "insurance"
    /\ InsuranceNext
    /\ UNCHANGED <<auditVars, patternVars, authorityVars, usageVars, invoiceVars, tenantVars,
                   memoryVars, skillVars>>

UsagePart ==
    /\ part = "usage"
    /\ UsageNext
    /\ UNCHANGED <<governanceVars, invoiceVars, tenantVars, memoryVars, skillVars>>

InvoicePart ==
    /\ part = "invoices"
    /\ InvoiceNext
    /\ UNCHANGED <<governanceVars, usageVars, tenantVars, memoryVars, skillVars>>

TenantPart ==
    /\ part = "tenants"
    /\ TenantNext
    /\ UNCHANGED <<governanceVars, usageVars, invoiceVars, memoryVars, skillVars>>

MemoryPart ==
    /\ part = "memory"
    /\ MemoryNext
    /\ UNCHANGED <<governanceVars, usageVars, invoiceVars, tenantVars, skillVars>>

SkillPart ==
    /\ part = "skills"
    /\ SkillNext
    /\ UNCHANGED <<governanceVars, usageVars, invoiceVars, tenantVars, memoryVars>>

Next ==
    /\ UNCHANGED part
    /\ \/ AuditPart
       \/ PatternPart
       \/ AuthorityPart
       \/ InsurancePart
       \/ UsagePart
       \/ InvoicePart
       \/ TenantPart
       \/ MemoryPart
       \/ SkillPart

Spec == Init /\ [][Next]_vars

\* Every variable has a value of its type.
TypeOK ==
    /\ part \in Parts
    /\ AuditTypeOK
    /\ PatternTypeOK
    /\ AuthorityTypeOK
    /\ InsuranceTypeOK
    /\ UsageTypeOK
    /\ InvoiceTypeOK
    /\ TenantTypeOK
    /\ MemoryTypeOK
    /\ SkillTypeOK
=============================================================================
