--------------------------- MODULE InvoiceGenerator ---------------------------
(***************************************************************************)
(* packages/billing-service/src/invoice-generator.ts and the part of       *)
(* stripe-integration.ts it calls: an invoice is made of the DWIs          *)
(* completed in a period, first at Stripe, item by item, and then in the   *)
(* database.                                                               *)
(***************************************************************************)
EXTENDS ComplexityEstimator

CONSTANTS Dwi, WorkItemOf,   \* DWI -> its work item, as the estimator sees it
          Generator,         \* calls of generateInvoice
          LastDay            \* bound: days that DWIs are completed on

ASSUME InvoiceAssumption ==
    /\ IsFiniteSet(Dwi)
    /\ WorkItemOf \in [Dwi -> WorkItem]
    /\ LastDay \in Nat

VARIABLES dwiRows,        \* DWI -> row of dwi_records
          generating,     \* call -> where it is
          stripeInvoices, \* the invoices at Stripe, each the DWIs of its items
          invoiceRows     \* rows of invoices

invoiceVars == <<dwiRows, generating, stripeInvoices, invoiceRows>>

OpenDwi == [tier |-> "none", completedAt |-> 0, isBillable |-> FALSE]

NotGenerating == [at |-> "done", lines |-> {}, stripe |-> 0]

InvoiceTypeOK ==
    /\ dwiRows \in [Dwi -> [tier : Tier \cup {"none"}, completedAt : 0..LastDay,
                            isBillable : BOOLEAN]]
    /\ generating \in [Generator -> [at : {"titles", "items"}, lines : SUBSET Dwi,
                                     stripe : {0} \cup DOMAIN stripeInvoices]
                                    \cup {NotGenerating}]
    /\ stripeInvoices \in Seq(SUBSET Dwi)
    /\ invoiceRows \subseteq [stripe : DOMAIN stripeInvoices, lines : SUBSET Dwi,
                             totalUsd : Int, totalSavingsUsd : Int]

InvoiceInit ==
    /\ dwiRows = [d \in Dwi |-> OpenDwi]
    /\ generating = [g \in Generator |-> NotGenerating]
    /\ stripeInvoices = <<>>
    /\ invoiceRows = {}

\* What the tracker does to the rows meanwhile.
CompleteDwi(d, day) ==
    /\ dwiRows[d].completedAt = 0
    /\ \E tier \in EstimateComplexity(WorkItemOf[d]) :
           dwiRows' = [dwiRows EXCEPT ![d] = [tier |-> tier, completedAt |-> day,
                                              isBillable |-> TRUE]]
    /\ UNCHANGED <<generating, stripeInvoices, invoiceRows>>

RevertDwi(d) ==
    /\ dwiRows[d].isBillable
    /\ dwiRows' = [dwiRows EXCEPT ![d].isBillable = FALSE]
    /\ UNCHANGED <<generating, stripeInvoices, invoiceRows>>

\* Both ends of the period belong to it; a period with nothing to bill throws.
BillableIn(first, last) ==
    {d \in Dwi : dwiRows[d].isBillable /\ dwiRows[d].completedAt \in first..last}

StartInvoice(g, first, last) ==
    /\ generating[g].at = "done"
    /\ BillableIn(first, last) # {}
    /\ generating' = [generating EXCEPT ![g] = [at |-> "titles", lines |-> BillableIn(first, last),
                                                stripe |-> 0]]
    /\ UNCHANGED <<dwiRows, stripeInvoices, invoiceRows>>

\* After the titles and the tenant have been read: createInvoice.
CreateStripeInvoice(g) ==
    /\ generating[g].at = "titles"
    /\ stripeInvoices' = Append(stripeInvoices, {})
    /\ generating' = [generating EXCEPT ![g] =
           [at |-> "items", lines |-> @.lines, stripe |-> Len(stripeInvoices) + 1]]
    /\ UNCHANGED <<dwiRows, invoiceRows>>

AddItem(g, d) ==
    /\ generating[g].at = "items"
    /\ d \in generating[g].lines \ stripeInvoices[generating[g].stripe]
    /\ stripeInvoices' = [stripeInvoices EXCEPT ![generating[g].stripe] = @ \cup {d}]
    /\ UNCHANGED <<dwiRows, generating, invoiceRows>>

Total(lines) == SumFunction([d \in lines |-> PriceUsd[dwiRows[d].tier]])

HumanTotal(lines) == SumFunction([d \in lines |-> HumanCostUsd[dwiRows[d].tier]])

ItemsMaySkip(g) ==   \* a defect: an item that fails is passed over
    generating[g].at = "items"

ItemsAdded(g) ==
    /\ generating[g].at = "items"
    /\ generating[g].lines = stripeInvoices[generating[g].stripe]

StoreInvoice(g) ==
    /\ ItemsAdded(g)
    /\ LET lines == generating[g].lines
       IN  invoiceRows' = invoiceRows \cup
               {[stripe |-> generating[g].stripe, lines |-> lines, totalUsd |-> Total(lines),
                 totalSavingsUsd |-> HumanTotal(lines) - Total(lines)]}
    /\ generating' = [generating EXCEPT ![g] = NotGenerating]
    /\ UNCHANGED <<dwiRows, stripeInvoices>>

\* A call throws, or the service ends; what Stripe has stays there.
GenerationFails(g) ==
    /\ generating[g].at # "done"
    /\ generating' = [generating EXCEPT ![g] = NotGenerating]
    /\ UNCHANGED <<dwiRows, stripeInvoices, invoiceRows>>

InvoiceNext ==
    \/ \E d \in Dwi : RevertDwi(d) \/ \E day \in 1..LastDay : CompleteDwi(d, day)
    \/ \E g \in Generator :
           \/ /\ Len(stripeInvoices) < 2   \* bound
              /\ \E first \in 1..LastDay : \E last \in first..LastDay : StartInvoice(g, first, last)
           \/ CreateStripeInvoice(g)
           \/ \E d \in Dwi : AddItem(g, d)
           \/ StoreInvoice(g)
           \/ GenerationFails(g)

InvoiceSpec == InvoiceInit /\ [][InvoiceNext]_invoiceVars

\* An invoice in the database stands for one at Stripe that asks for the same
\* DWIs, of the same total, and saves the customer money; whatever fails between
\* the items, and whatever is reverted meanwhile, there is none in the database
\* for a Stripe invoice that misses an item.
InvoicesMatchStripe ==
    \A row \in invoiceRows :
        /\ stripeInvoices[row.stripe] = row.lines
        /\ row.totalUsd = Total(stripeInvoices[row.stripe])
        /\ row.totalSavingsUsd > 0
        /\ \A other \in invoiceRows : other.stripe = row.stripe => other = row
=============================================================================
