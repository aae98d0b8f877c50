-------------------------- MODULE EnhancementStages --------------------------
(***************************************************************************)
(* packages/enhancement-layer/src/{amplifiers,stabilizers,codecs,armours}: *)
(* what each stage makes of a text.  A text is the set of the things in it *)
(* that some stage tells apart; a stage is an operator from a text to the  *)
(* texts it may return.  A stage whose text says only that it may do       *)
(* something (a lookup, a truncation) returns a set.                       *)
(***************************************************************************)
EXTENDS Integers, FiniteSets

\* What stands in the text as it was given, outside tags and code blocks; the
\* characters of "echoed pii" also stand earlier in its line, inside a longer word.
InText == {"task", "claim", "chatter", "duplicate", "long", "system prompt", "pii",
           "echoed pii", "danger", "privilege", "exposure", "production", "terraform", "kubernetes",
           "ddl", "license", "hedged"}

\* What stands in a fenced code block.
InCode == {"code", "error", "smell", "unformatted", "pii in comment", "pii after hash",
           "secret"}

InJson == {"json", "broken json"}

\* <tag>...</tag> blocks with tags that the prompt compiler reads as sections.
Section == {"system", "retrieved-context", "ensemble-routing", "validation-errors"}

\* Notes whose tags carry attributes, or that are comments.
Note == {"domain-context", "refinement-feedback", "verification-warnings"}

Trait == InText \cup InCode \cup InJson \cup Section \cup Note

Text == SUBSET Trait

(***************************************************************************)
(* Amplifiers                                                              *)
(***************************************************************************)

\* Chunks are found for a known work item, or for words about APIs or tests.
RagInjector(text) == {text, text \cup {"retrieved-context"}}

\* One round decides every claim; the further iterations find nothing pending.
ChainOfVerification(text) ==
    IF "claim" \in text THEN text \cup {"verification-warnings"} ELSE text

EnsembleRouter(text) == text \cup {"ensemble-routing"}

DomainExpertPrompts(text) ==
    IF "system prompt" \in text \/ "system" \in text THEN text \cup {"domain-context"}
                                                     ELSE text \cup {"system"}

\* Every loop checks the same blocks again, so the first decides.
OutputRefinementLoop(text) ==
    IF "code" \in text /\ text \cap {"error", "smell"} # {}
      THEN text \cup {"refinement-feedback"}
      ELSE text

(***************************************************************************)
(* Stabilizers                                                             *)
(***************************************************************************)

\* Without an expected schema the blocks that do not parse are mended if
\* removing commas, quotes and comments is enough; with one they are reported.
SchemaEnforcer(text, expected) ==
    IF ~expected /\ "broken json" \in text THEN {text, text \ {"broken json"}} ELSE {text}

DeterministicValidator(text) ==
    IF "code" \in text /\ "error" \in text THEN text \cup {"validation-errors"} ELSE text

\* The least and the most each signal can score, in hundredths.
LengthSignal(text) == IF "long" \in text THEN [least |-> 60, most |-> 80]
                                         ELSE [least |-> 20, most |-> 90]

CodeStructureSignal(text) == IF "code" \in text THEN [least |-> 30, most |-> 95]
                                                ELSE [least |-> 70, most |-> 70]

CompletenessSignal == [least |-> 0, most |-> 85]

HedgingSignal(text) == IF "hedged" \in text THEN [least |-> 40, most |-> 70]
                                            ELSE [least |-> 90, most |-> 90]

ErrorHandlingSignal(text) == IF "code" \in text THEN [least |-> 20, most |-> 90]
                                                ELSE [least |-> 70, most |-> 70]

DocumentationSignal(text) == IF "code" \in text THEN [least |-> 50, most |-> 100]
                                                ELSE [least |-> 70, most |-> 70]

Weighted(text, end) ==
    (10 * LengthSignal(text)[end] + 15 * CodeStructureSignal(text)[end]
     + 25 * CompletenessSignal[end] + 20 * HedgingSignal(text)[end]
     + 15 * ErrorHandlingSignal(text)[end] + 15 * DocumentationSignal(text)[end]) \div 100

\* The score lies between these; the model takes the ends.
Confidence(text) == {Weighted(text, "least"), Weighted(text, "most")}

(***************************************************************************)
(* Codecs                                                                  *)
(***************************************************************************)

\* With two sections or more what stands outside them is not compiled; a single
\* one leaves the text as it is.  Headings are sections that cover everything.
PromptCompiler(text, target) ==
    LET sections == text \cap Section
    IN  IF target = "generic" \/ Cardinality(sections) < 2 THEN text ELSE sections

\* Comments in code (// and /* */, not #) and repeated lines go first, then the
\* middle of the text, with whatever stood there.
ContextCompressor(text) ==
    IF "long" \in text
      THEN {(text \ {"long", "pii in comment"}) \ cut : cut \in SUBSET (text \ {"long"})}
      ELSE {text}

OutputNormalizer(text, format) ==
    LET cleaned == text \ {"chatter"}
    IN  CASE format = "json" /\ "json" \in text /\ "broken json" \notin text -> {"json"}
          [] format = "code" /\ (InCode \cup InJson) \cap text # {} ->
                 cleaned \cap (InCode \cup InJson)
          [] OTHER -> cleaned

CodeFormatter(text) == text \ {"unformatted"}

\* Of two blocks that say nearly the same the shorter goes.
SemanticDeduplicator(text) == text \ {"duplicate"}

(***************************************************************************)
(* Armours                                                                 *)
(***************************************************************************)

\* The number of findings; the text is returned as it came.
SecurityScanner(text) == Cardinality(text \cap {"secret", "danger"})

\* Lines that begin with // or # are not looked at.  What is found is replaced where
\* the same characters first stand in its line: when that is inside something that is
\* no match (a longer number), what was found is still there.
PiiDetector(text, redact) == IF redact THEN text \ {"pii"} ELSE text

PiiFindings(text) == Cardinality(text \cap {"pii", "echoed pii"})

LicenseChecker(text) == Cardinality(text \cap {"license"})
=============================================================================
