------------------------- MODULE FailurePatternEngine -------------------------
(***************************************************************************)
(* packages/governance/src/failure-pattern-engine.ts: failures of a tenant *)
(* are counted in one row for each signature.  Callers run concurrently:   *)
(* the row is read, and then updated or inserted, with no transaction and  *)
(* no unique key on the hash.                                              *)
(***************************************************************************)
EXTENDS Naturals, Sequences, FiniteSets, Functions

CONSTANTS Signature, Report, HighFrequencyThreshold,
          MaxReported    \* bound: failures reported of one signature

ASSUME PatternAssumption == IsFiniteSet(Report) /\ MaxReported \in Nat

VARIABLES patterns,    \* rows of failure_patterns, in order of insertion
          reports,     \* report -> where recordFailure is
          reported,    \* signature -> failures reported so far
          alerts       \* rows an alert has gone out for

patternVars == <<patterns, reports, reported, alerts>>

NoReport == [at |-> "done", signature |-> "none", row |-> 0, count |-> 0]

PatternRow == [signature : Signature, count : 1..MaxReported, status : {"active", "resolved"}]

Reporting == [at : {"write", "alert"}, signature : Signature, row : {0} \cup DOMAIN patterns,
              count : 1..MaxReported]

PatternTypeOK ==
    /\ patterns \in Seq(PatternRow)
    /\ reports \in [Report -> Reporting \cup {NoReport}]
    /\ reported \in [Signature -> 0..MaxReported]
    /\ alerts \subseteq DOMAIN patterns

PatternInit ==
    /\ patterns = <<>>
    /\ reports = [r \in Report |-> NoReport]
    /\ reported = [s \in Signature |-> 0]
    /\ alerts = {}

RowsOf(s) == {i \in DOMAIN patterns : patterns[i].signature = s}

\* The select takes any row of the signature; 0 is none.
RecordFailure(r, s) ==
    /\ reports[r].at = "done"
    /\ reported[s] < MaxReported
    /\ reported' = [reported EXCEPT ![s] = @ + 1]
    /\ \E row \in IF RowsOf(s) = {} THEN {0} ELSE RowsOf(s) :
           reports' = [reports EXCEPT ![r] =
               [at |-> "write", signature |-> s, row |-> row,
                count |-> IF row = 0 THEN 1 ELSE patterns[row].count + 1]]
    /\ UNCHANGED <<patterns, alerts>>

UpdateAndInsert(report) ==   \* a defect: the update does not return
    patterns' = Append([patterns EXCEPT ![report.row].count = report.count],
                       [signature |-> report.signature, count |-> 1, status |-> "active"])

Update(report) == patterns' = [patterns EXCEPT ![report.row].count = report.count]

Insert(report) ==
    patterns' = Append(patterns, [signature |-> report.signature, count |-> 1,
                                  status |-> "active"])

\* A pattern that is new, or as frequent as the threshold, is announced; the count
\* written is the one computed from what was read.
WriteFailure(r) ==
    LET report == reports[r]
        alarming == report.row = 0 \/ report.count >= HighFrequencyThreshold
    IN  /\ report.at = "write"
        /\ IF report.row = 0 THEN Insert(report) ELSE Update(report)
        /\ reports' = [reports EXCEPT ![r] =
               IF alarming THEN [report EXCEPT !.at = "alert",
                                               !.row = IF @ = 0 THEN Len(patterns) + 1 ELSE @]
                           ELSE NoReport]
        /\ UNCHANGED <<reported, alerts>>

\* publishAlert: a publish that fails is logged.
PublishAlert(r) ==
    /\ reports[r].at = "alert"
    /\ \/ alerts' = alerts \cup {reports[r].row}
       \/ UNCHANGED alerts
    /\ reports' = [reports EXCEPT ![r] = NoReport]
    /\ UNCHANGED <<patterns, reported>>

\* The caller stops between two statements.
ReportDies(r) ==
    /\ reports[r].at # "done"
    /\ reports' = [reports EXCEPT ![r] = NoReport]
    /\ UNCHANGED <<patterns, reported, alerts>>

ResolvePattern(i) ==
    /\ patterns' = [patterns EXCEPT ![i].status = "resolved"]
    /\ UNCHANGED <<reports, reported, alerts>>

PatternNext ==
    \/ \E r \in Report : \/ \E s \in Signature : RecordFailure(r, s)
                         \/ WriteFailure(r) \/ PublishAlert(r) \/ ReportDies(r)
    \/ \E i \in DOMAIN patterns : ResolvePattern(i)

PatternSpec == PatternInit /\ [][PatternNext]_patternVars

\* Concurrent reports may lose each other's count and may insert a signature
\* twice, but over all its rows a signature is never counted more often than it
\* was reported.
CountsAreBacked ==
    \A s \in Signature :
        SumFunction([i \in RowsOf(s) |-> patterns[i].count]) <= reported[s]
=============================================================================
