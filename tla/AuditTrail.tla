------------------------------ MODULE AuditTrail ------------------------------
(***************************************************************************)
(* packages/governance/src/{audit-trail,telemetry-collector,               *)
(* decision-provenance}.ts: audit events and telemetry records are         *)
(* buffered in the process and written in batches by a timer, which does   *)
(* not wait for the insert before; decisions are written one by one.       *)
(***************************************************************************)
EXTENDS Naturals, Sequences, SequencesExt

CONSTANTS Event,        \* what is recorded, each at most once
          MaxFlights    \* bound: inserts of one writer at the same time

ASSUME AuditAssumption == MaxFlights \in Nat

Writer == {"audit", "telemetry"}

VARIABLES writer,       \* which of the two, in this behaviour
          running,      \* the process keeps it
          buffer,       \* events waiting for the next flush
          flights,      \* batches whose insert is awaited
          stored,       \* rows of audit_events or telemetry_records
          recorded,     \* events its callers handed over since the start
          decisions     \* rows of decision_provenance

auditVars == <<writer, running, buffer, flights, stored, recorded, decisions>>

AuditTypeOK ==
    /\ writer \in Writer
    /\ running \in BOOLEAN
    /\ buffer \in Seq(Event)
    /\ flights \in Seq(Seq(Event))
    /\ Len(flights) <= MaxFlights + 1
    /\ stored \in SUBSET Event
    /\ recorded \in SUBSET Event
    /\ decisions \in SUBSET Event

AuditInit ==
    /\ writer \in Writer
    /\ running = TRUE
    /\ buffer = <<>>
    /\ flights = <<>>
    /\ stored = {}
    /\ recorded = {}
    /\ decisions = {}

Push(e) ==
    /\ running
    /\ e \notin recorded
    /\ buffer' = Append(buffer, e)
    /\ recorded' = recorded \cup {e}
    /\ UNCHANGED <<writer, running, flights, stored, decisions>>

\* The push comes before the publish, whose failure is only logged.
RecordAudit(e) == writer = "audit" /\ Push(e)

RecordTelemetry(e) == writer = "telemetry" /\ Push(e)

\* The insert throws to the caller when it fails.
RecordDecision(e) ==
    /\ e \notin decisions
    /\ decisions' = decisions \cup {e}
    /\ UNCHANGED <<writer, running, buffer, flights, stored, recorded>>

Flush ==
    /\ running
    /\ buffer # <<>>
    /\ Len(flights) < MaxFlights
    /\ flights' = Append(flights, buffer)
    /\ buffer' = <<>>
    /\ UNCHANGED <<writer, running, stored, recorded, decisions>>

Inserted(i) ==
    /\ stored' = stored \cup ToSet(flights[i])
    /\ flights' = RemoveAt(flights, i)
    /\ UNCHANGED <<writer, running, buffer, recorded, decisions>>

PutBackOver(batch) ==   \* a defect: over what came in meanwhile
    buffer' = batch

PutBack(batch) == buffer' = batch \o buffer

\* The rows may be there although the answer says that the insert failed.
InsertFails(i) ==
    /\ stored' \in {stored, stored \cup ToSet(flights[i])}
    /\ PutBack(flights[i])
    /\ flights' = RemoveAt(flights, i)
    /\ UNCHANGED <<writer, running, recorded, decisions>>

\* The last flush is started and not awaited.
Stop ==
    /\ running
    /\ running' = FALSE
    /\ flights' = IF buffer = <<>> THEN flights ELSE Append(flights, buffer)
    /\ buffer' = <<>>
    /\ UNCHANGED <<writer, stored, recorded, decisions>>

\* The process ends, with or without stop, and another one starts; an insert
\* under way may still arrive.
Respawn ==
    /\ \E arrived \in SUBSET ToSet(flights) :
           stored' = stored \cup UNION {ToSet(batch) : batch \in arrived}
    /\ running' = TRUE
    /\ buffer' = <<>>
    /\ flights' = <<>>
    /\ recorded' = {}
    /\ UNCHANGED <<writer, decisions>>

AuditNext ==
    \/ \E e \in Event : RecordAudit(e) \/ RecordTelemetry(e) \/ RecordDecision(e)
    \/ Flush \/ Stop \/ Respawn
    \/ \E i \in DOMAIN flights : Inserted(i) \/ InsertFails(i)

AuditSpec == AuditInit /\ [][AuditNext]_auditVars

\* As long as the process lives, an event that was handed over is waiting, on its
\* way or in the table, however inserts and failures of them overlap with new
\* events.
EventsAreKept ==
    recorded \subseteq stored \cup ToSet(buffer) \cup UNION {ToSet(batch) : batch \in ToSet(flights)}
=============================================================================
