---------------------------- MODULE UsageRecorder ----------------------------
(***************************************************************************)
(* packages/billing-service/src/usage-recorder.ts: active work units, for  *)
(* the internal accounts.  A session begins with an agent's first progress *)
(* message and ends with its last one, when it is stale, or when the       *)
(* recorder stops; a timer counts the units that have passed.              *)
(***************************************************************************)
EXTENDS Naturals, FiniteSets

CONSTANTS Worker,     \* tenant:agent
          AwuLength,  \* time of a work unit
          TickLength, \* time between two firings of the timer
          MaxClock,   \* bound: the clock stops there
          MaxBooked   \* bound: sessions booked before no more begin

ASSUME UsageAssumption ==
    /\ AwuLength \in Nat \ {0}
    /\ TickLength \in Nat \ {0}
    /\ MaxClock \in Nat
    /\ "running" \notin Worker

VARIABLES clock,
          untilTick,       \* time before the timer is to fire
          activeSessions,  \* worker -> its session
          usageRows,       \* rows of usage_records
          stopping         \* workers stop() has still to look at, or Running

usageVars == <<clock, untilTick, activeSessions, usageRows, stopping>>

Running == {"running"}

Session == [startedAt : Nat, lastActivityAt : Nat, awuCount : Nat, active : BOOLEAN]

NoSession == [startedAt |-> 0, lastActivityAt |-> 0, awuCount |-> 0, active |-> FALSE]

UsageRow == [worker : Worker, startedAt : Nat, endedAt : Nat, awus : Nat, stopping : BOOLEAN]

UsageTypeOK ==
    /\ clock \in 0..MaxClock
    /\ untilTick \in 0..TickLength
    /\ activeSessions \in [Worker -> Session]
    /\ usageRows \subseteq UsageRow
    /\ stopping = Running \/ stopping \subseteq Worker

UsageInit ==
    /\ clock = 0
    /\ untilTick = TickLength
    /\ activeSessions = [w \in Worker |-> NoSession]
    /\ usageRows = {}
    /\ stopping = Running

\* Nobody but stop() awaits the inserts and nobody looks at how each of them ends: a
\* failed one is logged, the session is out of the map.
Booking(w, session) ==
    IF session.awuCount = 0 THEN {}
    ELSE {[worker |-> w, startedAt |-> session.startedAt, endedAt |-> clock,
           awus |-> session.awuCount, stopping |-> stopping # Running]}

FlushSessions(bookings) ==
    \E made \in SUBSET bookings : usageRows' = usageRows \cup made

Touched(w) ==
    IF activeSessions[w].active THEN [activeSessions[w] EXCEPT !.lastActivityAt = clock]
    ELSE [startedAt |-> clock, lastActivityAt |-> clock, awuCount |-> 0, active |-> TRUE]

MayBegin(w) == activeSessions[w].active \/ Cardinality(usageRows) < MaxBooked

Progress(w) ==
    /\ MayBegin(w)
    /\ activeSessions' = [activeSessions EXCEPT ![w] = Touched(w)]
    /\ UNCHANGED <<clock, untilTick, usageRows, stopping>>

\* The last, partial unit counts.
Done(w) ==
    /\ MayBegin(w)
    /\ FlushSessions(Booking(w, [Touched(w) EXCEPT !.awuCount = @ + 1]))
    /\ activeSessions' = [activeSessions EXCEPT ![w] = NoSession]
    /\ UNCHANGED <<clock, untilTick, stopping>>

UnitsSinceActivity(session) ==   \* a defect: a message begins the count anew
    (clock - session.lastActivityAt) \div AwuLength

ExpectedAwus(session) == (clock - session.startedAt) \div AwuLength

Counted(session) ==
    [session EXCEPT !.awuCount = IF ExpectedAwus(session) > @ THEN ExpectedAwus(session) ELSE @]

Stale(session) == session.active /\ clock - session.lastActivityAt > 2 * AwuLength

TickAwu ==
    /\ stopping = Running
    /\ untilTick = 0
    /\ untilTick' = TickLength
    /\ FlushSessions(UNION {Booking(w, [Counted(activeSessions[w]) EXCEPT !.awuCount = @ + 1]) :
                                w \in {x \in Worker : Stale(activeSessions[x])}})
    /\ activeSessions' = [w \in Worker |->
           IF activeSessions[w].active /\ ~Stale(activeSessions[w])
             THEN Counted(activeSessions[w]) ELSE NoSession]
    /\ UNCHANGED <<clock, stopping>>

\* Messages come at any time; the timer fires when it is due.
Advance ==
    /\ untilTick > 0
    /\ clock < MaxClock
    /\ clock' = clock + 1
    /\ untilTick' = IF stopping = Running THEN untilTick - 1 ELSE untilTick
    /\ UNCHANGED <<activeSessions, usageRows, stopping>>

\* The timer is cleared: it begins anew with the next start.
StopRecorder ==
    /\ stopping = Running
    /\ stopping' = Worker
    /\ untilTick' = TickLength
    /\ UNCHANGED <<clock, activeSessions, usageRows>>

\* One round of the loop in stop(): the session stays in the map meanwhile, and
\* messages are still handled.
StopFlushes(w) ==
    /\ stopping # Running
    /\ w \in stopping
    /\ stopping' = stopping \ {w}
    /\ FlushSessions(Booking(w, activeSessions[w]))
    /\ UNCHANGED <<clock, untilTick, activeSessions>>

\* clear() and punsubscribe; then the service is started again.
StopEnds ==
    /\ stopping = {}
    /\ activeSessions' = [w \in Worker |-> NoSession]
    /\ stopping' = Running
    /\ UNCHANGED <<clock, untilTick, usageRows>>

UsageNext ==
    \/ \E w \in Worker : Progress(w) \/ Done(w) \/ StopFlushes(w)
    \/ TickAwu \/ Advance \/ StopRecorder \/ StopEnds

UsageSpec == UsageInit /\ [][UsageNext]_usageVars

\* What is booked outside stop() is booked with every unit the session lasted, but for
\* less than the time between two ticks, and with one more at most, and no time of a
\* worker is booked twice, whenever its messages come between the ticks.
SessionsAreBookedOnce ==
    \A r \in {x \in usageRows : ~x.stopping} :
        /\ r.endedAt - r.startedAt < r.awus * AwuLength + TickLength
        /\ r.awus * AwuLength <= r.endedAt - r.startedAt + AwuLength
        /\ \A q \in {x \in usageRows : ~x.stopping /\ x.worker = r.worker} :
               q = r \/ q.endedAt <= r.startedAt \/ r.endedAt <= q.startedAt
=============================================================================
