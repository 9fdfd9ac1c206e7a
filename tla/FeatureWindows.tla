---------------------------- MODULE FeatureWindows ----------------------------
(***************************************************************************)
(* Minute windows over the events table (intelligence/main.py evaluate,    *)
(* features.py build_windows, store.py upsert_windows).  Time is in ticks: *)
(* events are observed, received, stored and counted at different times,   *)
(* and the worker looks only now and then, at the last hour only.          *)
(***************************************************************************)
EXTENDS Integers, FiniteSets

CONSTANTS
    Services,
    Minute,         \* ticks in a minute
    Lateness,       \* LATENESS_SECONDS in ticks
    Horizon,        \* the hour of events the worker selects, in ticks
    MaxEvents,      \* bound: events received
    MaxTime         \* bound: the clock

ASSUME MinuteAssumption == Minute \in Nat \ {0}
ASSUME TimesAssumption == Lateness \in Nat /\ Horizon \in Nat
ASSUME BoundAssumption == MaxEvents \in Nat /\ MaxTime \in Nat

VARIABLES
    now,
    held,           \* events received by a tap whose transaction is not committed
    events,         \* table events, each row with the time it was stored
    windows,        \* table feature_windows: the rows by key, service and window_start
    received        \* counter: events received so far

vars == <<now, held, events, windows, received>>

\* A sample or an order.  "usable": it contributes a feature (a sample whose
\* values are not finite or out of range contributes none).
Event == [id : Nat, service : Services, observed_at : Nat, ingested_at : Nat, usable : BOOLEAN]
StoredEvent == [event : Event, stored_at : Nat]

\* the minute an observation falls into
bucket(at) == at - (at % Minute)
WindowEnd(start) == start + Minute
Deadline(start) == WindowEnd(start) + Lateness

Init ==
    /\ now = 0
    /\ held = {} /\ events = {}
    /\ windows = {}
    /\ received = 0

Tick ==
    /\ now < MaxTime
    /\ now' = now + 1
    /\ UNCHANGED <<held, events, windows, received>>

\* A tap receives an event observed now or earlier.
Receive(s, at, usable) ==
    /\ received < MaxEvents
    /\ at <= now
    /\ held' = held \cup {[id |-> received, service |-> s, observed_at |-> at,
                           ingested_at |-> now, usable |-> usable]}
    /\ received' = received + 1
    /\ UNCHANGED <<now, events, windows>>

\* Its row is committed, at once or after an outage.
StoreEvent(e) ==
    /\ held' = held \ {e}
    /\ events' = events \cup {[event |-> e, stored_at |-> now]}
    /\ UNCHANGED <<now, windows, received>>

\* mutant: the lateness allowance is counted from the event, not its minute
Selected_FromEvent(e) ==
    /\ e.observed_at + Horizon > now
    /\ e.observed_at + Lateness <= now
    /\ e.ingested_at <= e.observed_at + Lateness

\* the SELECT of evaluate
Selected(e) ==
    /\ e.observed_at + Horizon > now
    /\ e.observed_at + Lateness <= now
    /\ e.ingested_at <= Deadline(bucket(e.observed_at))

Observations(s, start) ==
    {row.event : row \in {row \in events :
        /\ row.event.service = s /\ bucket(row.event.observed_at) = start
        /\ row.event.usable
        /\ Selected(row.event)}}

Key(w) == <<w.service, w.window_start>>

\* mutant: a bucket is closed as soon as its observations are old enough
Closed_Open(start) == TRUE

\* only buckets that ended before the cutoff
Closed(start) == WindowEnd(start) + Lateness <= now

\* One window for each bucket that has a feature.
build_windows ==
    {[service |-> k[1], window_start |-> k[2], evidence |-> Observations(k[1], k[2]), updated_at |-> now] :
        k \in {k \in {<<row.event.service, bucket(row.event.observed_at)>> : row \in events} :
                 Closed(k[2]) /\ Observations(k[1], k[2]) # {}}}

\* mutant: ON CONFLICT DO UPDATE
Upsert_Update(built) ==
    windows' = built \cup {w \in windows : \A b \in built : Key(b) # Key(w)}

\* ON CONFLICT DO NOTHING
Upsert(built) ==
    windows' = windows \cup {b \in built : \A w \in windows : Key(w) # Key(b)}

\* SELECT, build and upsert.  Nobody else writes feature_windows and the worker
\* has one thread, so a crash between them is an evaluation that did not happen.
Evaluate ==
    /\ Upsert(build_windows)
    /\ UNCHANGED <<now, held, events, received>>

Next ==
    \/ Tick
    \/ \E s \in Services, at \in 0..now, usable \in BOOLEAN : Receive(s, at, usable)
    \/ \E e \in held : StoreEvent(e)
    \/ Evaluate

Spec == Init /\ [][Next]_vars

-------------------------------------------------------------------------------

Window == [service : Services, window_start : Nat, evidence : SUBSET Event, updated_at : Nat]

TypeOK ==
    /\ now \in 0..MaxTime
    /\ held \subseteq Event
    /\ events \subseteq StoredEvent
    /\ windows \subseteq Window
    /\ received \in 0..MaxEvents

\* The event counts for the minute that starts at start: it was observed in it
\* and received before the allowance ended.
Timely(e, s, start) ==
    /\ e.service = s /\ bucket(e.observed_at) = start
    /\ e.ingested_at <= Deadline(start)

\* Events received after the allowance "do not rewrite sealed model windows"
\* (runbook): a window once written stays what it is, and alone under its key.
WindowsAreSealed ==
    [][/\ windows \subseteq windows'
       /\ \A v, w \in windows' : Key(v) = Key(w) => v = w]_vars

\* No window is written before its allowance has ended, and none has evidence
\* from another minute or service, or received too late.
EvidenceIsTimely ==
    \A w \in windows :
        /\ w.updated_at >= Deadline(w.window_start)
        /\ \A e \in w.evidence : Timely(e, w.service, w.window_start)

Counted(w) ==
    \A row \in events :
        Timely(row.event, w.service, w.window_start) /\ row.event.usable /\ row.stored_at < w.updated_at
            => row.event \in w.evidence

\* A window written while its whole minute is within the hour that is selected
\* counts every usable timely event stored by then: training and inference do
\* not depend on when in that hour the worker looked.
WindowsAreComplete ==
    \A w \in windows : w.updated_at < w.window_start + Horizon => Counted(w)
===============================================================================
