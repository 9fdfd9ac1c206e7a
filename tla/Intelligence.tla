----------------------------- MODULE Intelligence -----------------------------
(***************************************************************************)
(* The intelligence worker for one service: the Kafka input it handles and *)
(* commits (intelligence/main.py), the findings, cases and outbox it keeps *)
(* in PostgreSQL (store.py), and the rule detector that writes to the same *)
(* topic and to the same incidents table (detect/store.py).  A failed      *)
(* transaction, a failed commit or a crash restarts the worker.            *)
(***************************************************************************)
EXTENDS Integers, Sequences, FiniteSets

CONSTANTS
    RuleDetectors,  \* detectors of eios-detect
    KpiDetector,    \* a detector of the worker: kpi or forecast
    ModelDetector,  \* the detector of the trained model
    Findable,       \* what the detectors may find in one window: sets of them
    Cooldown,       \* COOLDOWN_SECONDS, in minutes
    Episode,        \* the 30 minutes of correlate
    Kinds,          \* messages ingest may send besides incidents: "event", "invalid"
    MaxInput,       \* bound: messages from ingest and detect
    MaxEnd,         \* bound: the minutes windows and incidents end in
    MaxWindows,     \* bound: sealed windows
    MaxFound,       \* bound: what there is to find in them, or was
    MaxFaults       \* bound: crashes, failed transactions, lost acknowledgements,
                    \* windows that grow stale

ASSUME KindsAssumption == Kinds \subseteq {"event", "invalid"}
ASSUME DetectorsAssumption ==
    /\ KpiDetector \notin RuleDetectors /\ ModelDetector \notin RuleDetectors
    /\ KpiDetector # ModelDetector
    /\ Findable \subseteq SUBSET {KpiDetector, ModelDetector}
ASSUME TimesAssumption == Cooldown \in Nat \ {0} /\ Episode \in Nat
ASSUME BoundAssumption == MaxEnd \in Nat /\ MaxInput \in Nat /\ MaxWindows \in Nat /\ MaxFound \in Nat /\ MaxFaults \in Nat

VARIABLES
    log,            \* the input topics eios.events and eios.incidents, as one log
    pos,            \* messages the worker has handled and stored the offsets of
    committed,      \* messages its group has committed
    unsaved,        \* rule incidents detect has sent and not yet inserted
    windows,        \* sealed windows by their end: which detectors find something,
                    \* in the latest one only with metrics that are still fresh
    fresh,          \* the latest window is, and has metrics that are, no older than
                    \* FRESH_SECONDS
    active,         \* the service has an active model
    db,             \* the worker's tables, changed by whole transactions
    delivered,      \* outbox rows some broker has stored
    input, faults   \* counters

vars == <<log, pos, committed, unsaved, windows, fresh, active, db, delivered, input, faults>>

OwnDetectors == {KpiDetector, ModelDetector}
Ends == 1..MaxEnd

\* Messages: a valid event, an invalid message, an incident of a detector.
Message(kind) == [kind |-> kind, id |-> <<ModelDetector, 0>>, detector |-> ModelDetector, end |-> 0]
Incident(d, end, id) == [kind |-> "incident", id |-> id, detector |-> d, end |-> end]

Fault == faults < MaxFaults /\ faults' = faults + 1

\* the end of the latest window
latest == IF DOMAIN windows = {} THEN 0
          ELSE CHOOSE end \in DOMAIN windows : \A e \in DOMAIN windows : e <= end

\* the process starts again from the committed offsets
Restart == pos' = committed

-------------------------------------------------------------------------------
(***************************************************************************)
(* The store.                                                              *)
(***************************************************************************)

\* Rule incidents have random ids, the worker's own have stable ones.
OwnId(d, end) == <<d, end>>

\* the row of table incidents with this id, if any
RowOf(id) == {i \in db.incidents : i.id = id}

\* save_incident and detect's INSERT: ON CONFLICT DO NOTHING
SaveIncident(rows, f) ==
    IF \E i \in rows : i.id = f.id THEN rows
    ELSE rows \cup {[id |-> f.id, detector |-> f.detector, end |-> f.end, case |-> 0]}

\* mutant: any earlier incident joins the case
Matching_NoEpisode(t, f) ==
    {c \in DOMAIN t.cases : \E i \in t.incidents : i.case = c /\ i.end <= f.end}

\* the cases with an incident in the episode before this one
Matching(t, f) ==
    {c \in DOMAIN t.cases :
        \E i \in t.incidents : i.case = c /\ i.end >= f.end - Episode /\ i.end <= f.end}

\* the incident joins the latest of them, or opens a case
CaseFor(t, f) ==
    LET matching == Matching(t, f)
    IN  IF matching = {} THEN Len(t.cases) + 1
        ELSE CHOOSE c \in matching :
                \A e \in matching : t.cases[e].opened_at <= t.cases[c].opened_at

\* Its entry on the timeline of case c, or a case of its own.  The code stores the
\* last 100 entries of what is the whole timeline here; it never reads the others.
WithEntry(cases, f, c) ==
    IF c > Len(cases) THEN Append(cases, [opened_at |-> f.detected_at, timeline |-> <<f.id>>])
    ELSE [cases EXCEPT ![c].timeline = Append(@, f.id)]

Correlate(t, f) ==
    LET c == CaseFor(t, f)
    IN  [t EXCEPT !.cases = WithEntry(@, f, c),
                  !.incidents = {IF i.id = f.id THEN [i EXCEPT !.case = c] ELSE i : i \in @}]

\* the notifications: the incident, unless it came from the topic, and the insight
Enqueue(t, f) ==
    [t EXCEPT !.outbox = @ \o
        (IF f.detector \in RuleDetectors THEN <<>>
         ELSE <<[kind |-> "incident", finding |-> f, published |-> FALSE]>>)
        \o <<[kind |-> "insight", finding |-> f, published |-> FALSE]>>]

Known(t, f) == \E i \in t.insights : i.detector = f.detector /\ i.end = f.end

\* mutant: the cooldown only finds the insight of the window itself
Cooling_Never(t, f) ==
    f.detector \in OwnDetectors /\ Known(t, f)

Cooling(t, f) ==
    /\ f.detector \in OwnDetectors
    /\ \E i \in t.insights : i.detector = f.detector /\ i.end > f.end - Cooldown /\ i.end <= f.end

\* mutant: a finding is saved again when its message is read again
SaveFinding_NoCheck(t, f) ==
    IF Cooling(t, f) THEN t
    ELSE Enqueue(Correlate([t EXCEPT !.incidents = SaveIncident(@, f),
                                     !.insights = @ \cup {f}], f), f)

\* save_finding, one transaction: all of it or nothing
SaveFinding(t, f) ==
    IF Known(t, f) \/ Cooling(t, f) THEN t
    ELSE Enqueue(Correlate([t EXCEPT !.incidents = SaveIncident(@, f),
                                     !.insights = @ \cup {f}], f), f)

-------------------------------------------------------------------------------

Init ==
    /\ log = <<>> /\ pos = 0 /\ committed = 0
    /\ unsaved = {}
    /\ windows = [end \in {} |-> {}] /\ fresh = FALSE /\ active = FALSE
    /\ db = [events |-> {}, rejected |-> {}, incidents |-> {}, insights |-> {},
             cases |-> <<>>, outbox |-> <<>>, analysed |-> [rules |-> 0, model |-> 0],
             inference |-> [state |-> "none", end |-> 0]]
    /\ delivered = {}
    /\ input = 0 /\ faults = 0

\* ingest publishes an event, or a message is not valid
Produce(kind) ==
    /\ input < MaxInput /\ input' = input + 1
    /\ log' = Append(log, Message(kind))
    /\ UNCHANGED <<pos, committed, unsaved, windows, fresh, active, db, delivered, faults>>

\* detect sends a rule incident, which it inserts afterwards (detect/store.py).
\* Its window ends now, later than any that is old enough to be sealed.
Detect(d, end) ==
    /\ input < MaxInput /\ input' = input + 1
    /\ end > latest
    /\ LET m == Incident(d, end, <<d, Len(log) + 1>>) IN
        /\ log' = Append(log, m)
        /\ unsaved' = unsaved \cup {m}
    /\ UNCHANGED <<pos, committed, windows, fresh, active, db, delivered, faults>>

\* mutant: ON CONFLICT DO UPDATE with detect's own, empty case_id
DetectInsert_Update(m) ==
    /\ unsaved' = unsaved \ {m}
    /\ db' = [db EXCEPT !.incidents = (@ \ RowOf(m.id)) \cup
                {[id |-> m.id, detector |-> m.detector, end |-> m.end, case |-> 0]}]
    /\ UNCHANGED <<log, pos, committed, windows, fresh, active, delivered, input, faults>>

DetectInsert(m) ==
    /\ unsaved' = unsaved \ {m}
    /\ db' = [db EXCEPT !.incidents = SaveIncident(@, m)]
    /\ UNCHANGED <<log, pos, committed, windows, fresh, active, delivered, input, faults>>

\* what there is to find in the windows and what has been found in them
ToFind ==
    UNION {windows[end] \X {end} : end \in DOMAIN windows}
        \cup {<<i.detector, i.end>> : i \in {f \in db.insights : f.detector \in OwnDetectors}}

\* a window is sealed (FeatureWindows); minutes without data have none
Seal(end, found) ==
    /\ Cardinality(DOMAIN windows) < MaxWindows
    /\ Cardinality(ToFind) + Cardinality(found) <= MaxFound
    /\ end > latest
    /\ windows' = [e \in DOMAIN windows \cup {end} |-> IF e = end THEN found ELSE windows[e]]
    /\ fresh' = TRUE
    /\ UNCHANGED <<log, pos, committed, unsaved, active, db, delivered, input, faults>>

\* the version that analyses, and whether it has still to look at the latest window
version == IF active THEN "model" ELSE "rules"
Due == latest > 0 /\ fresh /\ db.analysed[version] < latest

\* The worker is held up, or down: the latest window grows stale, or metrics that a
\* detector needs do.  Nothing reads a window that is not due, so it ages when it is.
Age ==
    /\ Due
    /\ Fault
    /\ \/ fresh' = FALSE /\ UNCHANGED windows
       \/ /\ \E d \in windows[latest] : windows' = [windows EXCEPT ![latest] = @ \ {d}]
          /\ UNCHANGED fresh
    /\ UNCHANGED <<log, pos, committed, unsaved, active, db, delivered, input>>

\* an operator activates a model
Promote ==
    /\ ~active
    /\ active' = TRUE
    /\ UNCHANGED <<log, pos, committed, unsaved, windows, fresh, db, delivered, input, faults>>

(***************************************************************************)
(* The input.                                                              *)
(***************************************************************************)

\* detected_at is read from a clock that ticks with the log; created_at, of the
\* outbox rows, is the time their transaction began.
Finding(d, end, id, detected_at) ==
    [detector |-> d, end |-> end, id |-> id, detected_at |-> detected_at,
     created_at |-> Len(db.outbox)]

\* What a message leaves in the tables: a row, a rejection, a finding, or
\* nothing when it is the worker's own incident coming back.
Handled(m, offset) ==
    CASE m.kind = "event" -> [db EXCEPT !.events = @ \cup {offset}]
      [] m.kind = "invalid" -> [db EXCEPT !.rejected = @ \cup {offset}]
      [] m.kind = "incident" /\ m.detector \in OwnDetectors -> db
      [] OTHER -> SaveFinding(db, Finding(m.detector, m.end, m.id, 2 * m.id[2]))

Handle ==
    /\ pos < Len(log)
    /\ db' = Handled(log[pos + 1], pos + 1)
    /\ pos' = pos + 1
    /\ UNCHANGED <<log, committed, unsaved, windows, fresh, active, delivered, input, faults>>

\* mutant: a message whose transaction failed is passed over
HandleFails_Skips ==
    /\ pos < Len(log)
    /\ Fault
    /\ pos' = pos + 1
    /\ UNCHANGED <<log, committed, unsaved, windows, fresh, active, db, delivered, input>>

\* A database error escapes, whether or not the transaction was committed.
HandleFails ==
    /\ pos < Len(log)
    /\ Fault
    /\ db' \in {db, Handled(log[pos + 1], pos + 1)}
    /\ Restart
    /\ UNCHANGED <<log, committed, unsaved, windows, fresh, active, delivered, input>>

Commit ==
    /\ committed < pos
    /\ committed' = pos
    /\ UNCHANGED <<log, pos, unsaved, windows, fresh, active, db, delivered, input, faults>>

(***************************************************************************)
(* The analysis of the latest window.                                      *)
(***************************************************************************)

\* What this version finds in the latest window.  A model that cannot be loaded or
\* misses a feature abstains.
Found(ready) == windows[latest] \ (IF active /\ ready THEN {} ELSE {ModelDetector})

Own(d) == Finding(d, latest, OwnId(d, latest), 2 * Len(log) + 1)
SaveFound(t, d, found) == IF d \in found THEN SaveFinding(t, Own(d)) ELSE t

\* mutant: the state is written when the model answers, and is of an earlier window
\* when it does not
Inference_Answered(ready) ==
    IF active /\ ready THEN [state |-> "ready", end |-> latest] ELSE db.inference

\* the state "inference:<service>", which the version with a model writes
Inference(ready) ==
    IF active THEN [state |-> IF ready THEN "ready" ELSE "abstained", end |-> latest]
    ELSE db.inference

\* the findings, the model's last, its state and the marker in one transaction
Analysed(ready) ==
    [SaveFound(SaveFound(db, KpiDetector, Found(ready)), ModelDetector, Found(ready))
        EXCEPT !.analysed[version] = latest, !.inference = Inference(ready)]

Evaluate ==
    /\ Due
    /\ \E ready \in BOOLEAN : db' = Analysed(ready)
    /\ UNCHANGED <<log, pos, committed, unsaved, windows, fresh, active, delivered, input, faults>>

\* mutant: the marker is written before the transaction of the findings
EvaluateFails_Marked ==
    /\ Due
    /\ Fault
    /\ \/ db' = [db EXCEPT !.analysed[version] = latest]
       \/ \E ready \in BOOLEAN : db' = Analysed(ready)
    /\ Restart
    /\ UNCHANGED <<log, committed, unsaved, windows, fresh, active, delivered, input>>

EvaluateFails ==
    /\ Due
    /\ Fault
    /\ db' = db \/ \E ready \in BOOLEAN : db' = Analysed(ready)
    /\ Restart
    /\ UNCHANGED <<log, committed, unsaved, windows, fresh, active, delivered, input>>

(***************************************************************************)
(* The outbox.                                                             *)
(***************************************************************************)

Pending == {n \in DOMAIN db.outbox : ~db.outbox[n].published}

\* ORDER BY created_at: rows of one transaction are not ordered
First ==
    LET pending == Pending
    IN  {n \in pending : \A k \in pending :
            db.outbox[n].finding.created_at <= db.outbox[k].finding.created_at}

\* the broker stores the row; incidents come back as input
Deliver(n) ==
    LET row == db.outbox[n] IN
    /\ delivered' = delivered \cup {n}
    /\ log' = IF row.kind = "incident"
              THEN Append(log, Incident(row.finding.detector, row.finding.end, row.finding.id))
              ELSE log

Publish ==
    \E n \in First :
        /\ Deliver(n)
        /\ db' = [db EXCEPT !.outbox[n].published = TRUE]
        /\ UNCHANGED <<pos, committed, unsaved, windows, fresh, active, input, faults>>

\* mutant: a missing acknowledgement counts as success
PublishFails_Published ==
    \E n \in First :
        /\ Fault
        /\ Deliver(n) \/ UNCHANGED <<delivered, log>>
        /\ db' = [db EXCEPT !.outbox[n].published = TRUE]
        /\ UNCHANGED <<pos, committed, unsaved, windows, fresh, active, input>>

\* No acknowledgement within the flush, or the process dies before the row is
\* updated: the row stays pending, delivered or not.
PublishFails ==
    \E n \in First :
        /\ Fault
        /\ Deliver(n) \/ UNCHANGED <<delivered, log>>
        /\ Restart \/ UNCHANGED pos
        /\ UNCHANGED <<committed, unsaved, windows, fresh, active, db, input>>

Crash ==
    /\ Fault
    /\ Restart
    /\ UNCHANGED <<log, committed, unsaved, windows, fresh, active, db, delivered, input>>

-------------------------------------------------------------------------------

Environment ==
    \/ \E kind \in Kinds : Produce(kind)
    \/ \E d \in RuleDetectors, end \in Ends : Detect(d, end)
    \/ \E m \in unsaved : DetectInsert(m)
    \/ \E end \in Ends, found \in Findable : Seal(end, found)
    \/ Age
    \/ Promote

Worker == Handle \/ Commit \/ Evaluate \/ Publish
Failures == HandleFails \/ EvaluateFails \/ PublishFails \/ Crash

Next == Environment \/ Worker \/ Failures

Spec == Init /\ [][Next]_vars

\* The loop of main goes on as long as it has a message, a window or a row to work on.
FairSpec == Spec /\ WF_vars(Handle \/ Evaluate \/ Publish)

-------------------------------------------------------------------------------

HasInsight(d, end) == \E i \in db.insights : i.detector = d /\ i.end = end

\* "Intelligence outputs, incidents, case updates, and notification intents
\* commit before Kafka offsets advance" (runbook): every message below the
\* committed offset has left its row, its rejection or its insight.
CommittedIsHandled ==
    \A n \in 1..committed :
        LET m == log[n] IN
        /\ m.kind = "event" => n \in db.events
        /\ m.kind = "invalid" => n \in db.rejected
        /\ m.kind = "incident" => HasInsight(m.detector, m.end)

\* A finding is stored whole and once, however often it is replayed and
\* whichever of detect and the worker inserts the incident first: its incident
\* has a case, whose timeline shows it once and no other does, and the outbox
\* has its notifications once.
FindingsAreWhole ==
    \A f \in db.insights :
        /\ \E i \in RowOf(f.id) : i.case # 0 /\ RowOf(f.id) = {i}
        /\ \A c \in DOMAIN db.cases :
              Cardinality({n \in DOMAIN db.cases[c].timeline : db.cases[c].timeline[n] = f.id})
                  = (IF \E i \in RowOf(f.id) : i.case = c THEN 1 ELSE 0)
        /\ \A kind \in {"insight", "incident"} :
              Cardinality({n \in DOMAIN db.outbox : db.outbox[n].kind = kind /\ db.outbox[n].finding = f})
                  = (IF kind = "incident" /\ f.detector \in RuleDetectors THEN 0 ELSE 1)

HasInsightSince(d, end) == \E e \in (end - Cooldown + 1)..end : HasInsight(d, e)

\* "Replay cannot advance the marker while losing a finding" (main.py): what the
\* marked window still shows has an insight, its own or one within the cooldown.
\* The model's findings may only be missing from the marker of a version with a
\* model when the inference state says that it abstained on this very window.
MarkerMeansAnalysed ==
    \A v \in {"rules", "model"} : db.analysed[v] > 0 =>
        \A d \in windows[db.analysed[v]] :
            \/ HasInsightSince(d, db.analysed[v])
            \/ d = ModelDetector /\ v = "rules"
            \/ /\ d = ModelDetector /\ v = "model"
               /\ db.inference = [state |-> "abstained", end |-> db.analysed["model"]]

\* A detector of the worker reports a service once per cooldown, also when a
\* model is promoted and the window is analysed again.
CooldownHolds ==
    \A i, j \in db.insights :
        i.detector = j.detector /\ i.detector \in OwnDetectors /\ i.end < j.end
            => j.end - i.end >= Cooldown

EndOf(id) == (CHOOSE i \in db.incidents : i.id = id).end

\* An incident joins a case because of an earlier one in its episode, which is
\* on the timeline (correlate).
CasesAreEpisodes ==
    \A c \in DOMAIN db.cases : \A n \in 2..Len(db.cases[c].timeline) :
        \E k \in 1..(n - 1) :
            EndOf(db.cases[c].timeline[n]) - EndOf(db.cases[c].timeline[k]) \in 0..Episode

\* "Cases ... group same-service incidents in 30-minute episodes" (runbook):
\* incidents of one episode are in one case.
EpisodesAreShared ==
    \A i, j \in db.incidents :
        i.case # 0 /\ j.case # 0 /\ j.end - i.end \in 0..Episode => i.case = j.case

\* Every rule incident on the topic gets its insight, because a restart replays
\* it: once the input stops, none is left without.
RuleIncidentsAreEnriched ==
    []<>(\A n \in DOMAIN log :
            log[n].detector \in RuleDetectors => HasInsight(log[n].detector, log[n].end))

\* Every notification intent reaches a broker, whatever fails on the way: once
\* the input stops, none is left behind.
NotificationsAreDelivered == []<>(DOMAIN db.outbox \subseteq delivered)
===============================================================================
