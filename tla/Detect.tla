-------------------------------- MODULE Detect --------------------------------
(***************************************************************************)
(* eios-detect: the consumer thread keeps the recent samples of every      *)
(* container, the evaluator thread applies the memory rule on a timer,     *)
(* labels what it finds with the open fault windows and writes it to Kafka *)
(* and to PostgreSQL (detect/main.py, rules.py, store.py).  Time is        *)
(* counted in evaluation periods of 30 seconds.                            *)
(***************************************************************************)
EXTENDS Integers, Sequences, FiniteSets, SequencesExt

CONSTANTS
    Containers,     \* the containers ingest samples
    Flags,          \* the faults an operator can inject
    Aims,           \* what a fault may be expected to affect: a domain, or NoDomain, and
                    \* an entity, or Anything
    NoDomain, Anything,
    Levels,         \* memory in a container's samples: 0, 1 (above 85 percent), 2 (above 92)
    Sustained,      \* SUSTAINED_SAMPLES
    Gap,            \* the 90 seconds that may separate two samples of a run
    Fresh,          \* the 180 seconds after which a container is stale
    Cooldown,       \* COOLDOWN_SECONDS
    Recent,         \* the 8 samples State.add compares with
    HistoryLimit,   \* MAX_SAMPLES
    QueueLimit,     \* messages the producer holds before produce raises
    MaxTime,        \* bound: the clock
    MaxDelay,       \* bound: how late a sample arrives
    MaxFaults       \* bound: restarts, lost connections and lost messages

\* the domain of a memory finding
Infrastructure == "infrastructure"

ASSUME ContainersAssumption == IsFiniteSet(Containers)
ASSUME LevelsAssumption == Levels \in [Containers -> SUBSET (0..2)]
ASSUME NoDomainAssumption == NoDomain # Infrastructure
ASSUME LimitsAssumption ==
    /\ {Sustained, Cooldown, Recent, QueueLimit} \subseteq Nat \ {0}
    /\ {Gap, Fresh, MaxTime, MaxDelay, MaxFaults} \subseteq Nat
    /\ HistoryLimit \in Nat /\ HistoryLimit >= Recent

VARIABLES
    now,            \* the clock
    newest,         \* the time of the newest sample of each container that has newest, or -1
    history,        \* State.infra: the samples kept, in order of arrival
    due,            \* EVAL_SECONDS have passed since the last evaluation
    pc,             \* the evaluator: waiting, cooldown, save, insert or dead
    findings, next, \* the findings of this pass and the one being handled
    fired,          \* the time of this pass, "now" in evaluate
    last_fired,     \* when each detector last fired for each container, or -1
    labels,         \* the labels read for this finding
    conn,           \* the connection to PostgreSQL works
    windows,        \* table fault_windows, one window per flag, with what it affects
    queue,          \* messages in the producer
    incidents,      \* every incident produced, and whether its row was inserted
    boot,           \* starts of the process
    faults

evaluator == <<due, pc, findings, next, fired, last_fired, labels>>
world == <<newest, history, windows>>
vars == <<now, newest, history, evaluator, conn, windows, queue, incidents, boot, faults>>

Severities == {1, 2}
Keys == Severities \X Containers
Fault == faults < MaxFaults /\ faults' = faults + 1

NoWindow == [opened |-> -1, ended |-> -1, aim |-> [domain |-> NoDomain, entity |-> Anything]]

-------------------------------------------------------------------------------
(***************************************************************************)
(* The rule.                                                               *)
(***************************************************************************)

\* mutant: a redelivered event counts as another sample
Seen_Never(h, s) == FALSE

\* State.add ignores an event observed when one of the last 8 samples was
Seen(h, s) == \E i \in DOMAIN h : i > Len(h) - Recent /\ h[i].at = s.at

\* append to deque(maxlen=MAX_SAMPLES)
Kept(h, s) == IF Seen(h, s) THEN h
              ELSE IF Len(h) < HistoryLimit THEN Append(h, s) ELSE Append(Tail(h), s)

\* mutant: gaps between samples do not matter
trailing_run_Gaps(h, threshold) ==
    {i \in DOMAIN h : \A j \in DOMAIN h : h[j].at >= h[i].at => h[j].level >= threshold}

\* The samples from which on all are at the threshold and none comes more than
\* the allowed gap after the one before it.
trailing_run(h, threshold) ==
    {i \in DOMAIN h : \A j \in DOMAIN h : h[j].at >= h[i].at =>
        /\ h[j].level >= threshold
        /\ h[j].at > h[i].at =>
            \E k \in DOMAIN h : h[k].at < h[j].at /\ h[j].at - h[k].at <= Gap}

\* mutant: the run of another sample less
Sustains_Less(h, threshold) == Cardinality(trailing_run(h, threshold)) >= Sustained - 1

Sustains(h, threshold) == Cardinality(trailing_run(h, threshold)) >= Sustained

\* infrastructure_rules skips a container without a recent sample
Stale(h) == \A i \in DOMAIN h : now - h[i].at > Fresh

\* The thresholds a container is above; the finding is about the higher.  The code
\* reads the samples of the last 1800 seconds and lists the last five of the run as
\* evidence: a run is cut there, never made shorter than SUSTAINED_SAMPLES.
Above(c) == {s \in Severities : Sustains(history[c], s)}
memory_finding(c) ==
    LET s == IF 2 \in Above(c) THEN 2 ELSE 1
    IN  [container |-> c, severity |-> s,
         evidence |-> {history[c][i] : i \in trailing_run(history[c], s)}]

Findings == {memory_finding(c) : c \in {d \in Containers : ~Stale(history[d]) /\ Above(d) # {}}}

-------------------------------------------------------------------------------
(***************************************************************************)
(* The store.                                                              *)
(***************************************************************************)

\* mutant: windows that have ended label as well
IsOpen_Ended(f) == windows[f].opened >= 0

IsOpen(f) == windows[f].opened >= 0 /\ windows[f].ended = -1

\* mutant: a fault without an expected entity labels in every domain
Attributes_AnyDomain(f, domain, c) ==
    LET aim == windows[f].aim
    IN  aim.entity = Anything \/ (aim.domain = domain /\ aim.entity = c)

\* open_fault_labels: a fault that names no domain attributes nothing, one that
\* names another domain or another entity says nothing of this finding
Attributes(f, domain, c) ==
    LET aim == windows[f].aim
    IN  aim.domain # NoDomain /\ aim.domain = domain /\ aim.entity \in {c, Anything}

\* an error answers with no labels
OpenFaultLabels(domain, c) ==
    IF conn THEN {f \in Flags : IsOpen(f) /\ Attributes(f, domain, c)} ELSE {}

-------------------------------------------------------------------------------

Init ==
    /\ now = 0
    /\ newest = [c \in Containers |-> -1]
    /\ history = [c \in Containers |-> <<>>]
    /\ due = FALSE /\ pc = "waiting"
    /\ findings = <<>> /\ next = 0 /\ fired = 0
    /\ last_fired = [k \in Keys |-> -1]
    /\ labels = {}
    /\ conn = TRUE
    /\ windows = [f \in Flags |-> NoWindow]
    /\ queue = 0 /\ incidents = <<>>
    /\ boot = 1 /\ faults = 0

Tick ==
    /\ now < MaxTime
    /\ now' = now + 1
    /\ due' = (pc = "waiting")
    /\ UNCHANGED <<world, pc, findings, next, fired, last_fired, labels, conn, queue, incidents, boot, faults>>

\* The consumer thread adds a sample.  Samples of a container come in order of
\* their times, however late.
Consume(c, at, level) ==
    /\ newest[c] < at
    /\ history' = [history EXCEPT ![c] = Kept(@, [at |-> at, level |-> level])]
    /\ newest' = [newest EXCEPT ![c] = at]
    /\ UNCHANGED <<now, evaluator, conn, windows, queue, incidents, boot, faults>>

\* The outbox of ingest sends a row again, or the group a batch its five-second
\* commit had not covered: any of the samples State.add compares with comes again.
\* (Bound: more than those would take eight samples of a container, minutes of
\* them, in five seconds.)
Redeliver(c) ==
    /\ Fault
    /\ \E i \in DOMAIN history[c] :
        /\ i > Len(history[c]) - Recent
        /\ history' = [history EXCEPT ![c] = Kept(@, history[c][i])]
    /\ UNCHANGED <<now, newest, evaluator, conn, windows, queue, incidents, boot>>

(***************************************************************************)
(* The evaluator thread.                                                   *)
(***************************************************************************)

Evaluate ==
    /\ pc = "waiting" /\ due
    /\ due' = FALSE
    /\ findings' = SetToSeq(Findings)
    /\ pc' = IF findings' = <<>> THEN "waiting" ELSE "cooldown"
    /\ next' = 1
    /\ fired' = now
    /\ UNCHANGED <<now, world, last_fired, labels, conn, queue, incidents, boot, faults>>

\* the finding being handled, and its key in last_fired
Current == findings[next]
KeyOf(f) == <<f.severity, f.container>>

\* the loop goes on with the next finding, or sleeps
Proceed ==
    /\ next' = next + 1
    /\ pc' = IF next = Len(findings) THEN "waiting" ELSE "cooldown"

\* mutant: the cooldown ends a period early
Cooling_Shorter(f) == LET t == last_fired[KeyOf(f)] IN t >= 0 /\ fired - t < Cooldown - 1

\* mutant: the cooldown forgets which detector fired
Cooling_AnySeverity(f) ==
    \E s \in Severities : LET t == last_fired[s, f.container] IN t >= 0 /\ fired - t < Cooldown

Cooling(f) == LET t == last_fired[KeyOf(f)] IN t >= 0 /\ fired - t < Cooldown

Suppress ==
    /\ pc = "cooldown"
    /\ Cooling(Current)
    /\ Proceed
    /\ UNCHANGED <<now, world, due, findings, fired, last_fired, labels, conn, queue, incidents, boot, faults>>

\* the cooldown starts and the labels are read
Fire ==
    /\ pc = "cooldown"
    /\ ~Cooling(Current)
    /\ last_fired' = [last_fired EXCEPT ![KeyOf(Current)] = fired]
    /\ labels' = OpenFaultLabels(Infrastructure, Current.container)
    /\ pc' = "save"
    /\ UNCHANGED <<now, world, due, findings, next, fired, conn, queue, incidents, boot, faults>>

\* The message is queued.  A full queue raises BufferError, which nothing
\* catches: the thread ends and the process lives on.
Produce ==
    /\ pc = "save"
    /\ IF queue < QueueLimit
       THEN /\ queue' = queue + 1
            /\ incidents' = Append(incidents,
                    [finding |-> Current, fired |-> fired, detected |-> now, labels |-> labels,
                     boot |-> boot, row |-> FALSE])
            /\ pc' = "insert"
       ELSE /\ pc' = "dead"
            /\ UNCHANGED <<queue, incidents>>
    /\ UNCHANGED <<now, world, due, findings, next, fired, last_fired, labels, conn, boot, faults>>

\* an INSERT that fails is logged
Insert ==
    /\ pc = "insert"
    /\ incidents' = [incidents EXCEPT ![Len(incidents)].row = conn]
    /\ Proceed
    /\ UNCHANGED <<now, world, due, findings, fired, last_fired, labels, conn, queue, boot, faults>>

(***************************************************************************)
(* The rest of the world.                                                  *)
(***************************************************************************)

\* start_fault, with the expectations of the request or of the flag
Open(f) ==
    /\ windows[f].opened = -1
    /\ \E a \in Aims :
        windows' = [windows EXCEPT ![f] = [opened |-> now, ended |-> -1, aim |-> a]]
    /\ UNCHANGED <<now, newest, history, evaluator, conn, queue, incidents, boot, faults>>

Close(f) ==
    /\ IsOpen(f)
    /\ windows' = [windows EXCEPT ![f].ended = now]
    /\ UNCHANGED <<now, newest, history, evaluator, conn, queue, incidents, boot, faults>>

\* A message is stored, or given up after its timeout: nobody asks which.
BrokerTakes ==
    /\ queue > 0
    /\ queue' = queue - 1
    /\ UNCHANGED <<now, world, evaluator, conn, incidents, boot, faults>>

\* the one connection is closed by the server and never opened again
Disconnect ==
    /\ conn
    /\ Fault
    /\ conn' = FALSE
    /\ UNCHANGED <<now, world, evaluator, queue, incidents, boot>>

\* The container stops, with whatever is queued lost or flushed, and starts with
\* an empty history and no cooldowns.
Restart ==
    /\ Fault
    /\ boot' = boot + 1
    /\ history' = [c \in Containers |-> <<>>]
    /\ due' = FALSE /\ pc' = "waiting"
    /\ findings' = <<>> /\ next' = 0 /\ fired' = 0
    /\ last_fired' = [k \in Keys |-> -1]
    /\ labels' = {}
    /\ conn' = TRUE
    /\ queue' = 0
    /\ UNCHANGED <<now, newest, windows, incidents>>

-------------------------------------------------------------------------------

Consumer ==
    \E c \in Containers :
        \/ \E at \in (now - MaxDelay)..now, level \in Levels[c] : Consume(c, at, level)
        \/ Redeliver(c)
Evaluator == Evaluate \/ Suppress \/ Fire \/ Produce \/ Insert
Operator == \E f \in Flags : Open(f) \/ Close(f)

Next == Tick \/ Consumer \/ Evaluator \/ Operator \/ BrokerTakes \/ Disconnect \/ Restart

Spec == Init /\ [][Next]_vars

-------------------------------------------------------------------------------

\* An incident rests on enough different samples at its threshold, none far from
\* the next and the newest not stale, though events are delivered twice and
\* samples go on arriving while the findings are handled.
EvidenceIsSustained ==
    \A i \in DOMAIN incidents :
        LET e == incidents[i].finding.evidence IN
        /\ Cardinality(e) >= Sustained
        /\ \A s \in e : s.level >= incidents[i].finding.severity
        /\ \A s \in e : (\E t \in e : t.at > s.at) => \E t \in e : t.at - s.at \in 1..Gap
        /\ \E s \in e : incidents[i].fired - s.at <= Fresh

\* "Suppress a repeat of the same rule on the same entity for this long"
\* (config.py): one process reports a detector and container once per cooldown.
OncePerCooldown ==
    \A i, j \in DOMAIN incidents :
        /\ i < j /\ incidents[i].boot = incidents[j].boot
        /\ KeyOf(incidents[i].finding) = KeyOf(incidents[j].finding)
        => incidents[j].fired - incidents[i].fired >= Cooldown

\* A finding the evaluator has passed is in an incident of its own severity, from
\* this pass or from one within the cooldown: none is suppressed by another.
FindingsAreReported ==
    \A k \in 1..next - 1 : \E i \in DOMAIN incidents :
        /\ KeyOf(incidents[i].finding) = KeyOf(findings[k])
        /\ incidents[i].boot = boot
        /\ fired - incidents[i].fired < Cooldown

\* "A window only labels an incident whose domain and entity match what the fault was
\* expected to affect" (store.py), and only if it was open while the incident was
\* made.  And "an incident detected while a fault window is open is labelled with the
\* flag that caused it", as long as the connection is never lost.
LabelsAreTrue ==
    \A i \in DOMAIN incidents, f \in Flags :
        LET aim == windows[f].aim
            expected == /\ aim.domain = Infrastructure
                        /\ aim.entity \in {incidents[i].finding.container, Anything}
        IN  /\ f \in incidents[i].labels =>
                /\ expected
                /\ windows[f].opened \in 0..incidents[i].detected
                /\ windows[f].ended = -1 \/ windows[f].ended >= incidents[i].fired
            /\ faults = 0 /\ expected
               /\ windows[f].opened \in 0..incidents[i].fired - 1
               /\ (windows[f].ended = -1 \/ windows[f].ended > incidents[i].detected)
               => f \in incidents[i].labels
===============================================================================
