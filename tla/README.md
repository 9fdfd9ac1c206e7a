# EIOS: formal models, checks and proofs

EIOS (`src/eios`) watches an OpenTelemetry Demo: it ingests orders and container
samples, detects incidents, analyses minute windows with rules and trained
models, and lets operators inject faults whose records are the ground truth for
evaluation; a dashboard in the browser shows all of it. The demo
(`src/opentelemetry-demo`) is a shop, with a web frontend, a phone app and
services behind them, whose orders are the input of EIOS. This directory holds TLA+ models of the parts of it whose
correctness depends on order, failure and time, the TLC runs that check them on
small instances, and proofs that TLAPS checks for every value of the constants.
`PROJECT.json` maps each definition to the source lines it stands for.

## 1. The system

```
 orders topic ──► ingest ──► events table + outbox ──► eios.events topic ──┬─► detect ─► eios.incidents
 Prometheus   ──►   │                │                                     │               │      │
                    └────────────────┼──► feature windows ◄── intelligence ◄───────────────┘      │
 operator ─► orchestrator ─► flag file (flagd, flagd-ui)        │ findings, cases, outbox         │
                  │      └─► fault_windows ─► labels, training, │                                 │
                  │                           evaluation        └─► eios.intelligence ─► orchestrator hub ─► dashboards
```

| Component | State | Operations | Talks to |
| --- | --- | --- | --- |
| ingest (`ingest/`) | consumer position and committed offset, one PostgreSQL connection, `events`, `intelligence_outbox`, the producer's queue | poll and emit an order, skip what does not decode, emit a sample or a health event, publish pending rows, stop, restart | orders topic, Prometheus, PostgreSQL, events topic |
| fault injection (`orchestrator/main.py`, `flags.py`, `db.py`; flagd-ui) | the flag file, a lock, `fault_windows`, `audit_log` | start and stop a fault, set a variant, the writes of flagd-ui | flagd, PostgreSQL |
| detect (`detect/`) | the last samples of each container, cooldowns, one PostgreSQL connection | consume a sample, evaluate, label, produce, insert | events and incidents topics, `fault_windows`, `incidents` |
| feature windows (`intelligence/features.py`) | `feature_windows` | select, build, seal | `events` |
| intelligence worker (`intelligence/main.py`, `store.py`) | offsets, `incidents`, `intelligence_insights`, `cases`, `intelligence_outbox`, one marker per model version | handle a message, commit, analyse the latest window, publish | both topics, the same `incidents` rows as detect |
| model lifecycle (`intelligence/models.py`, `evaluation.py`, `cli.py`) | `model_registry`, artifacts, `evaluation_runs` | train, promote or roll back, evaluate | `feature_windows`, `fault_windows` |
| dashboard (`dashboard/src`) | the screen, the open windows and what each holds: transcript, path and trail, workloads, report and chart, services and call graph, key and posture | open and close a window, ask the orchestrator, take its answers in any order, timers | the orchestrator's API |
| shop frontend (`frontend/`) | react-query's cache, session and currency of the tab | add, pick, empty, order, switch currency, reload; routes that call the services | cart, checkout, payment, shipping, catalogue, currency |
| shop phone app (`react-native-app/`) | session and address kept on the phone, react-query's cache | add, empty, order, change the address, relaunch | the same routes |
| shop services (`checkout/`, `payment/`, `cart/`) | carts in Valkey | prepare, charge, ship, empty | one another |
| hub (`orchestrator/main.py`) | connected dashboards, a consumer thread | join, leave, broadcast | incidents and intelligence topics |
| governance (`agents_router.py`, `intelligence_router.py`) | `approvals`, `intelligence_feedback`, statuses | request and decide an approval, give feedback | PostgreSQL |
| libraries (`security/`) | audit hash chain, rate limit buckets | log, verify, allow | used by no deployed service |

What is hard about it:

- *Two stores and no common transaction.* Every service writes PostgreSQL and
  Kafka; the order of the two, and what a crash between them leaves, decides
  whether something is lost, doubled or only late.
- *Failures that look like success.* A commit whose answer is lost, a flush that
  gives up on a message the broker still takes, a connection that looks open.
- *Several writers.* Two request threads on one flag file, detect and the worker
  on one incident row, two operators on one active model.
- *Time.* Samples arrive late or twice, windows are sealed once, cooldowns and
  margins are inclusive at one end, faults are still open when models are trained.

- *Answers out of order.* A window or a page asks again before the last answer has
  come; what is shown may then be of another path, service, key, shop or command.
- *Languages.* Money and messages pass through TypeScript, Go, JavaScript and C#,
  each with its own numbers.

What makes each component correct:

- ingest: offsets never pass unpersisted work; an event and its delivery intent
  exist together, once; rows reach the topic in order and at least once; health
  events tell the truth.
- fault injection: concurrent changes of the file do not undo one another, what is
  on is recorded, a window ends once, no request is stuck behind the lock.
- detect: an incident rests on sustained evidence, appears once per cooldown and
  is not masked by another; its labels are the faults that were open.
- windows: sealed once, from timely events only, from all of them.
- intelligence: findings are whole and once through replay; markers and offsets
  do not run ahead of the tables; cases are episodes; notifications are delivered.
- models: one active model at any time; training and test data hold what they claim.
- dashboard: each answer is shown where it belongs, or not at all.
- shop: a shopper gets the cart picked, pays what was shown, once, and is not told
  otherwise; a message is read as it was sent.

## 2. The modules

| Module | Models | Checked | Proved |
| --- | --- | --- | --- |
| `EventDelivery` | abstract: an in-order, at-least-once outbox | as the property of `Ingest` | |
| `Ingest` | the ingest process with Kafka, PostgreSQL and restarts | `ingest_delivery` | `Ingest_proofs` |
| `Faults`, `MCFaults` | start and stop requests, the flag file, flagd-ui | `faults_requests`, `faults_unrecorded` | `Faults_proofs` |
| `Detect`, `MCDetect` | consumer, evaluator, labels, dual write | `detect_rules` | `Detect_proofs` |
| `FeatureWindows` | selection, lateness, sealing | `windows_safety` | `FeatureWindows_proofs` |
| `Intelligence` | input, findings, cases, markers, outbox | `intelligence_worker`, `intelligence_episodes` | `Intelligence_proofs` |
| `ModelRegistry` | training data, promotion, test labelling | `registry_lifecycle`, `registry_negatives` | `ModelRegistry_proofs` |
| `Protos` | the shop's messages, services and codecs as its frontend has them | `protos_calls` | |
| `Storefront` | the browser, the frontend's routes, cart, checkout, payment, shipping | within `Shops` | |
| `Mobile` | the phone app, its session and its shop's address | within `Shops` | |
| `Shops`, `MCStorefront` | the two clients of the shop composed | `storefront_shopping` | `Shops_proofs` |
| `Terminal`, `Explorer`, `Onboarding`, `Reports`, `Services` (with `CallGraph`), `Security` | one window of the dashboard each | within `Dashboard` | |
| `Dashboard`, `MCDashboard` | boot, sign-in, the desktop and the windows composed | `dashboard_session` | `Dashboard_proofs` |

Definitions named `X_Something` and commented *mutant* are plausible bugs of
`X`. They are not part of any specification: each shows that a property notices
a change of the code.

### Ingest

`tap` is where the orders thread stands in `kafka_tap.run`: *joining* (its
position comes from the committed offset, or from the end of the topic when
there is none), *polling*, *polled* (a message is in hand), *retrying* (the `while not stop` loop around `emit`), *committing*.
*dead* is the thread that ended because the commit of an undecodable message
raised outside the loop's `try`. `conn` is the one connection of the sink:
*stale* after a server restart, until a statement raises; `_reconnect` only looks
at `conn.closed`. `EmitReturns` and `EmitRaises` are the two ways `emit` ends,
the second of which may have committed. `pub`, `batch`, `result` and `inflight`
are the publisher: `Select` (the LIMIT query), `Send` (produce and the start of
flush), `BrokerAppends`, `ProducerGivesUp` and `FlushTimesOut` (the callback, or
none), `RecordDelivery` (the UPDATE, which does not reconnect, or the `break`).
`skipped` is a history variable that properties read. The heartbeat of the tap is three
steps, between which orders arrive and the connection may go: `HealthAsk` asks where the
topic ends (`high`), then the position is read and either `Heartbeat` stores the
event or `NoHealth` leaves it, because the position is behind, or unknown before the
first message of a session. `asked` is a history variable, the end of the topic at the
moment of the question: a health event tells the truth about that moment.

`Delivery == INSTANCE EventDelivery` maps the outbox to the abstract one: stored
rows, delivered row numbers, acknowledged row numbers.

### Faults

A request's `pc` is *load* (it waits for `flags._lock`, loads and validates),
*save* (it holds the lock and replaces the file), *record* (the INSERT). Start
sets the flag before it records; stop records before it sets the flag, and a
`FlagError` there is only logged. `windows` and `audit` change in one transaction;
`RecordFails` and `StopFails` are transactions that fail, or commit and lose
their answer. flagd-ui (`storage.ex`) reads the file when it starts and writes
its whole copy.

### Detect

`Consume` and `Redeliver` are the consumer thread and `State.add`; the evaluator's
`pc` walks through one pass of `evaluate`: *cooldown* (skip or `Fire`, which
reads the labels), *save* (produce, which raises when the queue is full and so
ends the thread: *dead*), *insert*. A pass works on the findings it read at
its beginning while samples go on arriving. Time is counted in evaluation
periods. Memory has three levels: normal, above 85 and above 92 percent. The CPU
baseline and order rate rules share all of this except the formula and are not
modelled. The time of a finding's incident is the time of the pass. A fault window
has an `aim`, the domain and the entity it is expected to affect, either of which may be
left open; `Attributes` is the test of `open_fault_labels` on it. `Redeliver` gives
any of the `Recent` samples `State.add` compares with once more.

### FeatureWindows

An event is observed, received by a tap, stored and counted at four times.
`Evaluate` is one pass: the SELECT (`Selected`), `build_windows`, and the upsert,
which keeps existing rows. A pass may happen at any time or not at all, so the
model covers a worker that was away. A window is its evidence; its averages are
left out.

### Intelligence

`db` is the record of the worker's tables; every action that changes it applies
whole transactions (`SaveFinding`, `Handled`, `Analysed` are functions from tables
to tables, named for the methods of `store.py`). `Handle` is the transaction of
one message and the storing of its offset, `Commit` the commit of stored
offsets, at any time, `Evaluate` one analysis of the latest window with its marker,
`Publish` one row of the outbox. A window is `Due` while it is the latest, `fresh`
(`FRESH_SECONDS`) and the marker of the version is behind it; `Age` makes it stale, or
only a metric a detector needs, when the worker is held up. A model that cannot be loaded or
misses a feature abstains (`ready` is false): the marker advances all the same, and the
row `inference` says which window was abstained on. Each has a failing form that leaves either
state and, where the exception escapes the loop, restarts the worker from
`committed`. detect is modelled as the other writer of `incidents`. A cycle is
real and modelled: a published incident comes back as input. The two input
topics are one log.

### ModelRegistry

Time is in minutes. `Train` selects the windows that no fault touches within
the margin (`Healthy`, with NOW for a fault that is open) and splits them 7:3 with a
gap. A promotion is `Gate`, `Lock` (the advisory lock), `Retire` and `Activate`
(the two UPDATEs, the commit, and the unique index, which *failed* stands for), and
may `Crash` between them. Scores are not modelled: `fit` says whether a
candidate passes the gate. The filters of training windows by symptom, by operator
feedback and by the newest MAX_TRAIN_WINDOWS rows are data (`Missing`).

### Protos

`demo.ts` is generated; its 4621 lines are a table of fields and two codecs per
message. The model is that table (one definition per message, a sequence of field
descriptors such as `Str`, `Int64` and `Msg`; services are records of methods) and one
`Encode`, `Decode`, `ToJSON`, `FromJSON` and `FromPartial` for all. A message on the wire is a
sequence of tokens. Between sender and reader, peers in other languages and
of other versions reorder, extend and repeat fields or name them as
`demo.proto` does. A 64-bit number is above or within what a double holds (`Safe`).

### Storefront, Mobile and Shops

`cache` (per currency, the cart fetched last and the fetch on its way) and `calls`
with their stages are react-query and the gateway; so are `data` and `requests` in
`Mobile`. An
`Invalidate` drops a fetch on its way and begins a new one, except the very first,
which it joins. `AddItemReads` and `AddItemWrites` are the two halves of
`AddItemAsync`, which reads a cart and writes it whole. Checkout is `Prepare`,
`Charge`, `Ship` and the emptying of the cart, with each of their failures
(`MaxUpsets`); a charge may be made and its answer lost. A fetch of the cart may fail at
any of its services (`ReadFails`), and is then tried again or given up, which leaves the old
cart on the page. The shipping is a query of its own (`quoted`, `ShowShipping`): until it is
answered, and for ever if `/api/shipping` fails, the total is without it. `Value` turns money into
nanos only in properties: the code's own sums (`CartTotal` in the cart page,
`OrderTotal` in the order page, `Sum2` and `MultiplySlow` in Go) are modelled as
they carry. The currency service reads an amount with `getDouble`, multiplies, and cuts
to nanos (`Convert`); its rates are the constant `Exchange`, of which `PriceAssumption`
says only what a division and a multiplication by one rate do. The shopper is *calm* as long as nothing is done while something is
on its way, no change is lost, and no quantity or order is sent from a page that is *behind*
(the answer to a change, or to a fetch of the cart, was lost, and the cart has not been read
since); several properties speak of calm shoppers only, and section 5 says what
happens to hurried ones.

`Mobile` has the steps of a request that matter there: the session is read, made
and stored in three awaits (`GetSession`, `StoreSession`), and the address of the shop is read only when
the request is sent. `Relaunch` ends the app between any two of them. `Shops` follows one
client in a behaviour, because carts belong to sessions and no two clients share
one.

### Dashboard

Every window is a component with state of its own; `EIOSDesktop` mounts it when it
is opened and drops it when it is closed or minimised, when its requests go on but
their answers fall on nothing. The wizard alone stays mounted while hidden. `Dashboard`
composes the six windows with the screen; a behaviour follows one window
(`watched`), since no two have a variable in common. `Terminal` numbers commands;
an answer replaces the *last* entry, as the code does. `Explorer` keeps path, trail
and listing apart, as the code does, and the viewer of the desktop. `Onboarding`
has discovery rounds of two requests each, approvals that may be answered late or twice,
and the interval and the timeout of its stages. `Reports`
has the requests of filters, timer and button, the chart that follows from the
report, and the server's side of a verdict; a finding is a number, the newest the
greatest, and a list of findings a function from them to their status. `CallGraph` is
`layout` of `ServiceGraph.tsx`: the walk of `depthOf`, with its memo and its guard
against cycles, is a recursive function of the depths known so far, a service and the
path to it. The callers of a service are visited in the order of Jaeger's list, so the
loop over them is a fold over the places of its calls there (`calls`), and the outer
loop one over the services in the order of their names. `Security` is the key
in session storage and in state, and its checks.

## 3. The runs

| Run | Asks | Bounds |
| --- | --- | --- |
| `ingest_delivery` | all ingest safety, the refinement and both liveness properties under every fault | LIMIT 2 with up to three rows, so a backlog exceeds it; two orders, decodable or not; one sample or health event; two faults (`MaxFaults`) anywhere, the fewest for a lost answer followed by a crash |
| `faults_requests` | races of start and stop, the lock, the file, answers | two request threads, two flags with two variants each, two windows, one failure, one flagd-ui write: enough for two read-modify-writes, two stops of a window, start against stop |
| `faults_unrecorded` | is every toggle recorded | one request, one failure; expected violation |
| `detect_rules` | evidence, cooldown, masking, labels | one container, one fault that is expected at it, at any or at another one, in another domain or in none, three time steps of the clock (0..3) with a cooldown of 2 and runs of 2, samples late by one, one failure |
| `windows_safety` | sealed, timely and complete windows | two services, minutes of two ticks, an hour of five, eight ticks, two events: an event can fall on both sides of every edge |
| `intelligence_worker` | replay, markers, cooldown, cases, two writers of one row, liveness | two windows with up to two findings in all (`MaxFound`), three minutes with a cooldown of two, so that a second finding is within it or just after it; one message of any kind; a promotion at any time, a model that scores or abstains; one failure or one window grown stale |
| `intelligence_episodes` | are incidents of one episode in one case | one window, one rule incident; expected violation |
| `registry_lifecycle` | promotions, training and test data | two operators, two models, one fault, a gap in the data, one crash, intervals from four times (`Choices`), margins of one minute |
| `registry_negatives` | are the negatives of a test healthy | two faults, one model; expected violation |
| `protos_calls` | is every message read as it was sent | every message of every service; each field at its default and at another value, inner messages absent, empty, full and with an unsafe integer; lists of up to two; two edits by peers (`MaxEdits`) |
| `storefront_shopping` | cart, charge, order page and refusal in the browser; cart and session on the phone | browser: two products, with 100 nanos in a unit: a price whose nanos carry (1.70) and one with a zero in front (0.05), two currencies, a rate that cuts and one that loses a nano, quantities 1 and 3, a card that is accepted and one that is not, three calls, one failing service, fetch given up, reload or hurry, one fetch of the window's focus; phone: two shops, two launches, one change of address, three requests that the shopper begins, one failure |
| `dashboard_session` | does every window show what belongs there | per window: four commands; two roots and three moves; three containers in two rounds with two approvals; two services, two periods, two findings, three loads, one verdict; two refreshes and two selections over call graphs of up to two calls among three services and, in every order of their calls, a shortcut past two services, a cycle of three and a cycle with a service above and one below it; two keys, one of them right; two sign-ins or openings |

Every constant that only bounds the search is marked *bound* where it is
declared and is used in the guards of the action it caps. The properties relate
at most two or three items (two orders, two windows, two incidents, two
operators), which is why two of each are enough to break them: the mutants show
that each property is broken within the bounds by a bug of the code it is about.

Deadlock is checked in `Ingest` and `Faults`, where it says little, since a
restart or a look of flagd-ui is nearly always possible: that nothing waits for
ever is what their liveness properties say. The other models end when the clock or the inputs are used up, which their
cfg says with `CHECK_DEADLOCK FALSE`.

### What the properties say

- `CommittedPersisted`, `EventsMatchOutbox`, `HealthIsTruthful`,
  `ImplementsDelivery`, `EveryRowDelivered`, `EveryOrderPersisted` (ingest). The
  last excludes one state, the tap that died on a failed commit of an undecodable
  message (`kafka_tap.py:111`): the process goes on without it, and no restart
  brings it back. `HealthIsTruthful` says that at the question of its heartbeat every
  order on the topic was handled, but the one just polled.
- `OneFlagPerWrite`, `WindowEndsOnce`, `RequestsAreAnswered` (fault injection).
- `EvidenceIsSustained`, `OncePerCooldown`, `FindingsAreReported`,
  `LabelsAreTrue` (detect). The last is exact up to the moments of one pass: a
  fault that opens or ends during it may be named or not. A fault must be expected in the
  incident's domain, and at its container or anywhere.
- `EvidenceIsTimely`, `WindowsAreComplete`, `WindowsAreSealed` (windows).
- `CommittedIsHandled`, `FindingsAreWhole`, `MarkerMeansAnalysed`,
  `CooldownHolds`, `CasesAreEpisodes`, `RuleIncidentsAreEnriched`,
  `NotificationsAreDelivered` (intelligence). `MarkerMeansAnalysed`: what the marked
  window still shows has an insight, its own or one within the cooldown, and the
  model's is missing only where the inference state says that it abstained on this window.
- `PromotionsNeverCollide`, `ServiceStaysCovered`, `TrainingIsClean`,
  `HoldoutsAreUnseen`, `TestIsLabelled` (models). The last speaks of the faults that
  were complete when the test was run (`started`), since `evaluate_model` takes an
  interval that is not over. The run has one fault, with which the state space
  fits; the theorem has any number.
- `ArrivesAsSent`, `UnsafeIsRefused` (messages).
- `CartIsShown`, `ChargedAsShown`, `OrderPageShowsCharge`, `RefusedIsNotCharged`,
  `OneSession` (shop). `CartIsShown` is about quiet moments: when nothing is on its
  way the page shows the cart there is, whoever hurried, unless an answer was lost or the
  last fetch given up, and a calm shopper has the cart picked. `ChargedAsShown` compares the
  charge with the total on the page when the order was sent, and adds the shipping if the
  page had no answer about it then.
- `TranscriptIsWhole`, `WindowAgrees`, `WizardGoesOn`,
  `ShownIsOfTheSelection`, `ColumnsFollowCalls` (dashboard). `WizardGoesOn`: on the pipeline
  step an interval or its one timeout runs, and on no other; the last step comes after the
  last stage; and while the wizard says that it is loading, the discovery begun last is on its way. `ShownIsOfTheSelection`
  joins four windows' parts: the report and its chart, the verdicts, the
  service's detail, the posture of the key.

### Where code and docs part

| Run | Shown |
| --- | --- |
| `faults_unrecorded` | The flag is set before its window is inserted: a failure in between leaves a fault that "Every toggle should be recorded" (README) does not know. |
| `intelligence_episodes` | `correlate` only looks back: of two incidents of one episode, the one handled last must not end first. TLC's trace has the worker, behind with its input, analyse the window ending in minute 2 first; the rule incident of minute 1, handled afterwards, opens a second case. The other order does the same: a rule incident handled at once, then the analysis of an earlier window. Yet cases "group same-service incidents in 30-minute episodes". |
| `registry_negatives` | `evaluate_model` only reads faults that begin and end within the test: the minutes of one that goes on past its end count as healthy, though the comment excludes "boundaries, recovery, and faults on other services". |

### Fairness

- `Ingest`: the tap and the publisher are threads in endless loops. The publisher is
  weakly fair, and so is the end of a heartbeat. The tap's own steps are strongly fair: a
  heartbeat, which comes every 30 seconds at most, disables them for its duration, so that
  they are enabled again and again but not for ever; `restart: unless-stopped` starts the container again; PostgreSQL comes
  back and a reachable broker takes what is queued. Faults are not fair, and
  their number is bounded: liveness is about what happens after the last one.
- `Faults`: FastAPI's thread pool runs each accepted request: weak fairness of
  each request's own steps. A request that waits for the lock is not starved in the
  model because the bounded inputs leave the lock free in the end.
- `Intelligence`: the loop of `main` polls, evaluates and publishes in turn: weak
  fairness of the three together, that is, the loop goes on while there is a
  message, a window or a row to work on. Committing offsets needs none.
- The dashboard and the shop have no liveness properties: nothing obliges a server to
  answer a browser, and the pages wait without a limit.

## 4. The proofs

TLC checks the instances above; TLAPS proves the following for every value of
the constants, from the named assumptions beside their declarations. An inductive
invariant is called `IInv`; each was checked by TLC on the instances of section 3
before it was proved, and each contains the types of its module.

**`Ingest_proofs`.** `TypeCorrect`, `OffsetsFollowPersistence`
(`Spec => []CommittedPersisted`), `TablesAgree` (`[]EventsMatchOutbox`),
`HealthEventsAreTruthful` and `Refinement` (`Spec => Delivery!Spec`). The
inductive invariant is `IInv == TypeOK /\ TapInv /\ PublisherInv`.
`CommittedPersisted` alone is not inductive: whether a commit is safe depends on
the order in hand being stored and on everything before it being handled, which
`TapInv` says for each place the tap can be at. The refinement needs to know that
whatever is queued or on the topic has all earlier rows published:
`PublisherInv` ties batch, queue, topic and `published` together. Tap and
publisher are proved apart (`TapStepInv`, `PublisherStepInv`); each leaves the
other's part alone (`TapFrame`, `PublisherFrame`) because they share only tables
that grow. For health events `TapInv` says in addition that what a heartbeat was answered is
what it asked for, and that no order is in hand but the one just polled.

**`FeatureWindows_proofs`.** `TypeCorrect`, `TimelyEvidence`
(`[]EvidenceIsTimely`), `CompleteWindows` (`[]WindowsAreComplete`) and
`SealedWindows`, for any minute, lateness and horizon. Completeness needs, beside
the types, that nothing happened in the future (no row was stored and no window
written later than now) and that keys are unique; a new event stored now
cannot be missing from a window sealed before because it is not stored before
that window was.

**`Faults_proofs`.** `TypeCorrect`, `AtomicToggle` (`Spec => OneFlagPerWrite`) and
`EndsOnce` (`[]WindowEndsOnce`), for any requests, flags and failures.
`OneFlagPerWrite` is about one step, and what makes it true is a state long before:
`LockInv` says that whoever is about to replace the file holds the lock, and that the
document it loaded is still the file unless flagd-ui has written. `WindowEndsOnce`
counts rows of the audit log, so `AuditInv` ties the log to the windows: each
window has its start in the log, and a stop, after the start, exactly if it has
ended. `FlagsAssumption` says that every flag has a variant "off".

**`Detect_proofs`.** `TypeCorrect`, `SustainedEvidence`, `CooldownHolds`
(`[]OncePerCooldown`), `NothingSwallowed` (`[]FindingsAreReported`) and `TrueLabelling`
(`[]LabelsAreTrue`), for any finite set of containers and any lengths of runs, gaps,
cooldowns and queues. Evidence is sustained because a history is in the order of
its times and no time is in it twice (`HistoryInv`), which redelivery does not
change. The cooldown needs `CooldownInv`: `last_fired` is the memory of the
incidents of this process, but for a finding between the moment it is set and
the produce. Labels need `ClockInv` (nothing happened later than now), and the
labels in hand are held to the same standard as those of the row; the aim of a window
never changes once it is open.

**`Intelligence_proofs`.** `TypeCorrect`, `CommitsFollowTables`
(`[]CommittedIsHandled`), `FindingsStoredOnce` (`[]FindingsAreWhole`),
`MarkerBehindFindings` (`[]MarkerMeansAnalysed`), `CooldownKept` (`[]CooldownHolds`),
`CasesGrowByEpisodes` (`[]CasesAreEpisodes`) and `NotificationsStayInOrder`, for any messages, windows, rule detectors
and failures. The tables change by whole transactions, so the central lemmas are
about one function, `SaveFinding`: it keeps `TablesInv`, and what holds of
committed tables holds of uncommitted ones. What is needed beside the properties is
that an id tells detector and time (`Named`): otherwise a replayed message, or
the worker's own incident that comes back to it, could meet a row of something
else. The marker is safe since the findings are stored first and an insight once stored
stays; a finding that is not stored is one that `Covered` has an insight for within
the cooldown, or one of a model that abstained: the state saying so is written in the same
transaction as the marker, for the same window. `NotificationsInOrder` is for the worker's outbox what `EventDelivery` is
for that of the ingest, and weaker, as the code is: rows are selected by the time their
transaction began, so those of one transaction may leave in any order, but none
before those of an earlier transaction, and none is marked before a broker has it. Its
invariant `NoticesInv` says in addition that a row is stored after its transaction
began, so that what is added later cannot have had to leave earlier. TLC checked it on
the instance of `intelligence_worker`; it is stated beside its proof and is no
property of that run.

**`ModelRegistry_proofs`.** `TypeCorrect`, `NoCollision` (`[]PromotionsNeverCollide`),
`Coverage` (`Spec => ServiceStaysCovered`), `CleanTraining`, `UnseenHoldouts` and
`LabelledTests`, for any operators, models, faults and margins. Promotions rest on
`PromotionInv`: between the lock and the commit the holder of the lock is alone, and
what it retires is what is active. The data sets rest on the clock: `ModelsInv` says
that windows were sealed before the model was trained and end before any fault
that is open, so a fault that begins later cannot reach back. Existence of a least
window uses that natural numbers are well-founded (`WellFoundedInduction`).

**`Shops_proofs`.** `ShownOnceQuiet` (`[]CartIsShown`), `OneSessionKept`
(`[]OneSession`), `ToldRefusedIsUncharged` (`[]RefusedIsNotCharged`),
`ChargedWhatWasShown` (`[]ChargedAsShown`) and `PageShowsTheCharge`
(`[]OrderPageShowsCharge`), for any products, prices, conversions, cards, shops and
bounds. In the browser, `CalmInv` says what the one call of a shopper who waits makes
of the cart wanted; `ShownInv`, of hurried shoppers too, that while no answer is lost or out
the page has the cart, or is about to read it; `ChargeInv` that a charged order has not been
refused. On the phone, `SessionInv` says
that whoever stores a session stores that of the launch, and `FetchInv` that an answer
is followed by a fetch unless one is owed. `NoneAssumption` and `AppAssumption` keep
"nothing" apart from carts and numbers.

Money has an invariant of its own, `MoneyInv` (`MoneyInvariant`), on top of that one:
an order that was prepared is of the cart that was shown and priced as checkout prices
it, its charge is the sum of it, no other charge is of the same call, and the order
page shows an order that was answered as placed. Every step either leaves orders and
charges alone (`Untouched`) or moves one order on (`OrderMoves`). What remains is
arithmetic: three programs add up the same cart in three ways. Each sum is a fold over
a finite set of products, so a lemma of the form "for every set of products" is proved
from well-founded induction on cardinality in set form (`Minimum`, `Climb`,
`SetInduction`): the folds are shown to exist, to have the type of amounts, and to
agree (`PageIsCharged`, `CartIsCharged`), with what `getDouble` misreads and what is
cut kept apart. The assumptions are that products are finitely many, that quantities
offered are positive, and `PriceAssumption`: prices are normalised amounts, and the
default currency converted to itself loses at most a nano. The two theorems have the
hypothesis `Rates`, that a rate makes numbers of numbers; it is a hypothesis and not an
ASSUME because it is about all numbers, which TLC cannot enumerate. The instance of the
run satisfies it.

**`Dashboard_proofs`.** `TranscriptStaysWhole`, `WindowStaysInStep`
(`[]WindowAgrees`), `WizardNeverSticks` (`[]WizardGoesOn`), `SelectionIsShown` (`[]ShownIsOfTheSelection`), `LayoutFollowsCalls` and
`ColumnsStayRight` (`[]ColumnsFollowCalls`), for any trees, containers, services,
findings, graphs and keys. The invariant has a part for each window, and its theme is
the same: what was asked *last* is of what is selected (`EInv`, `SInv`, `CInv`, and
`LoadOk` for the report), so that an answer is shown there or not at all. The chart is
of a service that follows from the report, so `ChartsOk` must survive every change
of the report: a verdict marks a finding of the list and adds none, so the service stays;
everything else loads the chart again. `Truthful` says of the server's list, of
answers on their way and of the report alike that a status was given, because a
reload may carry it from one to the other. The desktop adds one lemma,
`EveryStepMoves`: whatever it does, each window makes a step of its own, is
mounted anew, or keeps still. `PeriodAssumption` says that there is a longest period,
`NoneAssumption` that no report is "nothing", `GraphAssumption` that a graph is a list
of calls between services (which are numbers, in the order of their names).

`LayoutFollowsCalls` is about the walk alone: for *every* list of calls, with calls
listed twice and cycles of any shape, `FollowsCalls` holds of the layout. A recursive
function is a CHOOSE of one that satisfies its equation, so the first task is that there
is one. A fold over a finite set of numbers exists and is unique (`FoldExists`,
`FoldIs`); the visits of the callers have a longer path, so by induction over the number
of services that are *not* on the path (`Level`) there is a function that is `depthOf`
on all visits (`VisitExists`), and it gives depths (`VisitIs`). What a visit does is
`Does`, and what it has done after some of the callers `SoFar`: no service that is
placed is moved, none on the path is placed, and every placed service that is on no cycle
is right of its deepest caller (`Good`). That holds although a walk that meets a
cycle returns 0 for a service on the path and remembers what follows from it, because
the visit is `Sound`: the service visited is above every service on the path, so when one
of its callers is on the path, it is itself on a cycle (`AboveIs`), and nothing is
claimed of its column. Induction over the level and over the set of callers gives `VisitDoes`,
and the outer loop places every service (`DepthsAreGood`). The rest is the drawing: two
services of a column have different numbers of services above them (`Apart`), and
without cycles there is no empty column left of a service (`NoGap`), so it is
inside (`Inside`); with a cycle a column may be empty, and the drawing too narrow.

Only model-checked:

- every liveness property: fairness and ENABLED are out of reach;
- `ArrivesAsSent` and `UnsafeIsRefused`: `Protos` decodes messages of messages with a
  RECURSIVE operator;
- the runs that expect a violation.

## 5. Not modelled, and seen on the way

Not modelled:

- `detect/rules.py`: CPU baseline and order rate rules; `intelligence/analytics.py`,
  `forecast_metrics`: statistics of real numbers. Where their outcome steers
  control it is a choice.
- The hub: a set of sockets and tasks whose order asyncio decides; no doc promises
  one. Approvals and feedback: one conditional UPDATE each. The audit chain, the
  rate limiter and the redactor: libraries no deployed service uses.
- Read endpoints, topology, chat, host consoles, sign-in on the server, deployment
  files: they keep no state that the pipeline shares.
- Of the dashboard: the system monitor, the assistant, the telemetry of the sidebar,
  moving and sizing of windows: each shows its last answer.
- Of the demo: ads, recommendations, mail, accounting, load generator, product
  pictures, tracing; the codecs of the phone app, which its code never calls.
- In the browser: that react-query drops a query nobody has used for five minutes; the file
  window lets several files be read at once, the model one at a time (a bound: no property
  depends on it).
- Physical limits: disk space, Kafka retention, rebalancing between several
  instances of one group (each service runs once).

What the models let happen, no property forbids, and a maintainer may want to know:

- ingest: before the first commit of its group a crash makes it start at the end of
  the topic, so the order that waited for PostgreSQL is passed over
  (`kafka_tap.py:67`); the learning guide (line 367) says offsets "should not
  advance past unpersisted work".
- feature windows: the hour that `evaluate` selects cuts the oldest minute; a worker
  that comes back after an hour seals that minute from its second half
  (`intelligence/main.py:25`).
- faults: a stop turns its flag off after it has ended its window, so it may turn
  off what a start has just recorded (`orchestrator/main.py:250`); flagd-ui writes a
  copy read at its start over later changes (`storage.ex:69`).
- detect: one connection, never opened again (`store.py:47`); a full producer queue ends
  the evaluator (`store.py:82`); a restart forgets cooldowns. `State.add` compares with the last eight samples, so more
  than eight delivered again at once would count twice (`rules.py:61`).
- models: `evaluate_model` takes an interval that is not over: a fault that is complete
  only later is not excluded from its healthy minutes (`evaluation.py:68`).
- intelligence: a case keeps the last 100 entries of its timeline (`store.py:62`);
  `CasesAreEpisodes` is about the timeline as it was written. When two windows are sealed between two evaluations the earlier is
  never analysed; a message that makes the database raise for ever stops the worker.
- shop, hurried shoppers: a quantity is sent as a difference from a cart that may be
  stale, so two quick picks overshoot, to zero or below, which `uint32` makes a very
  long loop of `MultiplySlow`; two quick orders are charged twice; a switch of the
  currency shows the cart of that currency's last fetch until it is fetched again.
- shop, failing services: a fetch of the cart that is given up leaves the old cart on the page
  with nothing to tell, and the next quantity is sent as a difference from it
  (`Cart.provider.tsx:72`). The total has no shipping until `/api/shipping` answers, or
  while it fails (`CartItems.tsx:37`); the order form is there all the same, and the charge
  includes it.
- phone app: `utils/Request.ts:34` does not look at the status, unlike the frontend's
  from which it was copied, so a refused payment, whose answer is JSON, is shown as
  "Your order is Complete!"; an order that was charged and whose answer cannot be
  parsed as "Order failed". The settings (`settings.tsx:17`) say "Clear any cached
  queries", but the old shop's cart stays on screen until the new one's has come.
- currency: `getDouble` (`currency/src/server.cpp:182`) writes the nanos behind a point
  as digits, so zeros in front are lost: 80 000 000 nanos are read as 0.8, though
  `demo.proto:154` has "Number of nano (10^-9) units of the amount". The Red Flashlight
  (57.08 USD, `postgresql/init.sql:88`) is shown at 57.08, since the cart page does not
  convert the catalogue's own currency (`ProductCatalog.service.ts:10`), and charged
  57.80 by checkout, which does. `ChargedAsShown` names the difference
  (`misread`): it says that nothing else is charged than that, not that this is right.
- dashboard: a listing that is slow is shown under a later path; a refresh begun
  earlier may be shown later; on a cycle of calls `depthOf` remembers columns it cut
  short, so services on or below the cycle depend on the order in which Jaeger
  lists the edges, which the comment at `ServiceGraph.tsx:42` calls deterministic, and
  the drawing may be wider than its frame; a failed discovery that was begun earlier clears the
  later one's list, loading ends with the first of two that overlap, and a late answer to
  an approval takes the wizard back to the pipeline (`ApplicationOnboardingModal.tsx:124` and 141); the security window makes up alerts
  and audit entries when it is refused.

## 6. Plan

The order was: ingest (its guarantees carry all others), fault injection (the
ground truth), windows, the intelligence worker, detect, the model lifecycle, then
the messages, the shop and the dashboard. All of these stand, and of each the safety
properties are proved that the provers can reach, the money of an order and the walk of
the call graph among them. What could follow is breadth: the parts listed in section 5
whose state a later version of the code may share with the pipeline.
