-------------------------------- MODULE Ingest --------------------------------
(***************************************************************************)
(* The ingest process: the orders tap (kafka_tap.py), the Prometheus tap   *)
(* (prom_tap.py), the sink both share and the outbox publisher that runs   *)
(* on the main thread (sink.py, main.py), with the Kafka topics, the       *)
(* PostgreSQL connection and the container restarts around them.           *)
(*                                                                         *)
(* An outbox row is known by its number, the position created_at gives it. *)
(* Offsets count from 1; a committed offset c means 1..c were handled.     *)
(***************************************************************************)
EXTENDS Integers, Sequences, FiniteSets

CONSTANTS
    Limit,          \* rows one publish_pending call selects
    MaxOrders,      \* bound: messages on the orders topic
    MaxSamples,     \* bound: metric and health events
    MaxFaults       \* bound: crashes, stops, outages, failed commits and sends

ASSUME LimitAssumption == Limit \in Nat \ {0}
ASSUME BoundAssumption == MaxOrders \in Nat /\ MaxSamples \in Nat /\ MaxFaults \in Nat

VARIABLES
    orders,         \* the orders topic: what each message decodes to
    committed,      \* the consumer group's committed offset, or NoOffset
    tap,            \* where the orders tap is
    pos,            \* the offset it polled last
    skipped,        \* history: orders passed over by a reset to latest
    high,           \* the watermark its heartbeat has in hand, or NoOffset
    asked,          \* history: the end of the topic when the heartbeat asked for it
    samples,        \* metric and health events created so far
    dbUp,           \* is PostgreSQL running
    conn,           \* the sink's only connection
    events,         \* table events: the event ids
    outbox,         \* table intelligence_outbox: event ids in created_at order
    published,      \* the outbox rows with published_at set
    pub,            \* where the publisher is
    batch,          \* selected rows it has not finished with
    result,         \* the delivery callback of the row being sent
    inflight,       \* the producer's queue
    topic,          \* the events topic: row numbers, in log order
    stopping,       \* the stop event
    faults          \* faults so far

healthVars == <<high, asked>>
tapVars == <<committed, tap, pos, skipped, healthVars>>
dbVars == <<events, outbox, published>>
pubVars == <<pub, batch, result, inflight, topic>>
envVars == <<orders, dbUp, stopping, faults>>
vars == <<tapVars, samples, conn, dbVars, pubVars, envVars>>

NoOffset == -1

OrderEvent(o) == [kind |-> "order", n |-> o]
SampleEvent(n) == [kind |-> "sample", n |-> n]
HealthEvent(n) == [kind |-> "health", n |-> n]
EventId == [kind : {"order", "sample", "health"}, n : 1..(MaxOrders + MaxSamples)]

Decodes(o) == orders[o] = "order"
Persisted(o) == OrderEvent(o) \in events
Rows == DOMAIN outbox
Pending == Rows \ published
InOutbox(e) == \E i \in Rows : outbox[i] = e
OnTopic(i) == \E k \in DOMAIN topic : topic[k] = i
Running == pub # "down"

(***************************************************************************)
(* The connection.  A server restart leaves it "stale": it looks open, the *)
(* next statement raises, and only then does conn.closed become true.      *)
(***************************************************************************)

\* _reconnect, then a statement that succeeds
Usable == conn = "open" \/ (conn = "closed" /\ dbUp)

\* _reconnect or the statement raises
Unusable == conn = "stale" \/ (conn = "closed" /\ ~dbUp)

\* one more fault, within the bound
Fault == faults < MaxFaults /\ faults' = faults + 1

\* mutant: the outbox insert without its conflict clause
Insert_Always(e) ==
    /\ events' = events \cup {e}
    /\ outbox' = Append(outbox, e)
    /\ UNCHANGED published

\* both inserts of emit, each ON CONFLICT DO NOTHING
Insert(e) ==
    /\ events' = events \cup {e}
    /\ outbox' = IF InOutbox(e) THEN outbox ELSE Append(outbox, e)
    /\ UNCHANGED published

\* emit returns: the transaction committed
EmitReturns(e) ==
    /\ Usable
    /\ Insert(e)
    /\ conn' = "open"
    /\ UNCHANGED <<dbUp, faults>>

\* emit raises: the transaction did not happen, or it committed and the
\* server went away before saying so
EmitRaises(e) ==
    \/ /\ Unusable
       /\ conn' = "closed"
       /\ UNCHANGED <<dbVars, dbUp, faults>>
    \/ /\ conn = "open"
       /\ Insert(e)
       /\ conn' = "closed"
       /\ dbUp' = FALSE
       /\ Fault

-------------------------------------------------------------------------------

Init ==
    /\ orders = <<>>
    /\ committed = NoOffset
    /\ tap = "down" /\ pos = 0 /\ skipped = {}
    /\ high = NoOffset /\ asked = NoOffset
    /\ samples = 0
    /\ dbUp = TRUE /\ conn = "closed"
    /\ events = {} /\ outbox = <<>> /\ published = {}
    /\ pub = "down" /\ batch = {} /\ result = "none" /\ inflight = <<>>
    /\ topic = <<>>
    /\ stopping = FALSE
    /\ faults = 0

(***************************************************************************)
(* The environment.                                                        *)
(***************************************************************************)

\* checkout publishes an order, or something that does not parse as one
Produce(content) ==
    /\ Len(orders) < MaxOrders
    /\ orders' = Append(orders, content)
    /\ UNCHANGED <<tapVars, samples, conn, dbVars, pubVars, dbUp, stopping, faults>>

DbFails ==
    /\ dbUp
    /\ Fault
    /\ dbUp' = FALSE
    /\ conn' = IF conn = "open" THEN "stale" ELSE conn
    /\ UNCHANGED <<tapVars, samples, dbVars, pubVars, orders, stopping>>

DbRecovers ==
    /\ ~dbUp
    /\ dbUp' = TRUE
    /\ UNCHANGED <<tapVars, samples, conn, dbVars, pubVars, orders, stopping, faults>>

\* what is in memory is gone: the threads, the connection, the producer queue
ProcessEnds ==
    /\ tap' = "down" /\ pub' = "down"
    /\ high' = NoOffset /\ asked' = NoOffset
    /\ batch' = {} /\ result' = "none" /\ inflight' = <<>>
    /\ conn' = "closed"
    /\ stopping' = FALSE
    /\ UNCHANGED <<committed, pos, skipped, samples, dbVars, topic, orders, dbUp>>

Crash ==
    /\ Running
    /\ Fault
    /\ ProcessEnds

\* SIGTERM sets the stop event
Stop ==
    /\ Running /\ ~stopping
    /\ Fault
    /\ stopping' = TRUE
    /\ UNCHANGED <<tapVars, samples, conn, dbVars, pubVars, orders, dbUp>>

\* the container starts: Sink.__init__ connects and migrates, then both taps start
Start ==
    /\ ~Running
    /\ dbUp
    /\ conn' = "open"
    /\ pub' = "idle" /\ tap' = "joining"
    /\ high' = NoOffset /\ asked' = NoOffset
    /\ UNCHANGED <<committed, pos, skipped, samples, dbVars, envVars,
                   batch, result, inflight, topic>>

(***************************************************************************)
(* The orders tap.                                                         *)
(***************************************************************************)

\* The group assigns the partition.  auto.offset.reset is latest: without a
\* committed offset the consumer starts at the end of the topic.
Join ==
    /\ tap = "joining" /\ ~stopping
    /\ pos' = IF committed = NoOffset THEN Len(orders) ELSE committed
    /\ skipped' = IF committed = NoOffset
                  THEN {o \in DOMAIN orders : Decodes(o) /\ ~Persisted(o)}
                  ELSE skipped
    /\ tap' = "polling"
    /\ UNCHANGED <<committed, healthVars, samples, conn, dbVars, pubVars, envVars>>

\* the tap is not in the middle of a heartbeat
NoHeartbeat == high = NoOffset

Poll ==
    /\ tap = "polling" /\ ~stopping /\ NoHeartbeat
    /\ pos < Len(orders)
    /\ pos' = pos + 1
    /\ tap' = "polled"
    /\ UNCHANGED <<committed, skipped, healthVars, samples, conn, dbVars, pubVars, envVars>>

\* mutant: the watermark the client remembers from its last fetch
HealthAsk_Cached ==
    /\ tap \in {"polling", "polled"} /\ NoHeartbeat
    /\ high' \in pos..Len(orders) /\ asked' = Len(orders)
    /\ UNCHANGED <<committed, tap, pos, skipped, samples, conn, dbVars, pubVars, envVars>>

\* After a poll the heartbeat asks the broker where the topic ends; when the
\* request fails, that is logged and nothing has changed.
HealthAsk ==
    /\ tap \in {"polling", "polled"} /\ NoHeartbeat
    /\ high' = Len(orders) /\ asked' = Len(orders)
    /\ UNCHANGED <<committed, tap, pos, skipped, samples, conn, dbVars, pubVars, envVars>>

\* The position has reached that watermark: a health event is stored; a
\* failure is only logged.
Heartbeat ==
    /\ high # NoOffset /\ pos >= high
    /\ samples < MaxSamples
    /\ samples' = samples + 1
    /\ EmitReturns(HealthEvent(samples + 1)) \/ EmitRaises(HealthEvent(samples + 1))
    /\ high' = NoOffset /\ asked' = NoOffset
    /\ UNCHANGED <<committed, tap, pos, skipped, pubVars, orders, stopping>>

\* No event: the position is behind, position() raises, or it has none before
\* the first message of a session (or the bound on samples is reached).
NoHealth ==
    /\ high # NoOffset
    /\ high' = NoOffset /\ asked' = NoOffset
    /\ UNCHANGED <<committed, tap, pos, skipped, samples, conn, dbVars, pubVars, envVars>>

\* mutant: a failed emit is logged and the offset committed all the same
EmitOrder_CommitsAnyway ==
    /\ tap \in {"polled", "retrying"} /\ ~stopping /\ NoHeartbeat
    /\ Decodes(pos)
    /\ EmitReturns(OrderEvent(pos)) \/ EmitRaises(OrderEvent(pos))
    /\ tap' = "committing"
    /\ UNCHANGED <<committed, pos, skipped, healthVars, samples, pubVars, orders, stopping>>

\* mutant: a failed emit is not retried
EmitOrder_Once ==
    /\ tap \in {"polled", "retrying"} /\ ~stopping /\ NoHeartbeat
    /\ Decodes(pos)
    /\ \/ EmitReturns(OrderEvent(pos)) /\ tap' = "committing"
       \/ EmitRaises(OrderEvent(pos)) /\ tap' = "polling"
    /\ UNCHANGED <<committed, pos, skipped, healthVars, samples, pubVars, orders, stopping>>

\* One turn of the retry loop up to the commit.
EmitOrder ==
    /\ tap \in {"polled", "retrying"} /\ ~stopping /\ NoHeartbeat
    /\ Decodes(pos)
    /\ \/ EmitReturns(OrderEvent(pos)) /\ tap' = "committing"
       \/ EmitRaises(OrderEvent(pos)) /\ tap' = "retrying"
    /\ UNCHANGED <<committed, pos, skipped, healthVars, samples, pubVars, orders, stopping>>

\* The commit succeeds and the loop ends; or it raises, with or without
\* having reached the broker, and the loop starts over from emit.
CommitOrder ==
    /\ tap = "committing"
    /\ \/ committed' = pos /\ tap' = "polling" /\ UNCHANGED faults
       \/ committed' \in {committed, pos} /\ tap' = "retrying" /\ Fault
    /\ UNCHANGED <<pos, skipped, healthVars, samples, conn, dbVars, pubVars, orders, dbUp,
                   stopping>>

\* An undecodable message is committed and skipped.  This commit is outside
\* every try but the one that closes the consumer: when it raises, the
\* thread ends and the process goes on without it.
SkipUndecodable ==
    /\ tap = "polled" /\ NoHeartbeat
    /\ ~Decodes(pos)
    /\ \/ committed' = pos /\ tap' = "polling" /\ UNCHANGED faults
       \/ committed' \in {committed, pos} /\ tap' = "dead" /\ Fault
    /\ UNCHANGED <<pos, skipped, healthVars, samples, conn, dbVars, pubVars, orders, dbUp,
                   stopping>>

\* Both loops test the stop event; a held order is left uncommitted.
TapStops ==
    /\ stopping /\ NoHeartbeat
    /\ tap \in {"joining", "polling", "polled", "retrying"}
    /\ tap = "polled" => Decodes(pos)
    /\ tap' = "exited"
    /\ UNCHANGED <<committed, pos, skipped, healthVars, samples, conn, dbVars, pubVars,
                   envVars>>

(***************************************************************************)
(* The Prometheus tap: a sample is emitted once, a failure is only logged. *)
(***************************************************************************)

EmitSample ==
    /\ Running
    /\ samples < MaxSamples
    /\ samples' = samples + 1
    /\ EmitReturns(SampleEvent(samples + 1)) \/ EmitRaises(SampleEvent(samples + 1))
    /\ UNCHANGED <<tapVars, pubVars, orders, stopping>>

(***************************************************************************)
(* The publisher: publish_pending on the main thread.                      *)
(***************************************************************************)

\* SELECT ... published_at IS NULL ORDER BY created_at LIMIT
Selected ==
    {i \in Pending : Cardinality({j \in Pending : j < i}) < Limit}

\* mutant: rows taken in no particular order
First_Any(i) == i \in batch

First(i) == i \in batch /\ \A j \in batch : i <= j

Select ==
    /\ pub = "idle" /\ ~stopping
    /\ \/ /\ Usable
          /\ batch' = Selected
          /\ pub' = IF Selected = {} THEN "idle" ELSE "sending"
          /\ conn' = "open"
       \/ /\ Unusable
          /\ conn' = "closed"
          /\ UNCHANGED <<pub, batch>>
    /\ UNCHANGED <<tapVars, samples, dbVars, result, inflight, topic, envVars>>

\* produce, outside the lock
Send ==
    /\ pub = "sending"
    /\ \E i \in batch : First(i) /\ inflight' = Append(inflight, i)
    /\ result' = "none"
    /\ pub' = "flushing"
    /\ UNCHANGED <<tapVars, samples, conn, dbVars, batch, topic, envVars>>

\* the callback of the row being sent runs when the last queued message is settled
Settle(outcome) ==
    result' = IF pub = "flushing" /\ result = "none" /\ Len(inflight) = 1
              THEN outcome ELSE result

\* the broker appends the oldest queued message and acknowledges it
BrokerAppends ==
    /\ inflight # <<>>
    /\ topic' = Append(topic, Head(inflight))
    /\ inflight' = Tail(inflight)
    /\ Settle("ok")
    /\ UNCHANGED <<tapVars, samples, conn, dbVars, pub, batch, envVars>>

\* message.timeout.ms: the producer gives the message up, appended or not
ProducerGivesUp ==
    /\ inflight # <<>>
    /\ Fault
    /\ topic' \in {topic, Append(topic, Head(inflight))}
    /\ inflight' = Tail(inflight)
    /\ Settle("error")
    /\ UNCHANGED <<tapVars, samples, conn, dbVars, pub, batch, orders, dbUp, stopping>>

\* mutant: no acknowledgement is taken for no error
FlushTimesOut_Ignored ==
    /\ pub = "flushing" /\ result = "none"
    /\ Fault
    /\ result' = "ok"
    /\ UNCHANGED <<tapVars, samples, conn, dbVars, pub, batch, inflight, topic,
                   orders, dbUp, stopping>>

\* flush(2) returns with the message still queued
FlushTimesOut ==
    /\ pub = "flushing" /\ result = "none"
    /\ Fault
    /\ result' = "error"
    /\ UNCHANGED <<tapVars, samples, conn, dbVars, pub, batch, inflight, topic,
                   orders, dbUp, stopping>>

\* the UPDATE does not reconnect; when it raises, the rest of the batch is dropped
BatchEnds == pub' = "idle" /\ batch' = {}

RecordDelivery ==
    /\ pub = "flushing" /\ result # "none"
    /\ \E i \in batch :
        /\ First(i)
        /\ \/ /\ conn = "open" /\ result = "ok"
              /\ published' = published \cup {i}
              /\ batch' = batch \ {i}
              /\ pub' = IF batch = {i} THEN "idle" ELSE "sending"
              /\ UNCHANGED <<conn, dbUp, faults>>
           \/ /\ conn = "open" /\ result = "error"
              /\ BatchEnds
              /\ UNCHANGED <<published, conn, dbUp, faults>>
           \/ /\ conn # "open"
              /\ BatchEnds
              /\ conn' = "closed"
              /\ UNCHANGED <<published, dbUp, faults>>
           \/ /\ conn = "open" /\ result = "ok"
              /\ published' = published \cup {i}
              /\ BatchEnds
              /\ conn' = "closed" /\ dbUp' = FALSE
              /\ Fault
    /\ result' = "none"
    /\ UNCHANGED <<tapVars, samples, events, outbox, inflight, topic, orders, stopping>>

\* main: the loop ends, the taps are joined for ten seconds at most, and the
\* sink is closed
Close ==
    /\ pub = "idle" /\ stopping
    /\ pub' = "closed"
    /\ conn' = "closed"
    /\ UNCHANGED <<tapVars, samples, dbVars, batch, result, inflight, topic, envVars>>

Exit ==
    /\ pub = "closed"
    /\ tap \in {"exited", "dead"}
    /\ ProcessEnds
    /\ UNCHANGED faults

-------------------------------------------------------------------------------

TapStep ==
    Join \/ Poll \/ EmitOrder \/ CommitOrder \/ SkipUndecodable \/ TapStops

HealthStep == Heartbeat \/ NoHealth

PublisherStep ==
    Select \/ Send \/ RecordDelivery \/ Close \/ Exit

Next ==
    \/ \E content \in {"order", "garbage"} : Produce(content)
    \/ DbFails \/ DbRecovers \/ Crash \/ Stop \/ Start
    \/ TapStep
    \/ HealthAsk \/ HealthStep \/ EmitSample
    \/ PublisherStep
    \/ BrokerAppends \/ ProducerGivesUp \/ FlushTimesOut

Spec == Init /\ [][Next]_vars

\* Each thread keeps running, the container is restarted, PostgreSQL comes
\* back and a reachable broker takes what is queued.  A heartbeat comes every
\* thirty seconds at most, so the tap's own steps come in between: strong
\* fairness.
Fairness ==
    /\ WF_vars(Start) /\ WF_vars(DbRecovers) /\ WF_vars(BrokerAppends)
    /\ SF_vars(TapStep) /\ WF_vars(HealthStep) /\ WF_vars(PublisherStep)

FairSpec == Spec /\ Fairness

-------------------------------------------------------------------------------

TypeOK ==
    /\ orders \in Seq({"order", "garbage"})
    /\ committed \in Nat \cup {NoOffset}
    /\ tap \in {"down", "joining", "polling", "polled", "retrying", "committing",
               "exited", "dead"}
    /\ pos \in Nat /\ skipped \subseteq Nat
    /\ high \in Nat \cup {NoOffset} /\ asked \in Nat \cup {NoOffset}
    /\ samples \in 0..MaxSamples
    /\ dbUp \in BOOLEAN /\ conn \in {"open", "stale", "closed"}
    /\ events \subseteq EventId /\ outbox \in Seq(EventId) /\ published \subseteq Nat
    /\ pub \in {"down", "idle", "sending", "flushing", "closed"}
    /\ batch \subseteq Nat /\ result \in {"none", "ok", "error"}
    /\ inflight \in Seq(Nat) /\ topic \in Seq(Nat)
    /\ stopping \in BOOLEAN /\ faults \in 0..MaxFaults

\* what becomes of an order: stored, or passed over before the first commit
Handled(o) == Decodes(o) => Persisted(o) \/ o \in skipped

\* Offsets are committed only over work that is done: whatever the crashes,
\* failed commits and lost database answers, every decodable order up to the
\* committed offset is in the events table, except those the group passed
\* over while it had no committed offset (kafka_tap.py, the retry loop).
CommittedPersisted ==
    \A o \in 1..committed : Handled(o)

\* An event and its delivery intent exist together or not at all, and once
\* each, however often emit is retried (sink.py, the transaction of emit).
EventsMatchOutbox ==
    /\ events = {outbox[i] : i \in Rows}
    /\ \A i, j \in Rows : outbox[i] = outbox[j] => i = j

\* A health event claims that the orders tap is caught up.  When one is stored,
\* every order that was on the topic when its heartbeat asked the broker is
\* stored already, except the one the same poll has just returned and those
\* passed over before the first commit.  (Orders may arrive between the
\* question and the store: of those it says nothing, kafka_tap.py:86-96.)
HealthIsTruthful ==
    [][\A n \in 1..MaxSamples :
         HealthEvent(n) \in events' \ events =>
            /\ asked # NoOffset
            /\ \A o \in 1..asked : Handled(o) \/ (o = pos /\ tap = "polled")]_vars

\* The sink implements a transactional outbox: rows stored once, delivered at
\* least once, first deliveries in the order of the rows, and a row marked
\* published only if it is on the topic (publish_pending).
Delivery ==
    INSTANCE EventDelivery WITH
        Event <- EventId, stored <- outbox, delivered <- topic, acknowledged <- published

ImplementsDelivery == Delivery!Spec

\* Every stored event reaches the topic and is marked as published, once
\* crashes, outages and timeouts end: no failure path of publish_pending
\* leaves a row that is never selected again.
EveryRowDelivered ==
    \A i \in 1..(MaxOrders + MaxSamples) :
        i \in Rows ~> OnTopic(i) /\ i \in published

\* Once the group has committed an offset, every later decodable order is
\* eventually persisted, provided the tap thread is not left dead by a failed
\* commit of an undecodable message.
EveryOrderPersisted ==
    <>[](tap # "dead") =>
        \A o \in 1..MaxOrders :
            (committed # NoOffset /\ o > committed /\ o \in DOMAIN orders /\ Decodes(o))
                ~> Persisted(o)
===============================================================================
