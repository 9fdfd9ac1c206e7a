---------------------------- MODULE Ingest_proofs ----------------------------
(***************************************************************************)
(* Proofs about Ingest, for any LIMIT and any bounds.  The invariants of   *)
(* the tap and of the publisher are proved apart: they share the tables,   *)
(* which only ever grow.                                                   *)
(***************************************************************************)
EXTENDS Ingest, FiniteSetTheorems, TLAPS

\* Where the tap stands on the topic, and what is done of what lies behind it.
TapInv ==
    /\ Len(orders) <= MaxOrders
    /\ committed <= Len(orders)
    /\ pos <= Len(orders)
    /\ tap \in {"polled", "retrying", "committing"} => pos >= 1
    /\ tap \in {"retrying", "committing"} => Decodes(pos)
    /\ tap = "committing" => Persisted(pos)
    /\ tap = "polling" => \A o \in 1..pos : Handled(o)
    /\ tap \in {"polled", "retrying", "committing"} => \A o \in 1..(pos - 1) : Handled(o)
    /\ CommittedPersisted
    /\ high # NoOffset => tap \in {"polling", "polled"} /\ asked = high /\ high <= Len(orders)

\* How the publisher's batch, the producer's queue, the topic and the table agree.
PublisherInv ==
    /\ published \subseteq Rows
    /\ \A i \in published : OnTopic(i)
    /\ \A k \in DOMAIN topic : topic[k] \in Rows /\ \A j \in 1..(topic[k] - 1) : j \in published
    /\ \A k \in DOMAIN inflight :
            inflight[k] \in Rows /\ \A j \in 1..(inflight[k] - 1) : j \in published
    /\ batch \subseteq Pending
    /\ \A i \in batch : \A j \in Rows : j < i => j \in published \/ j \in batch
    /\ pub = "sending" => batch # {}
    /\ (pub = "flushing" /\ result = "none") =>
            inflight # <<>> /\ First(inflight[Len(inflight)])
    /\ (pub = "flushing" /\ result = "ok") => \A i \in batch : First(i) => OnTopic(i)

-------------------------------------------------------------------------------

\* The bounds are natural numbers.
LEMMA Bounds == MaxOrders \in Nat /\ MaxSamples \in Nat /\ MaxFaults \in Nat
  BY BoundAssumption

\* Event identities of the model are in EventId, and the three kinds differ.
LEMMA EventIds ==
    /\ \A o \in 1..MaxOrders : OrderEvent(o) \in EventId
    /\ \A n \in 1..MaxSamples : SampleEvent(n) \in EventId /\ HealthEvent(n) \in EventId
    /\ \A n, o : HealthEvent(n) # OrderEvent(o) /\ HealthEvent(n) # SampleEvent(o)
  BY Bounds DEF OrderEvent, SampleEvent, HealthEvent, EventId

\* What emit does to the tables when it is called with an event of EventId:
\* they keep their types and lose nothing.
LEMMA InsertTyped ==
    ASSUME TypeOK, NEW e \in EventId, Insert(e)
    PROVE  /\ events' \subseteq EventId /\ outbox' \in Seq(EventId) /\ published' = published
           /\ events' = events \cup {e}
           /\ Len(outbox') >= Len(outbox)
           /\ \A i \in 1..Len(outbox) : outbox'[i] = outbox[i]
  BY DEF TypeOK, Insert

\* The fault counter stays within its bound.
LEMMA FaultTyped == ASSUME TypeOK, Fault PROVE faults' \in 0..MaxFaults
  BY Bounds DEF TypeOK, Fault

\* Either way emit ends, the connection and the counters keep their types.
LEMMA EmitTyped ==
    ASSUME TypeOK, NEW e \in EventId, EmitReturns(e) \/ EmitRaises(e)
    PROVE  /\ conn' \in {"open", "stale", "closed"} /\ dbUp' \in BOOLEAN
           /\ faults' \in 0..MaxFaults
           /\ Insert(e) \/ UNCHANGED dbVars
  <1>1. conn' \in {"open", "stale", "closed"}
    BY DEF TypeOK, EmitReturns, EmitRaises
  <1>2. dbUp' \in BOOLEAN
    BY DEF TypeOK, EmitReturns, EmitRaises
  <1>3. faults' \in 0..MaxFaults
    BY FaultTyped DEF TypeOK, EmitReturns, EmitRaises
  <1>4. Insert(e) \/ UNCHANGED dbVars
    BY DEF EmitReturns, EmitRaises
  <1> QED BY <1>1, <1>2, <1>3, <1>4

\* The tables keep their types in a step that ends one emit.
LEMMA TablesTyped ==
    ASSUME TypeOK, NEW e \in EventId, EmitReturns(e) \/ EmitRaises(e)
    PROVE  /\ events' \subseteq EventId /\ outbox' \in Seq(EventId)
           /\ published' \subseteq Nat
  <1>1. Insert(e) \/ UNCHANGED dbVars
    BY EmitTyped
  <1>2. CASE Insert(e)
    BY <1>2, InsertTyped DEF TypeOK
  <1>3. CASE UNCHANGED dbVars
    BY <1>3 DEF TypeOK, dbVars
  <1> QED BY <1>1, <1>2, <1>3

\* Every step keeps the types, given where the tap can stand.
LEMMA TypeStep == TypeOK /\ TapInv /\ [Next]_vars => TypeOK'
  <1> SUFFICES ASSUME TypeOK, TapInv, [Next]_vars PROVE TypeOK'
    OBVIOUS
  <1> USE Bounds DEF envVars, tapVars, healthVars, dbVars, pubVars
  <1>1. ASSUME NEW c \in {"order", "garbage"}, Produce(c) PROVE TypeOK'
    BY <1>1 DEF TypeOK, Produce
  <1>2. CASE DbFails
    <2>1. dbUp' \in BOOLEAN
      BY <1>2 DEF DbFails
    <2>2. faults' \in 0..MaxFaults
      BY <1>2, FaultTyped DEF DbFails
    <2>3. conn' \in {"open", "stale", "closed"}
      BY <1>2 DEF TypeOK, DbFails
    <2> QED
      BY <1>2, <2>1, <2>2, <2>3 DEF TypeOK, DbFails
  <1>3. CASE DbRecovers
    BY <1>3 DEF TypeOK, DbRecovers
  <1>4. CASE Crash
    <2>1. stopping' \in BOOLEAN
      BY <1>4 DEF Crash, ProcessEnds
    <2>2. faults' \in 0..MaxFaults
      BY <1>4, FaultTyped DEF TypeOK, Crash
    <2>3. inflight' \in Seq(Nat)
      BY <1>4 DEF Crash, ProcessEnds
    <2> QED
      BY <1>4, <2>1, <2>2, <2>3 DEF TypeOK, Crash, ProcessEnds
  <1>5. CASE Stop
    BY <1>5 DEF TypeOK, Stop, Fault
  <1>6. CASE Start
    BY <1>6 DEF TypeOK, Start
  <1>7. CASE Join
    <2>1. pos' \in Nat
      BY <1>7 DEF TypeOK, Join, NoOffset
    <2>2. skipped' \subseteq Nat
      <3>1. DOMAIN orders \subseteq Nat
        BY DEF TypeOK
      <3>2. \/ skipped' = skipped
            \/ skipped' = {o \in DOMAIN orders : Decodes(o) /\ ~Persisted(o)}
        BY <1>7 DEF Join
      <3> QED
        BY <3>1, <3>2, Zenon DEF TypeOK
    <2>3. /\ UNCHANGED <<committed, healthVars, samples, conn, dbVars, pubVars, envVars>>
          /\ tap' = "polling"
      BY <1>7 DEF Join
    <2> QED
      BY <2>1, <2>2, <2>3 DEF TypeOK
  <1>8. CASE Poll
    BY <1>8 DEF TypeOK, Poll
  <1>9. CASE EmitOrder
    <2>1. OrderEvent(pos) \in EventId
      BY <1>9, EventIds DEF TypeOK, TapInv, EmitOrder
    <2>2. EmitReturns(OrderEvent(pos)) \/ EmitRaises(OrderEvent(pos))
      BY <1>9 DEF EmitOrder
    <2> QED
      BY <1>9, <2>1, <2>2, EmitTyped, TablesTyped DEF TypeOK, EmitOrder
  <1>10. CASE CommitOrder
    BY <1>10 DEF TypeOK, CommitOrder, Fault
  <1>11. CASE SkipUndecodable
    BY <1>11 DEF TypeOK, SkipUndecodable, Fault
  <1>12. CASE TapStops
    BY <1>12 DEF TypeOK, TapStops
  <1>13. CASE Heartbeat
    <2>1. HealthEvent(samples + 1) \in EventId /\ samples + 1 \in 0..MaxSamples
      BY <1>13, EventIds DEF TypeOK, Heartbeat
    <2>2. EmitReturns(HealthEvent(samples + 1)) \/ EmitRaises(HealthEvent(samples + 1))
      BY <1>13 DEF Heartbeat
    <2>3. conn' \in {"open", "stale", "closed"} /\ dbUp' \in BOOLEAN /\ faults' \in 0..MaxFaults
      BY <2>1, <2>2, EmitTyped
    <2>4. events' \subseteq EventId /\ outbox' \in Seq(EventId) /\ published' \subseteq Nat
      BY <2>1, <2>2, TablesTyped
    <2>5. /\ samples' = samples + 1 /\ high' = NoOffset /\ asked' = NoOffset
          /\ UNCHANGED <<committed, tap, pos, skipped, pubVars, orders, stopping>>
      BY <1>13 DEF Heartbeat
    <2> QED
      BY <2>1, <2>3, <2>4, <2>5 DEF TypeOK
  <1>14. CASE EmitSample
    <2>1. SampleEvent(samples + 1) \in EventId /\ samples + 1 \in 0..MaxSamples
      BY <1>14, EventIds DEF TypeOK, EmitSample
    <2>2. EmitReturns(SampleEvent(samples + 1)) \/ EmitRaises(SampleEvent(samples + 1))
      BY <1>14 DEF EmitSample
    <2>3. conn' \in {"open", "stale", "closed"} /\ dbUp' \in BOOLEAN /\ faults' \in 0..MaxFaults
      BY <2>1, <2>2, EmitTyped
    <2>4. events' \subseteq EventId /\ outbox' \in Seq(EventId) /\ published' \subseteq Nat
      BY <2>1, <2>2, TablesTyped
    <2>5. samples' = samples + 1 /\ UNCHANGED <<tapVars, pubVars, orders, stopping>>
      BY <1>14 DEF EmitSample
    <2> QED
      BY <2>1, <2>3, <2>4, <2>5 DEF TypeOK
  <1>15. CASE Select
    <2>1. Selected \subseteq Nat
      BY DEF TypeOK, Selected, Pending, Rows
    <2> QED
      BY <1>15, <2>1 DEF TypeOK, Select
  <1>16. CASE Send
    BY <1>16 DEF TypeOK, Send
  <1>17. CASE RecordDelivery
    <2>1. dbUp' \in BOOLEAN
      BY <1>17 DEF TypeOK, RecordDelivery
    <2>2. faults' \in 0..MaxFaults
      BY <1>17, FaultTyped DEF TypeOK, RecordDelivery
    <2>3. published' \subseteq Nat /\ batch' \subseteq Nat
      BY <1>17 DEF TypeOK, RecordDelivery, BatchEnds, First
    <2>4. /\ conn' \in {"open", "stale", "closed"}
          /\ pub' \in {"down", "idle", "sending", "flushing", "closed"}
      BY <1>17 DEF TypeOK, RecordDelivery, BatchEnds
    <2>5. /\ result' = "none"
          /\ UNCHANGED <<tapVars, samples, events, outbox, inflight, topic, orders, stopping>>
      BY <1>17 DEF RecordDelivery
    <2> QED
      BY <2>1, <2>2, <2>3, <2>4, <2>5 DEF TypeOK
  <1>18. CASE Close
    BY <1>18 DEF TypeOK, Close
  <1>19. CASE Exit
    <2>1. stopping' \in BOOLEAN
      BY <1>19 DEF Exit, ProcessEnds
    <2>2. faults' \in 0..MaxFaults
      BY <1>19, FaultTyped DEF TypeOK, Exit
    <2>3. inflight' \in Seq(Nat)
      BY <1>19 DEF Exit, ProcessEnds
    <2> QED
      BY <1>19, <2>1, <2>2, <2>3 DEF TypeOK, Exit, ProcessEnds
  <1>20. CASE BrokerAppends
    <2>1. inflight # <<>> /\ inflight' = Tail(inflight) /\ topic' = Append(topic, Head(inflight))
      BY <1>20 DEF BrokerAppends
    <2>2. inflight' \in Seq(Nat) /\ topic' \in Seq(Nat)
      BY <2>1 DEF TypeOK
    <2>3. result' \in {"none", "ok", "error"}
      BY <1>20 DEF TypeOK, BrokerAppends, Settle
    <2>4. UNCHANGED <<tapVars, samples, conn, dbVars, pub, batch, envVars>>
      BY <1>20 DEF BrokerAppends
    <2> QED
      BY <2>2, <2>3, <2>4 DEF TypeOK
  <1>21. CASE ProducerGivesUp
    <2>1. faults' \in 0..MaxFaults
      BY <1>21, FaultTyped DEF ProducerGivesUp
    <2>2. topic' \in Seq(Nat) /\ inflight' \in Seq(Nat)
      <3>1. inflight # <<>> /\ inflight' = Tail(inflight)
            /\ (topic' = topic \/ topic' = Append(topic, Head(inflight)))
        BY <1>21 DEF ProducerGivesUp
      <3>2. Head(inflight) \in Nat
        BY <3>1 DEF TypeOK
      <3>3. topic \in Seq(Nat) /\ Append(topic, Head(inflight)) \in Seq(Nat)
        BY <3>2 DEF TypeOK
      <3>4. inflight \in Seq(Nat) /\ Tail(inflight) \in Seq(Nat)
        BY <3>1 DEF TypeOK
      <3> QED
        BY <3>1, <3>3, <3>4
    <2>3. result' \in {"none", "ok", "error"}
      BY <1>21 DEF TypeOK, ProducerGivesUp, Settle
    <2> QED
      BY <1>21, <2>1, <2>2, <2>3 DEF TypeOK, ProducerGivesUp
  <1>22. CASE FlushTimesOut
    BY <1>22 DEF TypeOK, FlushTimesOut, Fault
  <1>23. CASE UNCHANGED vars
    BY <1>23 DEF TypeOK, vars
  <1>24. CASE HealthAsk \/ NoHealth
    <2>1. Len(orders) \in Nat
      BY DEF TypeOK
    <2>2. high' \in Nat \cup {NoOffset} /\ asked' \in Nat \cup {NoOffset}
      BY <1>24, <2>1 DEF HealthAsk, NoHealth
    <2>3. UNCHANGED <<committed, tap, pos, skipped, samples, conn, dbVars, pubVars, envVars>>
      BY <1>24 DEF HealthAsk, NoHealth
    <2> QED
      BY <2>2, <2>3 DEF TypeOK
  <1> QED
    BY <1>1, <1>2, <1>3, <1>4, <1>5, <1>6, <1>7, <1>8, <1>9, <1>10, <1>11, <1>12, <1>13,
       <1>14, <1>15, <1>16, <1>17, <1>18, <1>19, <1>20, <1>21, <1>22, <1>23,
       <1>24 DEF Next, TapStep, HealthStep, PublisherStep

-------------------------------------------------------------------------------

\* Nothing that was handled becomes unhandled when the tables, the topic and
\* the history only grow.
LEMMA HandledStays ==
    ASSUME TypeOK, events \subseteq events', skipped' = skipped,
           \/ orders' = orders
           \/ \E c \in {"order", "garbage"} : orders' = Append(orders, c),
           NEW o \in 1..Len(orders)
    PROVE  /\ Decodes(o)' <=> Decodes(o)
           /\ Persisted(o) => Persisted(o)'
           /\ Handled(o) => Handled(o)'
  <1>1. orders'[o] = orders[o]
    <2>1. CASE orders' = orders
      BY <2>1
    <2>2. ASSUME NEW c \in {"order", "garbage"}, orders' = Append(orders, c)
          PROVE  orders'[o] = orders[o]
      BY <2>2 DEF TypeOK
    <2> QED BY <2>1, <2>2
  <1> QED
    BY <1>1 DEF Decodes, Persisted, Handled, OrderEvent

\* Steps of others leave the tap where it is and add to the events table at most.
LEMMA TapFrame ==
    ASSUME TypeOK, TapInv, UNCHANGED <<tapVars, orders>>, events \subseteq events'
    PROVE  TapInv'
  <1>1. \A o \in 1..Len(orders) :
            (Decodes(o)' <=> Decodes(o)) /\ (Persisted(o) => Persisted(o)')
            /\ (Handled(o) => Handled(o)')
    BY HandledStays DEF tapVars
  <1>2. UNCHANGED <<committed, tap, pos, high, asked, orders>>
    BY DEF tapVars, healthVars
  <1>3. CommittedPersisted'
    BY <1>1, <1>2 DEF TypeOK, TapInv, CommittedPersisted, NoOffset
  <1> QED
    BY <1>1, <1>2, <1>3, Bounds DEF TypeOK, TapInv, NoOffset

\* Emit never takes an event away.
LEMMA EmitGrows ==
    ASSUME NEW e, EmitReturns(e) \/ EmitRaises(e)
    PROVE  events \subseteq events'
  BY DEF EmitReturns, EmitRaises, Insert, dbVars

\* The tap's invariant is preserved by every step.
LEMMA TapStepInv == TypeOK /\ TapInv /\ [Next]_vars => TapInv'
  <1> SUFFICES ASSUME TypeOK, TapInv, [Next]_vars PROVE TapInv'
    OBVIOUS
  <1> USE Bounds DEF NoOffset
  <1>1. ASSUME NEW c \in {"order", "garbage"}, Produce(c) PROVE TapInv'
    <2>1. orders' = Append(orders, c) /\ Len(orders') <= MaxOrders /\ Len(orders') >= Len(orders)
          /\ UNCHANGED <<committed, tap, pos, skipped, high, asked, events>>
      BY <1>1 DEF Produce, tapVars, healthVars, dbVars, TypeOK
    <2>2. \A o \in 1..Len(orders) :
            (Decodes(o)' <=> Decodes(o)) /\ (Persisted(o) => Persisted(o)')
            /\ (Handled(o) => Handled(o)')
      BY <2>1, HandledStays
    <2> QED
      BY <2>1, <2>2 DEF TypeOK, TapInv, CommittedPersisted
  <1>2. CASE Crash \/ Exit \/ Start \/ TapStops
    <2>1. /\ tap' \in {"down", "joining", "exited"}
          /\ UNCHANGED <<committed, pos, skipped, orders, events>>
      BY <1>2 DEF Crash, Exit, Start, TapStops, ProcessEnds, envVars, dbVars
    <2>0. high' = NoOffset
      BY <1>2 DEF Crash, Exit, Start, TapStops, NoHeartbeat, ProcessEnds, healthVars
    <2>2. \A o \in 1..Len(orders) : Handled(o) => Handled(o)'
      BY <2>1, HandledStays
    <2> QED
      BY <2>0, <2>1, <2>2 DEF TypeOK, TapInv, CommittedPersisted
  <1>3. CASE Join
    <2>1. tap' = "polling" /\ high' = NoOffset /\ UNCHANGED <<committed, orders, events>>
      BY <1>3 DEF Join, envVars, dbVars, healthVars, TapInv
    <2>2. CASE committed = NoOffset
      <3>1. pos' = Len(orders) /\ skipped' = {o \in DOMAIN orders : Decodes(o) /\ ~Persisted(o)}
        BY <1>3, <2>2 DEF Join
      <3>2. \A o \in 1..Len(orders) : Handled(o)'
        BY <2>1, <3>1 DEF TypeOK, Handled, Decodes, Persisted, OrderEvent
      <3> QED
        BY <2>1, <2>2, <3>1, <3>2 DEF TypeOK, TapInv, CommittedPersisted
    <2>3. CASE committed # NoOffset
      <3>1. pos' = committed /\ skipped' = skipped
        BY <1>3, <2>3 DEF Join
      <3>2. \A o \in 1..Len(orders) : Handled(o) => Handled(o)'
        BY <2>1, <3>1, HandledStays
      <3> QED
        BY <2>1, <2>3, <3>1, <3>2 DEF TypeOK, TapInv, CommittedPersisted
    <2> QED
      BY <2>2, <2>3
  <1>4. CASE Poll
    <2>1. /\ tap = "polling" /\ tap' = "polled" /\ pos' = pos + 1 /\ pos < Len(orders)
          /\ high' = NoOffset /\ UNCHANGED <<committed, skipped, orders, events>>
      BY <1>4 DEF Poll, NoHeartbeat, healthVars, envVars, dbVars
    <2>2. \A o \in 1..Len(orders) : Handled(o) => Handled(o)'
      BY <2>1, HandledStays
    <2> QED
      BY <2>1, <2>2 DEF TypeOK, TapInv, CommittedPersisted
  <1>5. CASE EmitOrder
    <2>1. /\ tap \in {"polled", "retrying"} /\ Decodes(pos)
          /\ tap' = "committing" \/ tap' = "retrying"
          /\ tap' = "committing" => EmitReturns(OrderEvent(pos))
          /\ EmitReturns(OrderEvent(pos)) \/ EmitRaises(OrderEvent(pos))
          /\ high' = NoOffset /\ UNCHANGED <<committed, pos, skipped, orders>>
      BY <1>5 DEF EmitOrder, NoHeartbeat, healthVars
    <2>2. events \subseteq events'
      BY <2>1, EmitGrows
    <2>3. \A o \in 1..Len(orders) : (Decodes(o)' <=> Decodes(o)) /\ (Handled(o) => Handled(o)')
      BY <2>1, <2>2, HandledStays
    <2>4. tap' = "committing" => Persisted(pos)'
      BY <2>1 DEF EmitReturns, Insert, Persisted, OrderEvent
    <2> QED
      BY <2>1, <2>3, <2>4 DEF TypeOK, TapInv, CommittedPersisted
  <1>6. CASE CommitOrder
    <2>1. /\ tap = "committing" /\ tap' \in {"polling", "retrying"}
          /\ committed' = pos \/ committed' = committed
          /\ high' = NoOffset /\ UNCHANGED <<pos, skipped, orders, events>>
      BY <1>6 DEF CommitOrder, healthVars, dbVars, TapInv
    <2>2. \A o \in 1..Len(orders) : (Decodes(o)' <=> Decodes(o)) /\ (Handled(o) => Handled(o)')
      BY <2>1, HandledStays
    <2>3. \A o \in 1..pos : Handled(o)
      BY <2>1 DEF TypeOK, TapInv, Handled
    <2> QED
      BY <2>1, <2>2, <2>3 DEF TypeOK, TapInv, CommittedPersisted
  <1>7. CASE SkipUndecodable
    <2>1. /\ tap = "polled" /\ tap' \in {"polling", "dead"}
          /\ committed' = pos \/ committed' = committed
          /\ ~Decodes(pos)
          /\ high' = NoOffset /\ UNCHANGED <<pos, skipped, orders, events>>
      BY <1>7 DEF SkipUndecodable, NoHeartbeat, healthVars, dbVars
    <2>2. \A o \in 1..Len(orders) : Handled(o) => Handled(o)'
      BY <2>1, HandledStays
    <2>3. \A o \in 1..pos : Handled(o)
      BY <2>1 DEF TypeOK, TapInv, Handled
    <2> QED
      BY <2>1, <2>2, <2>3 DEF TypeOK, TapInv, CommittedPersisted
  <1>8. CASE EmitSample
    <2>1. UNCHANGED <<tapVars, orders>>
      BY <1>8 DEF EmitSample
    <2>2. events \subseteq events'
      BY <1>8, EmitGrows DEF EmitSample
    <2> QED
      BY <2>1, <2>2, TapFrame
  <1>10. CASE HealthAsk \/ HealthStep
    <2>1. /\ UNCHANGED <<committed, tap, pos, skipped, orders>>
          /\ \/ high' = NoOffset
             \/ high' = Len(orders) /\ asked' = Len(orders) /\ tap \in {"polling", "polled"}
      BY <1>10 DEF HealthAsk, HealthStep, Heartbeat, NoHealth, envVars
    <2>2. events \subseteq events'
      BY <1>10, EmitGrows DEF HealthAsk, HealthStep, Heartbeat, NoHealth, dbVars
    <2>3. \A o \in 1..Len(orders) :
            /\ Decodes(o)' <=> Decodes(o)
            /\ Persisted(o) => Persisted(o)'
            /\ Handled(o) => Handled(o)'
      BY <2>1, <2>2, HandledStays
    <2> QED
      BY <2>1, <2>3 DEF TypeOK, TapInv, CommittedPersisted
  <1>9. CASE \/ DbFails \/ DbRecovers \/ Stop \/ Select \/ Send \/ RecordDelivery \/ Close
             \/ BrokerAppends \/ ProducerGivesUp \/ FlushTimesOut \/ UNCHANGED vars
    <2>1. UNCHANGED <<tapVars, orders, events>>
      BY <1>9 DEF DbFails, DbRecovers, Stop, Select, Send, RecordDelivery, Close,
                  BrokerAppends, ProducerGivesUp, FlushTimesOut, vars, envVars, dbVars
    <2> QED
      BY <2>1, TapFrame
  <1> QED
    BY <1>1, <1>2, <1>3, <1>4, <1>5, <1>6, <1>7, <1>8, <1>9, <1>10
       DEF Next, TapStep, PublisherStep

-------------------------------------------------------------------------------

\* The selected rows are pending, and no pending row ahead of one is left out.
LEMMA SelectedIsPrefix ==
    ASSUME TypeOK
    PROVE  /\ Selected \subseteq Pending
           /\ \A i \in Selected : \A j \in Pending : j < i => j \in Selected
  <1>1. Selected \subseteq Pending
    BY DEF Selected
  <1>2. ASSUME NEW i \in Selected, NEW j \in Pending, j < i PROVE j \in Selected
    <2> DEFINE Ahead(k) == {x \in Pending : x < k}
    <2>1. IsFiniteSet(1..Len(outbox))
      BY FS_Interval DEF TypeOK
    <2>2. Pending \subseteq 1..Len(outbox)
      BY DEF Pending, Rows, TypeOK
    <2>3. IsFiniteSet(Ahead(i)) /\ IsFiniteSet(Ahead(j))
      <3>1. Ahead(i) \subseteq 1..Len(outbox) /\ Ahead(j) \subseteq 1..Len(outbox)
        BY <2>2
      <3> QED BY <2>1, <3>1, FS_Subset
    <2>4. Ahead(j) \subseteq Ahead(i)
      <3>1. i \in Nat /\ j \in Nat /\ \A x \in Pending : x \in Nat
        BY <1>1, <2>2 DEF TypeOK
      <3> SUFFICES ASSUME NEW x \in Ahead(j) PROVE x \in Ahead(i)
        OBVIOUS
      <3>2. x \in Pending /\ x \in Nat /\ x < j
        BY <3>1
      <3>3. x < i
        BY <1>2, <3>1, <3>2
      <3> QED BY <3>2, <3>3
    <2>5. Cardinality(Ahead(j)) <= Cardinality(Ahead(i))
      BY <2>3, <2>4, FS_Subset
    <2>6. Cardinality(Ahead(i)) \in Nat /\ Cardinality(Ahead(j)) \in Nat
      BY <2>3, FS_CardinalityType
    <2>7. Cardinality(Ahead(i)) < Limit
      BY <1>2 DEF Selected
    <2>8. Cardinality(Ahead(j)) < Limit
      BY <2>5, <2>6, <2>7, LimitAssumption
    <2> QED BY <2>8 DEF Selected
  <1> QED BY <1>1, <1>2

\* Every row that may be sent next has only published rows ahead of it.
LEMMA FirstIsNext ==
    ASSUME TypeOK, PublisherInv, NEW i, First(i)
    PROVE  i \in Rows /\ i \in Nat /\ \A j \in 1..(i - 1) : j \in published
  <1>1. Rows = 1..Len(outbox) /\ Len(outbox) \in Nat
    BY DEF TypeOK, Rows
  <1>2. i \in batch /\ i \in Rows /\ i \in 1..Len(outbox)
    BY <1>1 DEF PublisherInv, First, Pending
  <1>3. ASSUME NEW j \in 1..(i - 1) PROVE j \in published
    <2>1. j \in Rows /\ j < i /\ ~(i <= j)
      BY <1>1, <1>2
    <2>2. j \notin batch
      BY <2>1 DEF First
    <2> QED BY <1>2, <2>1, <2>2 DEF PublisherInv
  <1> QED BY <1>2, <1>3

\* Steps of others leave the publisher where it is; the outbox may grow.
LEMMA PublisherFrame ==
    ASSUME TypeOK, PublisherInv, UNCHANGED <<pubVars, published>>,
           outbox' \in Seq(EventId), Len(outbox') >= Len(outbox)
    PROVE  PublisherInv'
  <1>1. Rows = 1..Len(outbox) /\ Rows' = 1..Len(outbox')
    BY DEF TypeOK, Rows
  <1>2. Len(outbox) \in Nat /\ Len(outbox') \in Nat
    BY DEF TypeOK
  <1>3. Rows \subseteq Rows' /\ \A j \in Rows' : \A i \in Rows : j < i => j \in Rows
    BY <1>1, <1>2
  <1>4. UNCHANGED <<pub, batch, result, inflight, topic, published>>
    BY DEF pubVars
  <1>5. batch \subseteq Rows
    BY DEF PublisherInv, Pending
  <1> QED
    BY <1>3, <1>4, <1>5 DEF PublisherInv, Pending, OnTopic, First

\* Emit leaves the publisher where it is.
LEMMA EmitFrame ==
    ASSUME TypeOK, PublisherInv, NEW e \in EventId, EmitReturns(e) \/ EmitRaises(e),
           UNCHANGED pubVars
    PROVE  PublisherInv'
  <1>1. Insert(e) \/ UNCHANGED dbVars
    BY EmitTyped
  <1>2. CASE Insert(e)
    BY <1>2, InsertTyped, PublisherFrame
  <1>3. CASE UNCHANGED dbVars
    BY <1>3, PublisherFrame DEF TypeOK, dbVars
  <1> QED BY <1>1, <1>2, <1>3

\* The producer's queue loses its head, which may reach the topic.
LEMMA QueueStep ==
    ASSUME TypeOK, PublisherInv, inflight # <<>>, inflight' = Tail(inflight),
           UNCHANGED <<outbox, published, pub, batch>>,
           NEW outcome \in {"ok", "error"}, Settle(outcome),
           \/ topic' = Append(topic, Head(inflight))
           \/ topic' = topic /\ outcome = "error"
    PROVE  PublisherInv'
  <1>1. Head(inflight) = inflight[1] /\ 1 \in DOMAIN inflight
        /\ DOMAIN inflight = 1..Len(inflight) /\ Len(inflight) \in Nat
    BY DEF TypeOK
  <1>2. Head(inflight) \in Rows /\ \A j \in 1..(Head(inflight) - 1) : j \in published
    BY <1>1 DEF PublisherInv
  <1>3. Head(inflight) \in Nat /\ topic \in Seq(Nat)
    BY <1>1 DEF TypeOK
  <1>4. /\ \A k \in DOMAIN topic : k \in DOMAIN topic' /\ topic'[k] = topic[k]
        /\ \A k \in DOMAIN topic' :
                topic'[k] = Head(inflight) \/ (k \in DOMAIN topic /\ topic'[k] = topic[k])
    <2>1. CASE topic' = topic
      BY <2>1
    <2>2. CASE topic' = Append(topic, Head(inflight))
      BY <1>3, <2>2
    <2> QED BY <2>1, <2>2
  <1>5. \A i : OnTopic(i) => OnTopic(i)'
    BY <1>4 DEF OnTopic
  <1>6. /\ DOMAIN inflight' = 1..(Len(inflight) - 1) /\ Len(inflight') = Len(inflight) - 1
        /\ \A k \in DOMAIN inflight' : inflight'[k] = inflight[k + 1] /\ k + 1 \in DOMAIN inflight
    <2>1. inflight \in Seq(Nat) /\ inflight # <<>>
      BY DEF TypeOK
    <2>2. Len(inflight') = Len(inflight) - 1 /\ DOMAIN inflight' = 1..(Len(inflight) - 1)
      BY <1>1, <2>1
    <2>3. \A k \in 1..(Len(inflight) - 1) : inflight'[k] = inflight[k + 1]
      BY <1>1, <2>1
    <2> QED BY <1>1, <2>2, <2>3
  <1>7. Rows' = Rows /\ Pending' = Pending /\ \A i : First(i)' <=> First(i)
    BY DEF Rows, Pending, First
  <1>8. (pub' = "flushing" /\ result' = "none") =>
            inflight' # <<>> /\ First(inflight'[Len(inflight')])
    <2> SUFFICES ASSUME pub' = "flushing", result' = "none"
                 PROVE  inflight' # <<>> /\ First(inflight'[Len(inflight')])
      OBVIOUS
    <2>1. pub = "flushing" /\ result = "none" /\ Len(inflight) # 1
      BY DEF Settle
    <2>2. First(inflight[Len(inflight)])
      BY <2>1 DEF PublisherInv
    <2>3. Len(inflight) - 1 \in DOMAIN inflight'
      BY <1>1, <1>6, <2>1
    <2> QED
      <3>1. inflight'[Len(inflight) - 1] = inflight[Len(inflight) - 1 + 1]
        BY <1>6, <2>3
      <3>2. Len(inflight) - 1 + 1 = Len(inflight) /\ Len(inflight) - 1 # 0
        BY <1>1, <2>1
      <3>3. inflight' # <<>>
        BY <1>6, <3>2
      <3> QED BY <1>6, <2>2, <3>1, <3>2, <3>3
  <1>9. (pub' = "flushing" /\ result' = "ok") => \A i \in batch' : First(i) => OnTopic(i)'
    <2> SUFFICES ASSUME pub' = "flushing", result' = "ok", NEW i \in batch, First(i)
                 PROVE  OnTopic(i)'
      OBVIOUS
    <2>1. CASE result = "ok"
      BY <1>5, <2>1 DEF PublisherInv
    <2>2. CASE result # "ok"
      <3>1. outcome = "ok" /\ Len(inflight) = 1 /\ result = "none" /\ pub = "flushing"
        BY <2>2 DEF Settle
      <3>2. First(Head(inflight))
        BY <1>1, <3>1 DEF PublisherInv
      <3>3. i = Head(inflight)
        <4>1. i \in Nat /\ Head(inflight) \in Nat
          BY <1>1, <3>2 DEF TypeOK, First
        <4> QED BY <3>2, <4>1 DEF First
      <3>4. topic' = Append(topic, Head(inflight))
        BY <3>1
      <3> QED
        <4>1. Len(topic) + 1 \in DOMAIN topic' /\ topic'[Len(topic) + 1] = Head(inflight)
          BY <1>1, <3>4 DEF TypeOK
        <4> QED BY <3>3, <4>1 DEF OnTopic
    <2> QED BY <2>1, <2>2
  <1> QED
    BY <1>2, <1>4, <1>5, <1>6, <1>7, <1>8, <1>9 DEF PublisherInv

\* The publisher's invariant is preserved by every step.
LEMMA PublisherStepInv == TypeOK /\ TapInv /\ PublisherInv /\ [Next]_vars => PublisherInv'
  <1> SUFFICES ASSUME TypeOK, TapInv, PublisherInv, [Next]_vars PROVE PublisherInv'
    OBVIOUS
  <1>1. CASE \/ \E c \in {"order", "garbage"} : Produce(c)
             \/ DbFails \/ DbRecovers \/ Stop \/ Join \/ Poll \/ CommitOrder
             \/ SkipUndecodable \/ TapStops \/ HealthAsk \/ NoHealth \/ UNCHANGED vars
    <2>1. UNCHANGED <<pubVars, published, outbox>>
      BY <1>1 DEF Produce, DbFails, DbRecovers, Stop, Join, Poll, CommitOrder,
                  SkipUndecodable, TapStops, HealthAsk, NoHealth, vars, dbVars
    <2> QED
      BY <2>1, PublisherFrame DEF TypeOK
  <1>2. CASE EmitOrder
    <2>1. OrderEvent(pos) \in EventId
      BY <1>2, Bounds, EventIds DEF TypeOK, TapInv, EmitOrder
    <2> QED
      BY <1>2, <2>1, EmitFrame DEF EmitOrder
  <1>3. CASE Heartbeat \/ EmitSample
    <2>1. samples + 1 \in 1..MaxSamples
      BY <1>3, Bounds DEF TypeOK, Heartbeat, EmitSample
    <2> QED
      BY <1>3, <2>1, EventIds, EmitFrame DEF Heartbeat, EmitSample
  <1>4. CASE Crash \/ Exit
    <2>1. /\ pub' = "down" /\ batch' = {} /\ result' = "none" /\ inflight' = <<>>
          /\ UNCHANGED <<topic, published, outbox>>
      BY <1>4 DEF Crash, Exit, ProcessEnds, dbVars
    <2> QED
      BY <2>1 DEF PublisherInv, Rows, Pending, OnTopic
  <1>5. CASE Start \/ Close
    <2>1. /\ pub' \in {"idle", "closed"}
          /\ UNCHANGED <<batch, result, inflight, topic, published, outbox>>
      BY <1>5 DEF Start, Close, dbVars
    <2> QED
      BY <2>1 DEF PublisherInv, Rows, Pending, OnTopic
  <1>6. CASE Select
    <2>1. UNCHANGED <<result, inflight, topic, published, outbox>>
      BY <1>6 DEF Select, dbVars
    <2>2. CASE batch' = Selected /\ pub' = IF Selected = {} THEN "idle" ELSE "sending"
      <3>1. Rows' = Rows /\ Pending' = Pending /\ \A i : OnTopic(i)' <=> OnTopic(i)
        BY <2>1 DEF Rows, Pending, OnTopic
      <3>2. \A i \in batch' : \A j \in Rows : j < i => j \in published \/ j \in batch'
        BY <2>2, SelectedIsPrefix DEF Pending
      <3>3. batch' \subseteq Pending
        BY <2>2, SelectedIsPrefix
      <3> QED
        BY <2>1, <2>2, <3>1, <3>2, <3>3 DEF PublisherInv
    <2>3. CASE UNCHANGED <<pub, batch>>
      BY <2>1, <2>3 DEF PublisherInv, Rows, Pending, OnTopic, First
    <2> QED
      BY <1>6, <2>2, <2>3 DEF Select
  <1>7. CASE Send
    <2>1. PICK i \in batch : First(i) /\ inflight' = Append(inflight, i)
      BY <1>7 DEF Send
    <2>2. /\ result' = "none" /\ pub' = "flushing"
          /\ UNCHANGED <<batch, topic, published, outbox>>
      BY <1>7 DEF Send, dbVars
    <2>3. i \in Rows /\ i \in Nat /\ \A j \in 1..(i - 1) : j \in published
      BY <2>1, FirstIsNext
    <2>4. /\ Len(inflight') = Len(inflight) + 1 /\ Len(inflight) \in Nat
          /\ DOMAIN inflight' = 1..(Len(inflight) + 1) /\ DOMAIN inflight = 1..Len(inflight)
          /\ \A k \in DOMAIN inflight : inflight'[k] = inflight[k]
          /\ inflight'[Len(inflight) + 1] = i
      BY <2>1, <2>3 DEF TypeOK
    <2>5. Rows' = Rows /\ Pending' = Pending /\ (\A x : OnTopic(x)' <=> OnTopic(x))
          /\ \A x : First(x)' <=> First(x)
      BY <2>2 DEF Rows, Pending, OnTopic, First
    <2>6. \A k \in DOMAIN inflight' :
            inflight'[k] \in Rows /\ \A j \in 1..(inflight'[k] - 1) : j \in published
      BY <2>3, <2>4 DEF PublisherInv
    <2>7. inflight' # <<>> /\ First(inflight'[Len(inflight')])
      BY <2>1, <2>4
    <2> QED
      BY <2>2, <2>5, <2>6, <2>7 DEF PublisherInv
  <1>8. CASE RecordDelivery
    <2>1. PICK i \in batch : /\ First(i)
                             /\ \/ published' = published /\ BatchEnds
                                \/ /\ result = "ok" /\ published' = published \cup {i}
                                   /\ \/ BatchEnds
                                      \/ /\ batch' = batch \ {i}
                                         /\ pub' = IF batch = {i} THEN "idle" ELSE "sending"
      BY <1>8 DEF RecordDelivery
    <2>2. pub = "flushing" /\ result' = "none" /\ UNCHANGED <<outbox, inflight, topic>>
      BY <1>8 DEF RecordDelivery
    <2>3. Rows' = Rows /\ (\A x : OnTopic(x)' <=> OnTopic(x))
      BY <2>2 DEF Rows, OnTopic
    <2>4. published' \subseteq Rows /\ published \subseteq published' /\ \A x \in published' : OnTopic(x)
      BY <2>1, <2>2, FirstIsNext DEF PublisherInv
    <2>5. pub' # "flushing" /\ (pub' = "sending" => batch' # {}) /\ batch' \subseteq batch
      BY <2>1 DEF BatchEnds
    <2>6. \A x \in batch' : x \notin published'
      BY <2>1 DEF BatchEnds, PublisherInv, Pending
    <2>7. \A x \in batch' : \A j \in Rows : j < x => j \in published' \/ j \in batch'
      BY <2>1, <2>5 DEF BatchEnds, PublisherInv
    <2> QED
      BY <2>2, <2>3, <2>4, <2>5, <2>6, <2>7 DEF PublisherInv, Pending
  <1>9. CASE BrokerAppends
    BY <1>9, QueueStep DEF BrokerAppends, dbVars
  <1>10. CASE ProducerGivesUp
    BY <1>10, QueueStep DEF ProducerGivesUp, dbVars
  <1>11. CASE FlushTimesOut
    <2>1. result' = "error" /\ UNCHANGED <<pub, batch, inflight, topic, published, outbox>>
      BY <1>11 DEF FlushTimesOut, dbVars
    <2> QED
      BY <2>1 DEF PublisherInv, Rows, Pending, OnTopic
  <1> QED
    BY <1>1, <1>2, <1>3, <1>4, <1>5, <1>6, <1>7, <1>8, <1>9, <1>10, <1>11
       DEF Next, TapStep, HealthStep, PublisherStep

-------------------------------------------------------------------------------

IInv == TypeOK /\ TapInv /\ PublisherInv

\* The inductive invariant holds in every reachable state.
LEMMA Invariance == Spec => []IInv
  <1>1. Init => IInv
    <2>1. Init => TypeOK
      <3> SUFFICES ASSUME Init PROVE TypeOK
        OBVIOUS
      <3>1. dbUp \in BOOLEAN /\ stopping \in BOOLEAN
        BY DEF Init
      <3>2. orders \in Seq({"order", "garbage"}) /\ outbox \in Seq(EventId)
            /\ inflight \in Seq(Nat) /\ topic \in Seq(Nat)
        BY DEF Init
      <3>3. samples \in 0..MaxSamples /\ faults \in 0..MaxFaults
        BY Bounds DEF Init
      <3> QED BY <3>1, <3>2, <3>3 DEF Init, TypeOK
    <2>2. Init => TapInv
      BY Bounds DEF Init, TapInv, CommittedPersisted, NoOffset
    <2>3. Init => PublisherInv
      BY DEF Init, PublisherInv, Rows, Pending
    <2> QED BY <2>1, <2>2, <2>3 DEF IInv
  <1>2. IInv /\ [Next]_vars => IInv'
    BY TypeStep, TapStepInv, PublisherStepInv DEF IInv
  <1> QED
    BY <1>1, <1>2, PTL DEF Spec

\* Every variable has its type in every reachable state of the ingest process.
THEOREM TypeCorrect == Spec => []TypeOK
  <1>1. IInv => TypeOK
    BY DEF IInv
  <1> QED
    BY <1>1, Invariance, PTL

\* Whatever crashes, outages and retries happen, offsets are committed only
\* over orders that are persisted, after the group's first commit.
THEOREM OffsetsFollowPersistence == Spec => []CommittedPersisted
  <1>1. IInv => CommittedPersisted
    BY DEF IInv, TapInv
  <1> QED
    BY <1>1, Invariance, PTL

\* A step stores an event by one emit or leaves both tables alone.
LEMMA TableSteps ==
    ASSUME TypeOK, TapInv, [Next]_vars
    PROVE  \/ UNCHANGED <<events, outbox>>
           \/ \E e \in EventId : Insert(e) /\ UNCHANGED topic
  <1>1. CASE EmitOrder
    <2>1. OrderEvent(pos) \in EventId
      BY <1>1, Bounds, EventIds DEF TypeOK, TapInv, EmitOrder
    <2> QED
      BY <1>1, <2>1, EmitTyped DEF EmitOrder, dbVars, pubVars
  <1>2. CASE Heartbeat \/ EmitSample
    <2>1. samples + 1 \in 1..MaxSamples
      BY <1>2, Bounds DEF TypeOK, Heartbeat, EmitSample
    <2>2. PICK e \in EventId : EmitReturns(e) \/ EmitRaises(e)
      BY <1>2, <2>1, EventIds DEF Heartbeat, EmitSample
    <2> QED
      BY <1>2, <2>2, EmitTyped DEF Heartbeat, EmitSample, dbVars, pubVars
  <1>3. CASE \/ \E c \in {"order", "garbage"} : Produce(c)
             \/ DbFails \/ DbRecovers \/ Crash \/ Stop \/ Start
             \/ Join \/ Poll \/ CommitOrder \/ SkipUndecodable \/ TapStops \/ HealthAsk \/ NoHealth
             \/ PublisherStep \/ BrokerAppends \/ ProducerGivesUp \/ FlushTimesOut
             \/ UNCHANGED vars
    BY <1>3 DEF Produce, DbFails, DbRecovers, Crash, Stop, Start, Join, Poll, CommitOrder,
                SkipUndecodable, TapStops, HealthAsk, NoHealth, PublisherStep, Select, Send, RecordDelivery, Close,
                Exit, BrokerAppends, ProducerGivesUp, FlushTimesOut, ProcessEnds, vars, dbVars
  <1> QED
    BY <1>1, <1>2, <1>3 DEF Next, TapStep, HealthStep

\* The events table and the outbox hold the same events, each of them once.
THEOREM TablesAgree == Spec => []EventsMatchOutbox
  <1>1. Init => EventsMatchOutbox
    BY DEF Init, EventsMatchOutbox, Rows
  <1>2. ASSUME IInv, EventsMatchOutbox, [Next]_vars PROVE EventsMatchOutbox'
    <2>1. CASE UNCHANGED <<events, outbox>>
      BY <1>2, <2>1 DEF EventsMatchOutbox, Rows
    <2>2. ASSUME NEW e \in EventId, Insert(e) PROVE EventsMatchOutbox'
      <3>1. outbox \in Seq(EventId)
        BY <1>2 DEF IInv, TypeOK
      <3>2. CASE InOutbox(e)
        <4>1. outbox' = outbox /\ events' = events
          BY <1>2, <2>2, <3>2 DEF Insert, EventsMatchOutbox, InOutbox
        <4> QED BY <1>2, <4>1 DEF EventsMatchOutbox, Rows
      <3>3. CASE ~InOutbox(e)
        <4>1. outbox' = Append(outbox, e) /\ events' = events \cup {e}
          BY <2>2, <3>3 DEF Insert
        <4>2. /\ Rows' = Rows \cup {Len(outbox) + 1} /\ outbox'[Len(outbox) + 1] = e
              /\ \A i \in Rows : outbox'[i] = outbox[i]
          BY <3>1, <4>1 DEF Rows
        <4>3. \A i \in Rows : outbox[i] # e
          BY <3>3 DEF InOutbox
        <4>4. events' = {outbox'[i] : i \in Rows'}
          <5>1. events = {outbox[i] : i \in Rows}
            BY <1>2 DEF EventsMatchOutbox
          <5>2. \A x \in events' : x \in {outbox'[i] : i \in Rows'}
            BY <4>1, <4>2, <5>1
          <5>3. \A i \in Rows' : outbox'[i] \in events'
            BY <4>1, <4>2, <5>1
          <5> QED BY <5>2, <5>3
        <4>5. \A i, j \in Rows' : outbox'[i] = outbox'[j] => i = j
          BY <1>2, <4>2, <4>3 DEF EventsMatchOutbox
        <4> QED BY <4>4, <4>5 DEF EventsMatchOutbox
      <3> QED BY <3>2, <3>3
    <2> QED
      BY <1>2, <2>1, <2>2, TableSteps DEF IInv
  <1>3. IInv /\ EventsMatchOutbox /\ [Next]_vars => EventsMatchOutbox'
    BY <1>2
  <1> QED
    BY <1>1, <1>3, Invariance, PTL DEF Spec

\* A health event is stored only when every order that was on the topic when
\* its heartbeat asked is handled, or is the one just polled.
THEOREM HealthEventsAreTruthful == Spec => HealthIsTruthful
  <1> DEFINE Truthful ==
        \A n \in 1..MaxSamples :
            HealthEvent(n) \in events' \ events =>
                /\ asked # NoOffset
                /\ \A o \in 1..asked : Handled(o) \/ (o = pos /\ tap = "polled")
  <1>1. ASSUME IInv, [Next]_vars PROVE Truthful
    <2> SUFFICES ASSUME NEW n \in 1..MaxSamples, HealthEvent(n) \in events' \ events
                 PROVE  /\ asked # NoOffset
                        /\ \A o \in 1..asked : Handled(o) \/ (o = pos /\ tap = "polled")
      OBVIOUS
    <2>1. CASE Heartbeat
      <3>1. /\ tap \in {"polling", "polled"} /\ high # NoOffset /\ asked = high /\ asked \in Nat
            /\ pos >= high /\ pos \in Nat
        BY <1>1, <2>1 DEF Heartbeat, IInv, TypeOK, TapInv
      <3>2. CASE tap = "polling"
        BY <1>1, <3>1, <3>2 DEF IInv, TapInv
      <3>3. CASE tap = "polled"
        <4> SUFFICES ASSUME NEW o \in 1..asked, o # pos PROVE Handled(o)
          BY <3>1, <3>3
        <4>1. o \in 1..(pos - 1)
          BY <3>1
        <4> QED BY <1>1, <3>3, <4>1 DEF IInv, TapInv
      <3> QED BY <3>1, <3>2, <3>3
    <2>2. CASE EmitOrder
      <3>1. events' = events \/ events' = events \cup {OrderEvent(pos)}
        BY <2>2 DEF EmitOrder, EmitReturns, EmitRaises, Insert, dbVars
      <3> QED BY <3>1, EventIds
    <2>3. CASE EmitSample
      <3>1. events' = events \/ events' = events \cup {SampleEvent(samples + 1)}
        BY <2>3 DEF EmitSample, EmitReturns, EmitRaises, Insert, dbVars
      <3> QED BY <3>1, EventIds
    <2>4. CASE \/ \E c \in {"order", "garbage"} : Produce(c)
               \/ DbFails \/ DbRecovers \/ Crash \/ Stop \/ Start
               \/ Join \/ Poll \/ CommitOrder \/ SkipUndecodable \/ TapStops \/ HealthAsk \/ NoHealth
               \/ PublisherStep \/ BrokerAppends \/ ProducerGivesUp \/ FlushTimesOut
               \/ UNCHANGED vars
      <3>1. events' = events
        BY <2>4 DEF Produce, DbFails, DbRecovers, Crash, Stop, Start, Join, Poll, CommitOrder,
                    SkipUndecodable, TapStops, HealthAsk, NoHealth, PublisherStep, Select, Send, RecordDelivery,
                    Close, Exit, BrokerAppends, ProducerGivesUp, FlushTimesOut, ProcessEnds,
                    vars, dbVars
      <3> QED BY <3>1
    <2> QED
      BY <1>1, <2>1, <2>2, <2>3, <2>4 DEF Next, TapStep, HealthStep
  <1>2. IInv /\ [Next]_vars => [Truthful]_vars
    BY <1>1
  <1> QED
    BY <1>2, Invariance, PTL DEF Spec, HealthIsTruthful

\* The sink implements the abstract outbox: every step of the process stores
\* one new event, delivers one row whose predecessors are all delivered,
\* acknowledges one delivered row, or does nothing the abstraction can see.
THEOREM Refinement == Spec => ImplementsDelivery
  <1> USE DEF Delivery!vars
  <1>1. Init => Delivery!Init
    BY DEF Init, Delivery!Init
  <1>2. ASSUME IInv, [Next]_vars PROVE [Delivery!Next]_(Delivery!vars)
    <2>1. ASSUME NEW e \in EventId, Insert(e), UNCHANGED topic
          PROVE  Delivery!Store(e) \/ UNCHANGED <<outbox, topic, published>>
      <3>1. CASE InOutbox(e)
        BY <2>1, <3>1 DEF Insert
      <3>2. CASE ~InOutbox(e)
        BY <2>1, <3>2 DEF Insert, InOutbox, Rows, Delivery!Store
      <3> QED BY <3>1, <3>2
    <2>2. CASE EmitOrder \/ Heartbeat \/ EmitSample
      <3>1. (\E e \in EventId : Insert(e) /\ UNCHANGED topic) \/ UNCHANGED <<outbox, topic, published>>
        <4>1. CASE EmitOrder
          <5>1. OrderEvent(pos) \in EventId
            BY <1>2, <4>1, Bounds, EventIds DEF IInv, TypeOK, TapInv, EmitOrder
          <5> QED
            BY <1>2, <4>1, <5>1, EmitTyped DEF IInv, EmitOrder, dbVars, pubVars
        <4>2. CASE Heartbeat \/ EmitSample
          <5>1. samples + 1 \in 1..MaxSamples
            BY <1>2, <4>2, Bounds DEF IInv, TypeOK, Heartbeat, EmitSample
          <5>2. PICK e \in EventId : EmitReturns(e) \/ EmitRaises(e)
            BY <4>2, <5>1, EventIds DEF Heartbeat, EmitSample
          <5> QED
            BY <1>2, <4>2, <5>2, EmitTyped DEF IInv, Heartbeat, EmitSample, dbVars, pubVars
        <4> QED BY <2>2, <4>1, <4>2
      <3> QED BY <2>1, <3>1 DEF Delivery!Next
    <2>3. CASE BrokerAppends \/ ProducerGivesUp
      <3>1. inflight # <<>> /\ UNCHANGED <<outbox, published>>
            /\ (topic' = topic \/ topic' = Append(topic, Head(inflight)))
        BY <2>3 DEF BrokerAppends, ProducerGivesUp, dbVars
      <3>2. Head(inflight) \in Rows /\ \A j \in 1..(Head(inflight) - 1) : OnTopic(j)
        BY <1>2, <3>1 DEF IInv, TypeOK, PublisherInv
      <3>3. topic' = Append(topic, Head(inflight)) => Delivery!Deliver(Head(inflight))
        BY <3>1, <3>2 DEF Delivery!Deliver, Delivery!IsDelivered, OnTopic, Rows
      <3> QED BY <3>1, <3>2, <3>3 DEF Delivery!Next, Rows
    <2>4. CASE RecordDelivery
      <3>1. PICK i \in batch : First(i) /\ (\/ published' = published
                                            \/ result = "ok" /\ published' = published \cup {i})
        BY <2>4 DEF RecordDelivery
      <3>2. pub = "flushing" /\ UNCHANGED <<outbox, topic>>
        BY <2>4 DEF RecordDelivery
      <3>3. i \in Rows
        BY <1>2, <3>1, FirstIsNext DEF IInv
      <3>4. result = "ok" => OnTopic(i)
        BY <1>2, <3>1, <3>2 DEF IInv, PublisherInv
      <3> QED
        BY <3>1, <3>2, <3>3, <3>4
           DEF Delivery!Next, Delivery!Acknowledge, Delivery!IsDelivered, OnTopic, Rows
    <2>5. CASE \/ \E c \in {"order", "garbage"} : Produce(c)
               \/ DbFails \/ DbRecovers \/ Crash \/ Stop \/ Start
               \/ Join \/ Poll \/ CommitOrder \/ SkipUndecodable \/ TapStops \/ HealthAsk \/ NoHealth
               \/ Select \/ Send \/ Close \/ Exit \/ FlushTimesOut \/ UNCHANGED vars
      BY <2>5 DEF Produce, DbFails, DbRecovers, Crash, Stop, Start, Join, Poll, CommitOrder,
                  SkipUndecodable, TapStops, HealthAsk, NoHealth, Select, Send, Close, Exit, FlushTimesOut,
                  ProcessEnds, vars, dbVars, pubVars
    <2> QED
      BY <1>2, <2>2, <2>3, <2>4, <2>5 DEF Next, TapStep, HealthStep, PublisherStep
  <1>3. IInv /\ [Next]_vars => [Delivery!Next]_(Delivery!vars)
    BY <1>2
  <1> QED
    BY <1>1, <1>3, Invariance, PTL DEF Spec, ImplementsDelivery, Delivery!Spec
===============================================================================
