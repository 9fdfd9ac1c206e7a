------------------------ MODULE FeatureWindows_proofs ------------------------
(***************************************************************************)
(* What FeatureWindows checks on two events holds for any number of        *)
(* services and events, any lateness, horizon and length of the minute.    *)
(***************************************************************************)
EXTENDS FeatureWindows, TLAPS

\* Nothing in the tables is from the future.
Past ==
    /\ \A row \in events : row.stored_at <= now
    /\ \A w \in windows : w.updated_at <= now

\* A key of feature_windows has one row.
KeysAreUnique == \A v, w \in windows : Key(v) = Key(w) => v = w

IInv == TypeOK /\ Past /\ KeysAreUnique /\ EvidenceIsTimely /\ WindowsAreComplete

USE MinuteAssumption, TimesAssumption, BoundAssumption

\* A minute starts at or before the observations in it, less than a minute before.
LEMMA BucketBounds ==
    ASSUME NEW at \in Nat
    PROVE  bucket(at) \in Nat /\ bucket(at) <= at /\ at < WindowEnd(bucket(at))
<1>1. at % Minute \in 0..(Minute - 1)
  OBVIOUS
<1>2. at % Minute <= at
  <2>1. CASE at < Minute
    <3>1. at % Minute = at
      BY <2>1
    <3>2. QED BY <3>1
  <2>2. CASE at >= Minute
    BY <1>1, <2>2
  <2>3. QED BY <2>1, <2>2
<1>3. QED BY <1>1, <1>2 DEF bucket, WindowEnd

\* What one evaluation builds: typed, stamped now, closed, timely, and one
\* window for a key.
LEMMA BuiltWindows ==
    ASSUME TypeOK, NEW b \in build_windows
    PROVE  /\ b \in Window
           /\ b.updated_at = now
           /\ b.evidence = Observations(b.service, b.window_start)
           /\ Deadline(b.window_start) <= now
<1>1. PICK k \in {<<row.event.service, bucket(row.event.observed_at)>> : row \in events} :
        /\ Closed(k[2]) /\ Observations(k[1], k[2]) # {}
        /\ b = [service |-> k[1], window_start |-> k[2],
                evidence |-> Observations(k[1], k[2]), updated_at |-> now]
  BY DEF build_windows
<1>2. PICK row \in events : k = <<row.event.service, bucket(row.event.observed_at)>>
  BY <1>1
<1>3. row.event \in Event
  BY <1>2 DEF TypeOK, StoredEvent
<1>4. k[1] \in Services /\ k[2] \in Nat
  BY <1>2, <1>3, BucketBounds DEF Event
<1>5. Observations(k[1], k[2]) \subseteq Event
  BY DEF Observations, TypeOK, StoredEvent
<1>6. now \in Nat
  BY DEF TypeOK
<1>7. b \in Window
  BY <1>1, <1>4, <1>5, <1>6 DEF Window
<1>8. QED
  BY <1>1, <1>4, <1>6, <1>7 DEF Closed, WindowEnd, Deadline

\* Two windows built together for one key are the same window.
LEMMA BuiltKeysAreUnique ==
    ASSUME TypeOK, NEW a \in build_windows, NEW b \in build_windows, Key(a) = Key(b)
    PROVE  a = b
<1>1. a \in Window /\ a.updated_at = now /\ a.evidence = Observations(a.service, a.window_start)
  BY BuiltWindows
<1>2. b \in Window /\ b.updated_at = now /\ b.evidence = Observations(b.service, b.window_start)
  BY BuiltWindows
<1>3. a.service = b.service /\ a.window_start = b.window_start
  BY DEF Key
<1>4. QED BY <1>1, <1>2, <1>3 DEF Window

LEMMA Initial == Init => IInv
<1> SUFFICES ASSUME Init PROVE IInv
  OBVIOUS
<1>1. now \in 0..MaxTime /\ received \in 0..MaxEvents
  BY DEF Init
<1>2. QED
  BY <1>1 DEF Init, IInv, TypeOK, Past, KeysAreUnique, EvidenceIsTimely, WindowsAreComplete

\* An evaluation changes nothing but windows, to which it adds new keys.
LEMMA EvaluateKeepsInvariant ==
    ASSUME IInv, Evaluate
    PROVE  IInv' /\ windows \subseteq windows'
<1> USE DEF IInv
<1>1. /\ windows' = windows \cup {b \in build_windows : \A w \in windows : Key(w) # Key(b)}
      /\ UNCHANGED <<now, held, events, received>>
  BY DEF Evaluate, Upsert
<1>2. \A w \in windows' : w \in windows \/ (w \in build_windows /\ \A v \in windows : Key(v) # Key(w))
  BY <1>1
<1>3. \A w \in build_windows : w \in Window /\ w.updated_at = now
  BY BuiltWindows
<1>4. TypeOK'
  <2>1. windows' \subseteq Window
    BY <1>2, <1>3 DEF TypeOK
  <2>2. QED BY <1>1, <2>1 DEF TypeOK
<1>5. Past'
  <2>1. \A w \in windows' : w.updated_at <= now
    BY <1>2, <1>3 DEF Past, TypeOK
  <2>2. QED BY <1>1, <2>1 DEF Past
<1>6. KeysAreUnique'
  <2> SUFFICES ASSUME NEW v \in windows', NEW w \in windows', Key(v) = Key(w) PROVE v = w
    BY DEF KeysAreUnique, Key
  <2>1. CASE v \in windows /\ w \in windows
    BY <2>1 DEF KeysAreUnique
  <2>2. CASE v \notin windows /\ w \notin windows
    BY <1>2, <2>2, BuiltKeysAreUnique
  <2>3. CASE v \in windows /\ w \notin windows
    BY <1>2, <2>3
  <2>4. CASE v \notin windows /\ w \in windows
    BY <1>2, <2>4
  <2>5. QED BY <2>1, <2>2, <2>3, <2>4
<1>7. EvidenceIsTimely'
  <2> SUFFICES ASSUME NEW w \in windows'
               PROVE  /\ w.updated_at >= Deadline(w.window_start)
                      /\ \A e \in w.evidence : Timely(e, w.service, w.window_start)
    BY DEF EvidenceIsTimely, Timely, Deadline, WindowEnd, bucket
  <2>1. CASE w \in windows
    BY <2>1 DEF EvidenceIsTimely
  <2>2. CASE w \in build_windows
    <3>1. /\ w.updated_at = now /\ Deadline(w.window_start) <= now
          /\ w.evidence = Observations(w.service, w.window_start)
          /\ w.window_start \in Nat
      BY <2>2, BuiltWindows DEF Window
    <3>2. \A e \in Observations(w.service, w.window_start) : Timely(e, w.service, w.window_start)
      BY DEF Observations, Selected, Timely
    <3>3. w.updated_at >= Deadline(w.window_start)
      BY <3>1 DEF TypeOK, Deadline, WindowEnd
    <3>4. QED BY <3>1, <3>2, <3>3
  <2>3. QED BY <1>2, <2>1, <2>2
<1>8. WindowsAreComplete'
  <2> SUFFICES ASSUME NEW w \in windows', w.updated_at < w.window_start + Horizon, NEW row \in events,
                      Timely(row.event, w.service, w.window_start), row.event.usable,
                      row.stored_at < w.updated_at
               PROVE  row.event \in w.evidence
    BY <1>1 DEF WindowsAreComplete, Counted, Timely, Deadline, WindowEnd, bucket
  <2>1. CASE w \in windows
    BY <2>1 DEF WindowsAreComplete, Counted
  <2>2. CASE w \in build_windows
    <3> DEFINE e == row.event
    <3>1. /\ w.updated_at = now /\ Deadline(w.window_start) <= now
          /\ w.evidence = Observations(w.service, w.window_start)
      BY <2>2, BuiltWindows
    <3>2. e \in Event /\ e.observed_at \in Nat /\ now \in Nat
      BY DEF TypeOK, StoredEvent, Event
    <3>3. e.service = w.service /\ bucket(e.observed_at) = w.window_start
      BY DEF Timely
    <3>4. w.window_start \in Nat /\ w.window_start <= e.observed_at /\ e.observed_at < WindowEnd(w.window_start)
      BY <3>2, <3>3, BucketBounds
    <3>5. e.observed_at + Horizon > now
      BY <3>1, <3>2, <3>4
    <3>6. e.observed_at + Lateness <= now
      BY <3>1, <3>2, <3>4 DEF Deadline, WindowEnd
    <3>7. Selected(e)
      BY <3>3, <3>5, <3>6 DEF Selected, Timely
    <3>8. e \in Observations(w.service, w.window_start)
      BY <3>3, <3>7 DEF Observations
    <3>9. QED BY <3>1, <3>8
  <2>3. QED BY <1>2, <2>1, <2>2
<1>9. QED
  BY <1>1, <1>4, <1>5, <1>6, <1>7, <1>8

LEMMA StepKeepsInvariant ==
    ASSUME IInv, [Next]_vars
    PROVE  IInv' /\ windows \subseteq windows'
<1> USE DEF IInv
<1>1. CASE Tick
  <2>1. TypeOK'
    BY <1>1 DEF Tick, TypeOK
  <2>2. Past'
    BY <1>1 DEF Tick, TypeOK, Past, StoredEvent, Window
  <2>3. QED
    BY <1>1, <2>1, <2>2 DEF Tick, KeysAreUnique, EvidenceIsTimely, WindowsAreComplete, Key,
                            Counted, Timely, Deadline, WindowEnd, bucket
<1>2. ASSUME NEW s \in Services, NEW at \in 0..now, NEW usable \in BOOLEAN, Receive(s, at, usable)
      PROVE  IInv' /\ windows \subseteq windows'
  <2>1. TypeOK'
    <3>1. [id |-> received, service |-> s, observed_at |-> at, ingested_at |-> now, usable |-> usable] \in Event
      BY DEF TypeOK, Event
    <3>2. QED BY <1>2, <3>1 DEF Receive, TypeOK
  <2>2. QED
    BY <1>2, <2>1 DEF Receive, Past, KeysAreUnique, EvidenceIsTimely, WindowsAreComplete, Key,
                      Counted, Timely, Deadline, WindowEnd, bucket
<1>3. ASSUME NEW e \in held, StoreEvent(e)
      PROVE  IInv' /\ windows \subseteq windows'
  <2>1. TypeOK'
    BY <1>3 DEF StoreEvent, TypeOK, StoredEvent
  <2>2. \A row \in events' : row \in events \/ row.stored_at = now
    BY <1>3 DEF StoreEvent
  <2>3. now' = now /\ windows' = windows /\ now \in Nat
    BY <1>3 DEF StoreEvent, TypeOK
  <2>4. Past'
    BY <2>2, <2>3 DEF Past
  <2>5. WindowsAreComplete'
    <3> SUFFICES ASSUME NEW w \in windows, w.updated_at < w.window_start + Horizon, NEW row \in events',
                        Timely(row.event, w.service, w.window_start), row.event.usable,
                        row.stored_at < w.updated_at
                 PROVE  row.event \in w.evidence
      BY <2>3 DEF WindowsAreComplete, Counted, Timely, Deadline, WindowEnd, bucket
    <3>1. w.updated_at <= now /\ w.updated_at \in Nat
      BY DEF Past, TypeOK, Window
    <3>2. row \in events
      BY <2>2, <2>3, <3>1
    <3>3. QED BY <3>2 DEF WindowsAreComplete, Counted
  <2>6. QED
    BY <2>1, <2>3, <2>4, <2>5 DEF KeysAreUnique, EvidenceIsTimely, Key, Timely, Deadline, WindowEnd, bucket
<1>4. CASE Evaluate
  BY <1>4, EvaluateKeepsInvariant
<1>5. CASE UNCHANGED vars
  BY <1>5 DEF vars, TypeOK, Past, KeysAreUnique, EvidenceIsTimely, WindowsAreComplete, Key,
              Counted, Timely, Deadline, WindowEnd, bucket
<1>6. QED
  BY <1>1, <1>2, <1>3, <1>4, <1>5 DEF Next

THEOREM InductiveInvariant == Spec => []IInv
<1>1. Init => IInv
  BY Initial
<1>2. IInv /\ [Next]_vars => IInv'
  BY StepKeepsInvariant
<1>3. QED BY <1>1, <1>2, PTL DEF Spec

\* The tables and the clock keep their types.
THEOREM TypeCorrect == Spec => []TypeOK
<1>1. IInv => TypeOK
  BY DEF IInv
<1>2. QED BY <1>1, InductiveInvariant, PTL

\* No window is written early or from evidence that came too late
\* (build_windows and the SELECT of evaluate).
THEOREM TimelyEvidence == Spec => []EvidenceIsTimely
<1>1. IInv => EvidenceIsTimely
  BY DEF IInv
<1>2. QED BY <1>1, InductiveInvariant, PTL

\* Within the hour a window misses nothing that was stored in time (evaluate).
THEOREM CompleteWindows == Spec => []WindowsAreComplete
<1>1. IInv => WindowsAreComplete
  BY DEF IInv
<1>2. QED BY <1>1, InductiveInvariant, PTL

\* A window once written is never rewritten or doubled (upsert_windows).
THEOREM SealedWindows == Spec => WindowsAreSealed
<1>1. IInv /\ [Next]_vars =>
        [windows \subseteq windows' /\ \A v, w \in windows' : Key(v) = Key(w) => v = w]_vars
  BY StepKeepsInvariant DEF IInv, KeysAreUnique, Key
<1>2. QED BY <1>1, InductiveInvariant, PTL DEF Spec, WindowsAreSealed
===============================================================================
