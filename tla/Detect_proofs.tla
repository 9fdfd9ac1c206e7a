---------------------------- MODULE Detect_proofs ----------------------------
(***************************************************************************)
(* Proofs about Detect, for any number of containers, faults and limits:   *)
(* every incident rests on a sustained run of samples, is the only one of  *)
(* its cooldown, stands for every finding the evaluator passed, and has    *)
(* the labels it should have.                                              *)
(***************************************************************************)
EXTENDS Detect, FiniteSetTheorems, TLAPS

Points == {"waiting", "cooldown", "save", "insert", "dead"}
Samples == [at : Nat, level : 0..2]
MemoryFindings == [container : Containers, severity : Severities, evidence : SUBSET Samples]
Rows == [finding : MemoryFindings, fired : Nat, detected : Nat, labels : SUBSET Flags,
         boot : Nat, row : BOOLEAN]
Windows == [opened : Int, ended : Int, aim : Aims \cup {NoWindow.aim}]

TypeOK ==
    /\ now \in Nat
    /\ newest \in [Containers -> Int]
    /\ history \in [Containers -> Seq(Samples)]
    /\ due \in BOOLEAN /\ pc \in Points
    /\ findings \in Seq(MemoryFindings) /\ next \in Nat /\ fired \in Nat
    /\ last_fired \in [Keys -> Int]
    /\ labels \in SUBSET Flags
    /\ conn \in BOOLEAN
    /\ windows \in [Flags -> Windows]
    /\ queue \in Nat
    /\ incidents \in Seq(Rows)
    /\ boot \in Nat /\ faults \in Nat

\* Samples lie in the order of their times.
InOrder(h) == \A i, j \in DOMAIN h : i < j => h[i].at < h[j].at

\* The history of a container has no two samples of one time, and none newer than
\* the newest consumed: a redelivered event never gets in again.
HistoryInv ==
    \A c \in Containers :
        /\ newest[c] >= -1
        /\ InOrder(history[c])
        /\ \A i \in DOMAIN history[c] : history[c][i].at <= newest[c]

\* The evaluator is at one of the findings of its pass, or has none to handle.
\* Between produce and insert, that finding is the last incident.
PassInv ==
    /\ pc # "waiting" => next \in DOMAIN findings
    /\ pc = "insert" =>
        /\ incidents # <<>>
        /\ LET i == incidents[Len(incidents)]
           IN  i.finding = Current /\ i.fired = fired /\ i.boot = boot

\* Nothing has happened later than now, and an outage is a fault.
ClockInv ==
    /\ fired <= now
    /\ \A f \in Flags : windows[f].opened \in -1..now /\ windows[f].ended \in -1..now
    /\ \A i \in DOMAIN incidents :
        incidents[i].fired <= incidents[i].detected /\ incidents[i].detected <= now
    /\ faults = 0 => conn

\* The evidence of finding f, from a pass at time t, is a sustained run.
SustainedRun(f, t) ==
    /\ Cardinality(f.evidence) >= Sustained
    /\ \A s \in f.evidence : s.level >= f.severity
    /\ \A s \in f.evidence :
        (\E u \in f.evidence : u.at > s.at) => \E u \in f.evidence : u.at - s.at \in 1..Gap
    /\ \E s \in f.evidence : t - s.at <= Fresh

\* So it is for what the pass has found and for what has become an incident.
EvidenceInv ==
    /\ \A k \in DOMAIN findings : SustainedRun(findings[k], fired)
    /\ \A i \in DOMAIN incidents : SustainedRun(incidents[i].finding, incidents[i].fired)

\* An incident of this process with key k.
Reports(i, k) == incidents[i].boot = boot /\ KeyOf(incidents[i].finding) = k

\* last_fired is the memory of the incidents of this process: it is as late as the
\* last of each key, and names one of them, but for the finding whose produce is
\* still to come or has failed.
CooldownInv ==
    /\ \A i \in DOMAIN incidents : incidents[i].boot <= boot
    /\ \A k \in Keys, i \in DOMAIN incidents : Reports(i, k) => incidents[i].fired <= last_fired[k]
    /\ \A k \in Keys : last_fired[k] >= 0 =>
        \/ pc \in {"save", "dead"} /\ k = KeyOf(Current)
        \/ \E i \in DOMAIN incidents : Reports(i, k) /\ incidents[i].fired = last_fired[k]
    /\ pc = "save" =>
        /\ last_fired[KeyOf(Current)] = fired
        /\ \A i \in DOMAIN incidents :
            Reports(i, KeyOf(Current)) => fired - incidents[i].fired >= Cooldown

\* The fault's window may label container c.
Expected(f, c) ==
    windows[f].aim.domain = Infrastructure /\ windows[f].aim.entity \in {c, Anything}

\* Labels ls, read for container c in a pass at time t, are true at time d.
TrueLabels(ls, c, t, d) ==
    \A f \in Flags :
        /\ f \in ls =>
            /\ Expected(f, c)
            /\ windows[f].opened \in 0..d
            /\ windows[f].ended = -1 \/ windows[f].ended >= t
        /\ faults = 0 /\ Expected(f, c) /\ windows[f].opened \in 0..t - 1
           /\ (windows[f].ended = -1 \/ windows[f].ended > d)
           => f \in ls

LabelsInv ==
    /\ \A i \in DOMAIN incidents :
        TrueLabels(incidents[i].labels, incidents[i].finding.container,
                   incidents[i].fired, incidents[i].detected)
    /\ pc = "save" => TrueLabels(labels, Current.container, fired, now)

IInv ==
    /\ TypeOK /\ HistoryInv /\ PassInv /\ ClockInv /\ EvidenceInv
    /\ CooldownInv /\ OncePerCooldown /\ FindingsAreReported /\ LabelsInv
-------------------------------------------------------------------------------
(***************************************************************************)
(* The history of a container.                                             *)
(***************************************************************************)

\* What a sample in a history is.
LEMMA SampleTypes ==
    ASSUME NEW h \in Seq(Samples)
    PROVE  \A i \in DOMAIN h : h[i] \in Samples /\ h[i].at \in Nat /\ h[i].level \in 0..2
<1>1. \A i \in DOMAIN h : h[i] \in Samples
  OBVIOUS
<1>2. QED BY <1>1 DEF Samples

\* A newer sample at the end keeps the order.
LEMMA AppendInOrder ==
    ASSUME NEW h \in Seq(Samples), NEW s \in Samples, InOrder(h),
           \A i \in DOMAIN h : h[i].at < s.at
    PROVE  /\ Append(h, s) \in Seq(Samples)
           /\ InOrder(Append(h, s))
           /\ \A i \in DOMAIN Append(h, s) : Append(h, s)[i].at <= s.at
<1>1. s.at \in Nat /\ \A i \in DOMAIN h : h[i].at \in Nat
  BY SampleTypes DEF Samples
<1>2. QED BY <1>1 DEF InOrder

\* A sample newer than the whole history goes to its end, in order, and the
\* oldest one leaves when the history is full.
LEMMA KeptNew ==
    ASSUME NEW h \in Seq(Samples), NEW s \in Samples, InOrder(h),
           \A i \in DOMAIN h : h[i].at < s.at
    PROVE  /\ Kept(h, s) \in Seq(Samples)
           /\ InOrder(Kept(h, s))
           /\ \A i \in DOMAIN Kept(h, s) : Kept(h, s)[i].at <= s.at
<1>1. s.at \in Nat /\ \A i \in DOMAIN h : h[i].at \in Nat
  BY SampleTypes DEF Samples
<1>2. ~Seen(h, s)
  BY <1>1 DEF Seen
<1>3. CASE Len(h) < HistoryLimit
  <2>1. Kept(h, s) = Append(h, s)
    BY <1>2, <1>3 DEF Kept
  <2>2. QED BY <2>1, AppendInOrder
<1>4. CASE ~(Len(h) < HistoryLimit)
  <2>1. Kept(h, s) = Append(Tail(h), s)
    BY <1>2, <1>4 DEF Kept
  <2>2. HistoryLimit \in Nat \ {0} /\ h # <<>>
    BY <1>4, LimitsAssumption
  <2> DEFINE t == Tail(h)
  <2>3. /\ t \in Seq(Samples) /\ DOMAIN t = 1..Len(h) - 1
        /\ \A i \in 1..Len(h) - 1 : t[i] = h[i + 1]
    BY <2>2
  <2>4. t \in Seq(Samples) /\ Kept(h, s) = Append(t, s)
    BY <2>1, <2>3
  <2> HIDE DEF t
  <2>5. InOrder(t)
    <3> SUFFICES ASSUME NEW i \in DOMAIN t, NEW j \in DOMAIN t, i < j
                 PROVE  t[i].at < t[j].at
      BY DEF InOrder
    <3>1. i + 1 \in DOMAIN h /\ j + 1 \in DOMAIN h /\ i + 1 < j + 1
      BY <2>3
    <3>2. h[i + 1].at < h[j + 1].at
      BY <3>1 DEF InOrder
    <3>3. QED BY <3>2, <2>3
  <2>6. \A i \in DOMAIN t : t[i].at < s.at
    BY <2>3
  <2>7. QED BY <2>4, <2>5, <2>6, AppendInOrder
<1>5. QED BY <1>3, <1>4

\* A sample among the last of a history is known: it is not kept twice.
LEMMA KeptRecent ==
    ASSUME NEW h \in Seq(Samples), NEW i \in DOMAIN h, i > Len(h) - Recent
    PROVE  Kept(h, h[i]) = h
  BY DEF Seen, Kept

\* A consumed event keeps the history typed and in order.
LEMMA ConsumeHistory ==
    ASSUME TypeOK, HistoryInv, NEW c \in Containers, NEW at \in Int, NEW level \in 0..2,
           Consume(c, at, level)
    PROVE  /\ newest' \in [Containers -> Int]
           /\ history' \in [Containers -> Seq(Samples)]
           /\ HistoryInv'
<1> DEFINE s == [at |-> at, level |-> level]
           h == history[c]
           k == Kept(h, s)
<1>1. newest[c] \in Int /\ newest[c] >= -1 /\ newest[c] < at
  BY DEF TypeOK, HistoryInv, Consume
<1>2. s \in Samples /\ s.at = at
  BY <1>1 DEF Samples
<1>3. h \in Seq(Samples) /\ InOrder(h) /\ \A i \in DOMAIN h : h[i].at <= newest[c]
  BY DEF TypeOK, HistoryInv
<1>4. \A i \in DOMAIN h : h[i].at < s.at
  BY <1>1, <1>2, <1>3, SampleTypes
<1>5. history' = [history EXCEPT ![c] = k] /\ newest' = [newest EXCEPT ![c] = at]
  BY DEF Consume
<1> HIDE DEF s, h
<1>6. k \in Seq(Samples) /\ InOrder(k) /\ \A i \in DOMAIN k : k[i].at <= at
  BY <1>2, <1>3, <1>4, KeptNew
<1> HIDE DEF k
<1>7. newest' \in [Containers -> Int] /\ history' \in [Containers -> Seq(Samples)]
  BY <1>5, <1>6 DEF TypeOK
<1>8. \A d \in Containers : /\ history'[d] = IF d = c THEN k ELSE history[d]
                            /\ newest'[d] = IF d = c THEN at ELSE newest[d]
  BY <1>5 DEF TypeOK
<1>9. HistoryInv'
  <2> SUFFICES ASSUME NEW d \in Containers
               PROVE  /\ newest'[d] >= -1
                      /\ InOrder(history'[d])
                      /\ \A i \in DOMAIN history'[d] : history'[d][i].at <= newest'[d]
    BY DEF HistoryInv, InOrder
  <2>1. CASE d = c
    BY <2>1, <1>1, <1>6, <1>8
  <2>2. CASE d # c
    BY <2>2, <1>8 DEF HistoryInv
  <2>3. QED BY <2>1, <2>2
<1>10. QED BY <1>7, <1>9

\* An event delivered again leaves the history as it is.
LEMMA RedeliverHistory ==
    ASSUME TypeOK, NEW c \in Containers, Redeliver(c)
    PROVE  history' = history
<1>1. history[c] \in Seq(Samples)
  BY DEF TypeOK
<1>2. PICK i \in DOMAIN history[c] :
        /\ i > Len(history[c]) - Recent
        /\ history' = [history EXCEPT ![c] = Kept(history[c], history[c][i])]
  BY DEF Redeliver
<1>3. Kept(history[c], history[c][i]) = history[c]
  BY <1>1, <1>2, KeptRecent
<1>4. QED BY <1>2, <1>3 DEF TypeOK

-------------------------------------------------------------------------------
(***************************************************************************)
(* The rule.                                                               *)
(***************************************************************************)

\* In a history in order, the samples of a trailing run are as many as their
\* places, each is at the threshold and close to the next, and the last sample is
\* one of them.
LEMMA TrailingRun ==
    ASSUME NEW h \in Seq(Samples), InOrder(h), NEW n \in Nat,
           NEW R, R = trailing_run(h, n), R # {}
    PROVE  /\ Cardinality({h[i] : i \in R}) = Cardinality(R)
           /\ \A i \in R : h[i].level >= n
           /\ \A i \in R : i < Len(h) => i + 1 \in R /\ h[i + 1].at - h[i].at \in 1..Gap
           /\ Len(h) \in R
<1>1. R \subseteq 1..Len(h) /\ Len(h) \in Nat
  BY DEF trailing_run
<1>2. \A i \in DOMAIN h : h[i].at \in Nat /\ h[i].level \in 0..2
  BY SampleTypes
<1>3. Gap \in Nat
  BY LimitsAssumption
<1>4. \A i \in R : /\ h[i].level >= n
                   /\ \A j \in 1..Len(h) : i < j => j \in R
  <2> SUFFICES ASSUME NEW i \in R
               PROVE  h[i].level >= n /\ \A j \in 1..Len(h) : i < j => j \in R
    OBVIOUS
  <2>1. h[i].level >= n
    BY <1>1, <1>2 DEF trailing_run
  <2>2. ASSUME NEW j \in 1..Len(h), i < j PROVE j \in R
    <3>1. h[i].at < h[j].at
      BY <2>2, <1>1 DEF InOrder
    <3>2. \A m \in DOMAIN h : h[m].at >= h[j].at => h[m].at >= h[i].at
      BY <3>1, <1>1, <1>2
    <3>3. \A m \in DOMAIN h : h[m].at >= h[i].at =>
            /\ h[m].level >= n
            /\ h[m].at > h[i].at =>
                 \E k \in DOMAIN h : h[k].at < h[m].at /\ h[m].at - h[k].at <= Gap
      BY DEF trailing_run
    <3>4. \A m \in DOMAIN h : h[m].at >= h[j].at =>
            /\ h[m].level >= n
            /\ h[m].at > h[j].at =>
                 \E k \in DOMAIN h : h[k].at < h[m].at /\ h[m].at - h[k].at <= Gap
      <4> TAKE m \in DOMAIN h
      <4> HAVE h[m].at >= h[j].at
      <4>1. h[m].at > h[i].at
        BY <3>1, <1>1, <1>2
      <4>2. QED BY <4>1, <3>2, <3>3
    <3>5. QED BY <3>4, <1>1 DEF trailing_run
  <2>3. QED BY <2>1, <2>2
<1>5. \A i \in R : i < Len(h) => i + 1 \in R /\ h[i + 1].at - h[i].at \in 1..Gap
  <2> SUFFICES ASSUME NEW i \in R, i < Len(h)
               PROVE  i + 1 \in R /\ h[i + 1].at - h[i].at \in 1..Gap
    OBVIOUS
  <2>1. i + 1 \in 1..Len(h) /\ h[i].at < h[i + 1].at
    BY <1>1 DEF InOrder
  <2>2. PICK k \in DOMAIN h : h[k].at < h[i + 1].at /\ h[i + 1].at - h[k].at <= Gap
    BY <2>1, <1>1, <1>2 DEF trailing_run
  <2>3. h[k].at <= h[i].at
    <3>1. k \in Nat /\ i \in Nat /\ h[i].at \in Nat /\ h[k].at \in Nat /\ h[i + 1].at \in Nat
      BY <2>1, <2>2, <1>1, <1>2
    <3>2. k < i \/ k = i \/ k = i + 1 \/ i + 1 < k
      BY <3>1
    <3>3. CASE k < i
      BY <3>1, <3>3, <1>1 DEF InOrder
    <3>4. CASE i + 1 < k
      <4>1. h[i + 1].at < h[k].at
        BY <2>1, <3>4, <1>1 DEF InOrder
      <4>2. QED BY <4>1, <3>1, <2>2
    <3>5. QED BY <3>1, <3>2, <3>3, <3>4, <2>2
  <2>4. h[i + 1].at - h[i].at \in 1..Gap
    <3>1. h[i].at \in Nat /\ h[k].at \in Nat /\ h[i + 1].at \in Nat
      BY <2>1, <2>2, <1>1, <1>2
    <3>2. QED BY ONLY <3>1, <2>1, <2>2, <2>3, <1>3
  <2>5. i + 1 \in R
    BY <2>1, <1>1, <1>4
  <2>6. QED BY <2>4, <2>5
<1>6. Len(h) \in R
  BY <1>1, <1>4
<1>7. Cardinality({h[i] : i \in R}) = Cardinality(R)
  <2> DEFINE g == [i \in R |-> h[i]]
             T == {h[i] : i \in R}
  <2>1. IsFiniteSet(R)
    <3>1. IsFiniteSet(1..Len(h))
      BY <1>1, FS_Interval
    <3>2. QED BY <3>1, <1>1, FS_Subset
  <2>2. \A i, j \in R : h[i] = h[j] => i = j
    BY <1>1, <1>2 DEF InOrder
  <2>3. g \in Injection(R, T)
    BY <2>2 DEF Injection, IsInjective
  <2>4. g \in Surjection(R, T)
    BY DEF Surjection
  <2>5. ExistsBijection(R, T)
    BY <2>3, <2>4 DEF ExistsBijection, Bijection
  <2>6. QED BY <2>1, <2>5, FS_Bijection
<1>8. QED BY <1>4, <1>5, <1>6, <1>7
\* What the rule finds is typed, and has a sustained run as its evidence.
LEMMA FindingIsSustained ==
    ASSUME TypeOK, HistoryInv, NEW c \in Containers, ~Stale(history[c]), Above(c) # {}
    PROVE  memory_finding(c) \in MemoryFindings /\ SustainedRun(memory_finding(c), now)
<1> DEFINE h == history[c]
           s == IF 2 \in Above(c) THEN 2 ELSE 1
           R == trailing_run(h, s)
           e == {h[i] : i \in R}
           f == [container |-> c, severity |-> s, evidence |-> e]
<1>1. s \in Severities /\ s \in Above(c)
  BY DEF Above, Severities
<1>2. h \in Seq(Samples) /\ InOrder(h)
  BY DEF TypeOK, HistoryInv
<1>3. Cardinality(R) >= Sustained
  BY <1>1 DEF Above, Sustains
<1>4. memory_finding(c) = f
  BY DEF memory_finding
<1>5. PICK n \in DOMAIN h : ~(now - h[n].at > Fresh)
  BY DEF Stale
<1>6. s \in Nat /\ Sustained \in Nat \ {0} /\ Fresh \in Nat /\ now \in Nat
  BY <1>1, LimitsAssumption DEF Severities, TypeOK
<1> HIDE DEF h, s
<1>7. R # {} /\ R \subseteq DOMAIN h
  <2>1. R \subseteq DOMAIN h
    BY DEF trailing_run
  <2> HIDE DEF R
  <2>2. R # {}
    BY <1>3, <1>6, FS_EmptySet
  <2>3. QED BY <2>1, <2>2
<1>8. /\ Cardinality(e) = Cardinality(R)
      /\ \A i \in R : h[i].level >= s
      /\ \A i \in R : i < Len(h) => i + 1 \in R /\ h[i + 1].at - h[i].at \in 1..Gap
      /\ Len(h) \in R
  <2> HIDE DEF R
  <2>1. QED BY <1>2, <1>6, <1>7, TrailingRun DEF R
<1> HIDE DEF R
<1>9. \A i \in DOMAIN h : h[i] \in Samples /\ h[i].at \in Nat /\ i \in 1..Len(h) /\ Len(h) \in Nat
  BY <1>2, SampleTypes
<1>10. f \in MemoryFindings
  BY <1>1, <1>7, <1>9 DEF MemoryFindings
<1>11. \A x \in e : (\E u \in e : u.at > x.at) => \E u \in e : u.at - x.at \in 1..Gap
  <2> SUFFICES ASSUME NEW i \in R, NEW j \in R, h[j].at > h[i].at
               PROVE  \E u \in e : u.at - h[i].at \in 1..Gap
    OBVIOUS
  <2>1. i < j
    BY <1>2, <1>7, <1>9 DEF InOrder
  <2>2. i < Len(h)
    BY <2>1, <1>7, <1>9
  <2>3. QED BY <2>2, <1>8
<1>12. \E x \in e : now - x.at <= Fresh
  <2>1. h[n].at <= h[Len(h)].at
    BY <1>2, <1>5, <1>9 DEF InOrder
  <2>2. now - h[Len(h)].at <= Fresh
    BY <2>1, <1>5, <1>6, <1>7, <1>8, <1>9
  <2>3. QED BY <2>2, <1>8
<1>13. SustainedRun(f, now)
  <2>1. f.evidence = e /\ f.severity = s
    OBVIOUS
  <2> HIDE DEF f, e
  <2>2. \A x \in e : x.level >= s
    BY <1>8 DEF e
  <2>3. QED BY <1>3, <1>8, <1>11, <1>12, <2>1, <2>2 DEF SustainedRun
<1>14. QED BY <1>4, <1>10, <1>13

\* A pass goes through the findings one by one: they are finitely many.
LEMMA FindingsListed ==
    ASSUME TypeOK
    PROVE  SetToSeq(Findings) \in Seq(Findings)
<1> DEFINE D == {d \in Containers : ~Stale(history[d]) /\ Above(d) # {}}
           F == [c \in D |-> memory_finding(c)]
           n == Cardinality(Findings)
<1>1. IsFiniteSet(D)
  BY ContainersAssumption, FS_Subset
<1>2. Findings = {memory_finding(c) : c \in D}
  BY DEF Findings
<1> HIDE DEF D
<1>3. F \in Surjection(D, Findings)
  BY <1>2 DEF Surjection
<1>4. IsFiniteSet(Findings)
  BY <1>1, <1>3, FS_Surjection
<1>5. n \in Nat /\ ExistsBijection(1..n, Findings)
  BY <1>4, FS_CardinalityType
<1>6. \E f \in [1..n -> Findings] : IsInjective(f)
  BY <1>5 DEF ExistsBijection, Bijection, Injection
<1>7. SetToSeq(Findings) \in [1..n -> Findings]
  BY <1>6 DEF SetToSeq
<1>8. QED BY <1>5, <1>7

-------------------------------------------------------------------------------
(***************************************************************************)
(* The steps: types, history and pass.                                     *)
(***************************************************************************)

\* The finding being handled is one.
LEMMA CurrentTyped ==
    ASSUME TypeOK, PassInv, pc # "waiting"
    PROVE  /\ next \in DOMAIN findings /\ next \in 1..Len(findings)
           /\ Current \in MemoryFindings
           /\ Current.container \in Containers
           /\ KeyOf(Current) \in Keys
<1>1. next \in DOMAIN findings /\ next \in 1..Len(findings) /\ Current \in MemoryFindings
  BY DEF TypeOK, PassInv, Current
<1>2. Current.container \in Containers /\ Current.severity \in Severities
  BY <1>1 DEF MemoryFindings
<1>3. QED BY <1>1, <1>2 DEF KeyOf, Keys

\* What a pass has found is typed, and sustained.
LEMMA EvaluateFinds ==
    ASSUME TypeOK, HistoryInv, Evaluate
    PROVE  /\ findings' \in Seq(MemoryFindings)
           /\ \A k \in DOMAIN findings' : SustainedRun(findings'[k], now)
<1>1. findings' \in Seq(Findings)
  BY FindingsListed DEF Evaluate
<1>2. \A f \in Findings : f \in MemoryFindings /\ SustainedRun(f, now)
  BY FindingIsSustained DEF Findings
<1>3. \A k \in DOMAIN findings' : findings'[k] \in Findings
  BY <1>1
<1>4. findings' \in Seq(MemoryFindings)
  BY <1>1, <1>2
<1>5. QED BY <1>2, <1>3, <1>4

\* A produced incident is typed, and is the last one.
LEMMA ProduceAppends ==
    ASSUME TypeOK, PassInv, Produce, queue < QueueLimit
    PROVE  LET n == Len(incidents) + 1 IN
           /\ incidents' \in Seq(Rows)
           /\ Len(incidents') = n /\ DOMAIN incidents' = 1..n /\ DOMAIN incidents = 1..n - 1
           /\ n \in Nat \ {0}
           /\ \A i \in 1..n - 1 : incidents'[i] = incidents[i]
           /\ incidents'[n] = [finding |-> Current, fired |-> fired, detected |-> now,
                               labels |-> labels, boot |-> boot, row |-> FALSE]
<1> DEFINE e == [finding |-> Current, fired |-> fired, detected |-> now,
                 labels |-> labels, boot |-> boot, row |-> FALSE]
<1>1. Current \in MemoryFindings
  BY CurrentTyped DEF Produce
<1>2. e \in Rows
  BY <1>1 DEF Rows, TypeOK
<1>3. incidents' = Append(incidents, e)
  BY DEF Produce
<1> HIDE DEF e
<1>4. incidents \in Seq(Rows)
  BY DEF TypeOK
<1> SUFFICES LET n == Len(incidents) + 1 IN
             /\ incidents' \in Seq(Rows)
             /\ Len(incidents') = n /\ DOMAIN incidents' = 1..n /\ DOMAIN incidents = 1..n - 1
             /\ n \in Nat \ {0}
             /\ \A i \in 1..n - 1 : incidents'[i] = incidents[i]
             /\ incidents'[n] = e
  BY DEF e
<1>5. QED BY <1>2, <1>3, <1>4

\* Inserting its row changes nothing else of an incident.
LEMMA InsertMarks ==
    ASSUME TypeOK, PassInv, Insert
    PROVE  /\ incidents' \in Seq(Rows)
           /\ DOMAIN incidents' = DOMAIN incidents /\ Len(incidents') = Len(incidents)
           /\ \A i \in DOMAIN incidents :
                /\ incidents'[i].finding = incidents[i].finding
                /\ incidents'[i].fired = incidents[i].fired
                /\ incidents'[i].detected = incidents[i].detected
                /\ incidents'[i].labels = incidents[i].labels
                /\ incidents'[i].boot = incidents[i].boot
<1> DEFINE n == Len(incidents)
           e == [incidents[n] EXCEPT !.row = conn]
<1>1. incidents \in Seq(Rows) /\ n \in DOMAIN incidents /\ incidents[n] \in Rows
  BY DEF TypeOK, PassInv, Insert
<1>2. /\ e \in Rows
      /\ e.finding = incidents[n].finding /\ e.fired = incidents[n].fired
      /\ e.detected = incidents[n].detected /\ e.labels = incidents[n].labels
      /\ e.boot = incidents[n].boot
  BY <1>1 DEF Rows, TypeOK
<1>3. incidents' = [incidents EXCEPT ![n] = e]
  BY DEF Insert
<1> HIDE DEF e
<1>4. incidents' \in Seq(Rows) /\ DOMAIN incidents' = DOMAIN incidents /\ Len(incidents') = n
  BY <1>1, <1>2, <1>3
<1>5. \A i \in DOMAIN incidents : incidents'[i] = IF i = n THEN e ELSE incidents[i]
  BY <1>1, <1>3
<1>6. QED BY <1>2, <1>4, <1>5
\* Every step keeps the types, and the histories in order.
LEMMA TypeStep ==
    ASSUME TypeOK, HistoryInv, PassInv, [Next]_vars
    PROVE  TypeOK' /\ HistoryInv'
<1> DEFINE Goal == TypeOK' /\ HistoryInv'
<1> SUFFICES Goal
  OBVIOUS
<1>1. CASE Tick
  BY <1>1 DEF Tick, world, TypeOK, HistoryInv
<1>2. ASSUME NEW c \in Containers, NEW at \in Int, NEW level \in 0..2, Consume(c, at, level)
      PROVE  Goal
  <2>1. newest' \in [Containers -> Int] /\ history' \in [Containers -> Seq(Samples)] /\ HistoryInv'
    BY <1>2, ConsumeHistory
  <2>2. QED BY <1>2, <2>1 DEF Consume, evaluator, TypeOK
<1>3. ASSUME NEW c \in Containers, Redeliver(c) PROVE Goal
  <2>1. UNCHANGED history
    BY <1>3, RedeliverHistory
  <2>2. faults' \in Nat
    BY <1>3 DEF Redeliver, Fault, TypeOK
  <2>3. QED BY <1>3, <2>1, <2>2 DEF Redeliver, evaluator, TypeOK, HistoryInv
<1>4. CASE Evaluate
  <2>1. findings' \in Seq(MemoryFindings)
    BY <1>4, EvaluateFinds
  <2>2. QED BY <1>4, <2>1 DEF Evaluate, world, TypeOK, HistoryInv, Points
<1>5. CASE Suppress
  BY <1>5 DEF Suppress, Proceed, world, TypeOK, HistoryInv, Points
<1>6. CASE Fire
  <2>1. KeyOf(Current) \in Keys
    BY <1>6, CurrentTyped DEF Fire
  <2>2. last_fired' \in [Keys -> Int]
    BY <1>6, <2>1 DEF Fire, TypeOK
  <2>3. labels' \in SUBSET Flags
    BY <1>6 DEF Fire, OpenFaultLabels
  <2>4. QED BY <1>6, <2>2, <2>3 DEF Fire, world, TypeOK, HistoryInv, Points
<1>7. CASE Produce
  <2>1. incidents' \in Seq(Rows)
    BY <1>7, ProduceAppends DEF Produce, TypeOK
  <2>2. QED BY <1>7, <2>1 DEF Produce, world, TypeOK, HistoryInv, Points
<1>8. CASE Insert
  <2>1. incidents' \in Seq(Rows)
    BY <1>8, InsertMarks
  <2>2. QED BY <1>8, <2>1 DEF Insert, Proceed, world, TypeOK, HistoryInv, Points
<1>9. ASSUME NEW f \in Flags, Open(f) \/ Close(f) PROVE Goal
  <2>1. windows[f] \in Windows /\ now \in Int
    BY DEF TypeOK
  <2>2. /\ \A a \in Aims : [opened |-> now, ended |-> -1, aim |-> a] \in Windows
        /\ [windows[f] EXCEPT !.ended = now] \in Windows
    BY <2>1 DEF Windows
  <2>3. windows' \in [Flags -> Windows]
    BY <1>9, <2>2 DEF Open, Close, TypeOK
  <2>4. QED BY <1>9, <2>3 DEF Open, Close, evaluator, TypeOK, HistoryInv
<1>10. CASE BrokerTakes
  BY <1>10 DEF BrokerTakes, world, evaluator, TypeOK, HistoryInv
<1>11. CASE Disconnect
  <2>1. faults' \in Nat
    BY <1>11 DEF Disconnect, Fault, TypeOK
  <2>2. QED BY <1>11, <2>1 DEF Disconnect, world, evaluator, TypeOK, HistoryInv
<1>12. CASE Restart
  <2>1. history' \in [Containers -> Seq(Samples)] /\ \A c \in Containers : history'[c] = <<>>
    BY <1>12 DEF Restart
  <2>2. TypeOK'
    <3>1. faults' \in Nat /\ boot' \in Nat /\ last_fired' \in [Keys -> Int]
      BY <1>12 DEF Restart, Fault, TypeOK
    <3>2. /\ due' \in BOOLEAN /\ pc' \in Points /\ next' \in Nat /\ fired' \in Nat
          /\ labels' \in SUBSET Flags /\ conn' \in BOOLEAN /\ queue' \in Nat
      BY <1>12 DEF Restart, Points
    <3>3. findings' \in Seq(MemoryFindings)
      BY <1>12 DEF Restart
    <3>4. UNCHANGED <<now, newest, windows, incidents>>
      BY <1>12 DEF Restart
    <3>5. QED BY <2>1, <3>1, <3>2, <3>3, <3>4 DEF TypeOK
  <2>3. HistoryInv'
    BY <1>12, <2>1 DEF Restart, HistoryInv, InOrder
  <2>4. QED BY <2>2, <2>3
<1>13. CASE UNCHANGED vars
  BY <1>13 DEF vars, world, evaluator, TypeOK, HistoryInv
<1>14. \A c \in Containers : Levels[c] \subseteq 0..2
  BY LevelsAssumption
<1>15. now \in Int /\ MaxDelay \in Int
  BY LimitsAssumption DEF TypeOK
<1> HIDE DEF Goal
<1>16. QED
  BY <1>1, <1>2, <1>3, <1>4, <1>5, <1>6, <1>7, <1>8, <1>9, <1>10, <1>11, <1>12, <1>13, <1>14, <1>15
     DEF Next, Consumer, Evaluator, Operator

\* The evaluator goes from finding to finding and stops after the last.
LEMMA PassStep ==
    ASSUME TypeOK, PassInv, [Next]_vars
    PROVE  PassInv'
<1>1. CASE Evaluate
  <2>1. findings' \in Seq(Findings)
    BY <1>1, FindingsListed DEF Evaluate
  <2>2. pc' # "waiting" => 1 \in DOMAIN findings'
    BY <1>1, <2>1 DEF Evaluate
  <2>3. next' = 1 /\ pc' # "insert"
    BY <1>1 DEF Evaluate
  <2>4. QED BY <2>2, <2>3 DEF PassInv
<1>2. CASE Suppress \/ Insert
  <2>1. next \in 1..Len(findings) /\ Len(findings) \in Nat /\ UNCHANGED findings
    BY <1>2, CurrentTyped DEF Suppress, Insert, TypeOK
  <2>2. next' = next + 1 /\ pc' = IF next = Len(findings) THEN "waiting" ELSE "cooldown"
    BY <1>2 DEF Suppress, Insert, Proceed
  <2>3. pc' # "waiting" => next' \in DOMAIN findings'
    BY <2>1, <2>2 DEF TypeOK
  <2>4. QED BY <2>2, <2>3 DEF PassInv
<1>3. CASE Fire
  BY <1>3 DEF Fire, PassInv
<1>4. CASE Produce
  <2>1. CASE queue < QueueLimit
    <3>1. /\ incidents' # <<>>
          /\ LET i == incidents'[Len(incidents')]
             IN  i.finding = Current /\ i.fired = fired /\ i.boot = boot
      BY <1>4, <2>1, ProduceAppends
    <3>2. Current' = Current /\ UNCHANGED <<findings, next, fired, boot>> /\ pc # "waiting"
      BY <1>4 DEF Produce, Current
    <3>3. QED BY <3>1, <3>2 DEF PassInv
  <2>2. CASE ~(queue < QueueLimit)
    BY <1>4, <2>2 DEF Produce, PassInv
  <2>3. QED BY <2>1, <2>2
<1>5. CASE Restart
  BY <1>5 DEF Restart, PassInv
<1>6. CASE UNCHANGED <<pc, findings, next, fired, incidents, boot>>
  BY <1>6 DEF PassInv, Current
<1>7. QED
  BY <1>1, <1>2, <1>3, <1>4, <1>5, <1>6
     DEF Next, Tick, Consumer, Consume, Redeliver, Evaluator, Operator, Open, Close, BrokerTakes,
         Disconnect, vars, evaluator
\* The incidents change only when one is produced or its row is inserted.
LEMMA IncidentsChange ==
    ASSUME [Next]_vars
    PROVE  UNCHANGED incidents \/ (Produce /\ queue < QueueLimit) \/ Insert
  BY DEF Next, Tick, Consumer, Consume, Redeliver, Evaluator, Evaluate, Suppress, Fire, Produce,
         Operator, Open, Close, BrokerTakes, Disconnect, Restart, vars

-------------------------------------------------------------------------------
(***************************************************************************)
(* The steps: clock and evidence.                                          *)
(***************************************************************************)

\* Time only goes forward, and what happens happens now.
LEMMA ClockStep ==
    ASSUME TypeOK, PassInv, ClockInv, [Next]_vars
    PROVE  ClockInv'
<1>1. now' \in Nat /\ now <= now' /\ now \in Nat
  <2>1. now' \in {now, now + 1}
    BY DEF Next, Tick, Consumer, Consume, Redeliver, Evaluator, Evaluate, Suppress, Fire, Produce,
           Insert, Operator, Open, Close, BrokerTakes, Disconnect, Restart, vars
  <2>2. QED BY <2>1 DEF TypeOK
<1>2. fired' <= now'
  <2>1. fired' \in {fired, now, 0}
    BY DEF Next, Tick, Consumer, Consume, Redeliver, Evaluator, Evaluate, Suppress, Fire, Produce,
           Insert, Operator, Open, Close, BrokerTakes, Disconnect, Restart, vars, evaluator
  <2>2. QED BY <1>1, <2>1 DEF ClockInv, TypeOK
<1>3. \A f \in Flags : windows'[f].opened \in -1..now' /\ windows'[f].ended \in -1..now'
  <2>1. ASSUME NEW f \in Flags, Open(f) \/ Close(f)
        PROVE  /\ windows' \in [Flags -> Windows]
               /\ \A g \in Flags :
                    /\ windows'[g].opened \in {windows[g].opened, now}
                    /\ windows'[g].ended \in {windows[g].ended, now, -1}
    <3> DEFINE opened(a) == [opened |-> now, ended |-> -1, aim |-> a]
               ended == [windows[f] EXCEPT !.ended = now]
    <3>1. windows[f] \in Windows /\ now \in Int
      BY DEF TypeOK
    <3>2. /\ \A a \in Aims :
                opened(a) \in Windows /\ opened(a).opened = now /\ opened(a).ended = -1
          /\ ended \in Windows /\ ended.ended = now /\ ended.opened = windows[f].opened
      BY <3>1 DEF Windows
    <3>3. \/ \E a \in Aims : windows' = [windows EXCEPT ![f] = opened(a)]
          \/ windows' = [windows EXCEPT ![f] = ended]
      BY <2>1 DEF Open, Close
    <3> HIDE DEF opened, ended
    <3>4. QED BY <3>2, <3>3 DEF TypeOK
  <2>2. CASE UNCHANGED windows
    BY <2>2, <1>1 DEF ClockInv
  <2>3. CASE Operator
    BY <2>3, <2>1, <1>1 DEF ClockInv, Operator
  <2>4. QED
    BY <2>2, <2>3
       DEF Next, Tick, Consumer, Consume, Redeliver, Evaluator, Evaluate, Suppress, Fire, Produce,
           Insert, BrokerTakes, Disconnect, Restart, vars, world
<1>4. \A i \in DOMAIN incidents' :
        incidents'[i].fired <= incidents'[i].detected /\ incidents'[i].detected <= now'
  <2>1. \A i \in DOMAIN incidents : incidents[i].detected \in Nat
    <3>1. \A i \in DOMAIN incidents : incidents[i] \in Rows
      BY DEF TypeOK
    <3>2. QED BY <3>1 DEF Rows
  <2>2. CASE UNCHANGED incidents
    BY <2>1, <2>2, <1>1 DEF ClockInv
  <2>3. CASE Produce /\ queue < QueueLimit
    <3> DEFINE n == Len(incidents) + 1
    <3>1. /\ DOMAIN incidents' = 1..n /\ DOMAIN incidents = 1..n - 1 /\ n \in Nat \ {0}
          /\ \A i \in 1..n - 1 : incidents'[i] = incidents[i]
          /\ incidents'[n].fired = fired /\ incidents'[n].detected = now
      BY <2>3, ProduceAppends
    <3> HIDE DEF n
    <3>2. QED BY <2>1, <3>1, <1>1 DEF ClockInv
  <2>4. CASE Insert
    BY <2>1, <2>4, <1>1, InsertMarks DEF ClockInv
  <2>5. QED BY <2>2, <2>3, <2>4, IncidentsChange
<1>5. faults' = 0 => conn'
  <2>1. ASSUME Fault PROVE faults' # 0
    BY <2>1 DEF Fault, TypeOK
  <2>2. CASE UNCHANGED <<faults, conn>>
    BY <2>2 DEF ClockInv
  <2>3. QED
    BY <2>1, <2>2
       DEF Next, Tick, Consumer, Consume, Redeliver, Evaluator, Evaluate, Suppress, Fire, Produce,
           Insert, Operator, Open, Close, BrokerTakes, Disconnect, Restart, vars
<1>6. QED BY <1>2, <1>3, <1>4, <1>5 DEF ClockInv

\* A pass looks for runs once, and an incident takes over what the pass found.
LEMMA EvidenceStep ==
    ASSUME TypeOK, HistoryInv, PassInv, EvidenceInv, [Next]_vars
    PROVE  EvidenceInv'
<1>1. \A k \in DOMAIN findings' : SustainedRun(findings'[k], fired')
  <2>1. CASE Evaluate
    <3>1. \A k \in DOMAIN findings' : SustainedRun(findings'[k], now)
      BY <2>1, EvaluateFinds
    <3>2. fired' = now
      BY <2>1 DEF Evaluate
    <3>3. QED BY <3>1, <3>2
  <2>2. CASE Restart
    BY <2>2 DEF Restart
  <2>3. CASE UNCHANGED <<findings, fired>>
    BY <2>3 DEF EvidenceInv
  <2>4. QED
    BY <2>1, <2>2, <2>3
       DEF Next, Tick, Consumer, Consume, Redeliver, Evaluator, Suppress, Fire, Produce, Insert,
           Operator, Open, Close, BrokerTakes, Disconnect, vars, evaluator
<1>2. \A i \in DOMAIN incidents' : SustainedRun(incidents'[i].finding, incidents'[i].fired)
  <2>1. CASE UNCHANGED incidents
    BY <2>1 DEF EvidenceInv
  <2>2. CASE Produce /\ queue < QueueLimit
    <3> DEFINE n == Len(incidents) + 1
    <3>1. /\ DOMAIN incidents' = 1..n /\ DOMAIN incidents = 1..n - 1 /\ n \in Nat \ {0}
          /\ \A i \in 1..n - 1 : incidents'[i] = incidents[i]
          /\ incidents'[n].finding = Current /\ incidents'[n].fired = fired
      BY <2>2, ProduceAppends
    <3> HIDE DEF n
    <3>2. SustainedRun(Current, fired)
      BY <2>2, CurrentTyped DEF Produce, EvidenceInv, Current
    <3>3. QED BY <3>1, <3>2 DEF EvidenceInv
  <2>3. CASE Insert
    BY <2>3, InsertMarks DEF EvidenceInv
  <2>4. QED BY <2>1, <2>2, <2>3, IncidentsChange
<1>3. QED BY <1>1, <1>2 DEF EvidenceInv, SustainedRun
-------------------------------------------------------------------------------
(***************************************************************************)
(* The steps: cooldown and labels.                                         *)
(***************************************************************************)

\* What CooldownInv compares is typed.
LEMMA IncidentTypes ==
    ASSUME TypeOK
    PROVE  \A i \in DOMAIN incidents :
             /\ incidents[i].fired \in Nat /\ incidents[i].detected \in Nat
             /\ incidents[i].boot \in Nat
             /\ incidents[i].finding.container \in Containers
             /\ KeyOf(incidents[i].finding) \in Keys
<1>1. \A i \in DOMAIN incidents : incidents[i] \in Rows
  BY DEF TypeOK
<1>2. \A i \in DOMAIN incidents : incidents[i].finding \in MemoryFindings
  BY <1>1 DEF Rows
<1>3. \A f \in MemoryFindings : f.container \in Containers /\ KeyOf(f) \in Keys
  BY DEF MemoryFindings, KeyOf, Keys
<1>4. QED BY <1>1, <1>2, <1>3 DEF Rows

\* A finding whose cooldown is over comes at least a cooldown after every
\* incident of its key.
LEMMA FireStartsCooldown ==
    ASSUME TypeOK, PassInv, ClockInv, CooldownInv, Fire
    PROVE  CooldownInv'
<1> DEFINE K == KeyOf(Current)
           t == last_fired[K]
<1>1. K \in Keys /\ t \in Int /\ fired \in Nat /\ Cooldown \in Nat \ {0}
  BY CurrentTyped, LimitsAssumption DEF Fire, TypeOK
<1>2. t < 0 \/ fired - t >= Cooldown
  BY <1>1 DEF Fire, Cooling
<1>3. \A i \in DOMAIN incidents : Reports(i, K) => incidents[i].fired <= t
  BY <1>1 DEF CooldownInv
<1>4. \A i \in DOMAIN incidents : Reports(i, K) => fired - incidents[i].fired >= Cooldown
  BY <1>1, <1>2, <1>3, IncidentTypes
<1>5. /\ pc' = "save" /\ last_fired' = [last_fired EXCEPT ![K] = fired]
      /\ UNCHANGED <<findings, next, fired, incidents, boot>>
  BY DEF Fire
<1>6. /\ \A k \in Keys : last_fired'[k] = IF k = K THEN fired ELSE last_fired[k]
      /\ KeyOf(Current)' = K
  BY <1>1, <1>5 DEF TypeOK, Current
<1>7. \A i, k : Reports(i, k)' <=> Reports(i, k)
  BY <1>5 DEF Reports
<1> HIDE DEF K, t
<1>8. \A k \in Keys, i \in DOMAIN incidents : Reports(i, k) => incidents[i].fired <= last_fired'[k]
  BY <1>1, <1>4, <1>6, IncidentTypes DEF CooldownInv
<1>9. \A k \in Keys : last_fired'[k] >= 0 =>
        k = K \/ \E i \in DOMAIN incidents : Reports(i, k) /\ incidents[i].fired = last_fired'[k]
  <2> TAKE k \in Keys
  <2> HAVE last_fired'[k] >= 0
  <2> SUFFICES ASSUME k # K
               PROVE  \E i \in DOMAIN incidents :
                         Reports(i, k) /\ incidents[i].fired = last_fired'[k]
    OBVIOUS
  <2>1. last_fired[k] >= 0 /\ last_fired'[k] = last_fired[k]
    BY <1>6
  <2>2. QED BY <2>1 DEF CooldownInv, Fire
<1>10. QED BY <1>1, <1>4, <1>5, <1>6, <1>7, <1>8, <1>9 DEF CooldownInv
\* The incident of a finding is one of its key, as late as last_fired says, and a
\* cooldown after the others of its key.
LEMMA ProduceReports ==
    ASSUME TypeOK, PassInv, CooldownInv, OncePerCooldown, Produce
    PROVE  CooldownInv' /\ OncePerCooldown'
<1> DEFINE K == KeyOf(Current)
<1>1. K \in Keys /\ fired \in Nat /\ last_fired[K] = fired /\ boot \in Nat
  BY CurrentTyped DEF Produce, TypeOK, CooldownInv
<1>2. UNCHANGED <<findings, next, fired, last_fired, boot>> /\ KeyOf(Current)' = K /\ pc = "save"
  BY DEF Produce, Current
<1>3. \A k \in Keys : last_fired[k] >= 0 =>
        k = K \/ \E i \in DOMAIN incidents : Reports(i, k) /\ incidents[i].fired = last_fired[k]
  BY <1>2 DEF CooldownInv
<1>4. CASE ~(queue < QueueLimit)
  <2>1. UNCHANGED incidents /\ pc' = "dead"
    BY <1>4 DEF Produce
  <2>2. \A i, k : Reports(i, k)' <=> Reports(i, k)
    BY <1>2, <2>1 DEF Reports
  <2> HIDE DEF K
  <2>3. QED BY <1>2, <1>3, <2>1, <2>2 DEF CooldownInv, OncePerCooldown
<1>5. CASE queue < QueueLimit
  <2> PICK n \in Nat : n = Len(incidents) + 1
    BY DEF TypeOK
  <2>1. /\ DOMAIN incidents' = 1..n /\ DOMAIN incidents = 1..n - 1 /\ n \in Nat \ {0}
        /\ \A i \in 1..n - 1 : incidents'[i] = incidents[i]
        /\ incidents'[n].finding = Current /\ incidents'[n].fired = fired
        /\ incidents'[n].boot = boot
    BY <1>5, ProduceAppends
  <2>2. pc' = "insert"
    BY <1>5 DEF Produce
  <2>3. \A i \in DOMAIN incidents : Reports(i, K) => fired - incidents[i].fired >= Cooldown
    BY <1>2 DEF CooldownInv
  <2>4. /\ \A i \in 1..n - 1, k \in Keys : Reports(i, k)' <=> Reports(i, k)
        /\ \A k \in Keys : Reports(n, k)' <=> k = K
    BY <1>2, <2>1 DEF Reports
  <2>5. OncePerCooldown'
    <3> SUFFICES ASSUME NEW i \in 1..n, NEW j \in 1..n, i < j,
                        incidents'[i].boot = incidents'[j].boot,
                        KeyOf(incidents'[i].finding) = KeyOf(incidents'[j].finding)
                 PROVE  incidents'[j].fired - incidents'[i].fired >= Cooldown
      BY <2>1 DEF OncePerCooldown, KeyOf
    <3>1. CASE j < n
      BY <3>1, <2>1 DEF OncePerCooldown
    <3>2. CASE j = n
      BY <3>2, <2>1, <2>3 DEF Reports
    <3>3. QED BY <3>1, <3>2, <2>1
  <2>6. CooldownInv'
    <3> HIDE DEF K
    <3>1. \A i \in DOMAIN incidents' : incidents'[i].boot <= boot'
      BY <1>1, <1>2, <2>1 DEF CooldownInv
    <3>2. \A k \in Keys, i \in DOMAIN incidents' :
            Reports(i, k)' => incidents'[i].fired <= last_fired'[k]
      <4> TAKE k \in Keys, i \in DOMAIN incidents'
      <4>1. CASE i = n
        BY <4>1, <1>1, <1>2, <2>1, <2>4
      <4>2. CASE i # n
        BY <4>2, <1>2, <2>1, <2>4 DEF CooldownInv
      <4>3. QED BY <4>1, <4>2
    <3>3. \A k \in Keys : last_fired'[k] >= 0 =>
            \E i \in DOMAIN incidents' : Reports(i, k)' /\ incidents'[i].fired = last_fired'[k]
      <4> TAKE k \in Keys
      <4> HAVE last_fired'[k] >= 0
      <4>1. CASE k = K
        BY <4>1, <1>1, <1>2, <2>1, <2>4
      <4>2. CASE k # K
        BY <4>2, <1>2, <1>3, <2>1, <2>4
      <4>3. QED BY <4>1, <4>2
    <3>4. QED BY <2>2, <3>1, <3>2, <3>3 DEF CooldownInv
  <2>7. QED BY <2>5, <2>6
<1>6. QED BY <1>4, <1>5

\* No step brings two incidents of a key closer than the cooldown.
LEMMA CooldownStep ==
    ASSUME TypeOK, PassInv, ClockInv, CooldownInv, OncePerCooldown, [Next]_vars
    PROVE  CooldownInv' /\ OncePerCooldown'
<1> DEFINE Goal == CooldownInv' /\ OncePerCooldown'
<1> SUFFICES Goal
  OBVIOUS
<1>1. CASE Evaluate \/ Suppress
  <2>1. /\ UNCHANGED <<last_fired, incidents, boot>>
        /\ pc \notin {"save", "dead"} /\ pc' # "save"
    BY <1>1 DEF Evaluate, Suppress, Proceed
  <2>2. \A i, k : Reports(i, k)' <=> Reports(i, k)
    BY <2>1 DEF Reports
  <2>3. QED BY <2>1, <2>2 DEF CooldownInv, OncePerCooldown
<1>2. CASE Fire
  <2>1. UNCHANGED incidents
    BY <1>2 DEF Fire
  <2>2. QED BY <1>2, <2>1, FireStartsCooldown DEF OncePerCooldown
<1>3. CASE Produce
  BY <1>3, ProduceReports
<1>4. CASE Insert
  <2>1. /\ UNCHANGED <<last_fired, boot>>
        /\ pc \notin {"save", "dead"} /\ pc' # "save"
    BY <1>4 DEF Insert, Proceed
  <2>2. /\ DOMAIN incidents' = DOMAIN incidents
        /\ \A i \in DOMAIN incidents :
             /\ incidents'[i].finding = incidents[i].finding
             /\ incidents'[i].fired = incidents[i].fired
             /\ incidents'[i].boot = incidents[i].boot
    BY <1>4, InsertMarks
  <2>3. \A i \in DOMAIN incidents, k \in Keys : Reports(i, k)' <=> Reports(i, k)
    BY <2>1, <2>2 DEF Reports
  <2>4. CooldownInv'
    BY <2>1, <2>2, <2>3 DEF CooldownInv
  <2>5. OncePerCooldown'
    BY <2>2 DEF OncePerCooldown, KeyOf
  <2>6. QED BY <2>4, <2>5
<1>5. CASE Restart
  <2>1. /\ UNCHANGED incidents /\ boot' = boot + 1 /\ pc' = "waiting"
        /\ \A k \in Keys : last_fired'[k] = -1
    BY <1>5 DEF Restart
  <2>2. \A i \in DOMAIN incidents : incidents[i].boot <= boot' /\ incidents[i].boot # boot'
    BY <2>1, IncidentTypes DEF CooldownInv, TypeOK
  <2>3. \A i \in DOMAIN incidents, k \in Keys : ~Reports(i, k)'
    BY <2>1, <2>2 DEF Reports
  <2>4. QED BY <2>1, <2>2, <2>3 DEF CooldownInv, OncePerCooldown
<1>6. CASE UNCHANGED <<pc, findings, next, fired, last_fired, incidents, boot>>
  <2>1. \A i, k : Reports(i, k)' <=> Reports(i, k)
    BY <1>6 DEF Reports
  <2>2. Current' = Current
    BY <1>6 DEF Current
  <2>3. QED BY <1>6, <2>1, <2>2 DEF CooldownInv, OncePerCooldown
<1> HIDE DEF Goal
<1>7. QED
  BY <1>1, <1>2, <1>3, <1>4, <1>5, <1>6
     DEF Next, Tick, Consumer, Consume, Redeliver, Evaluator, Operator, Open, Close, BrokerTakes,
         Disconnect, vars, evaluator
\* The evaluator leaves a finding with an incident of its key from this pass, or
\* from one that last_fired remembers.
LEMMA ReportedStep ==
    ASSUME TypeOK, PassInv, CooldownInv, FindingsAreReported, [Next]_vars
    PROVE  FindingsAreReported'
<1> DEFINE Reported(k) == \E i \in DOMAIN incidents : /\ Reports(i, KeyOf(findings[k]))
                                                      /\ fired - incidents[i].fired < Cooldown
<1>1. FindingsAreReported <=> \A k \in 1..next - 1 : Reported(k)
  BY DEF FindingsAreReported, Reports
<1>2. FindingsAreReported' <=> \A k \in 1..next' - 1 : Reported(k)'
  BY DEF FindingsAreReported, Reports
<1>3. next \in Nat /\ Cooldown \in Nat \ {0}
  BY LimitsAssumption DEF TypeOK
<1> SUFFICES \A k \in 1..next' - 1 : Reported(k)'
  BY <1>2
<1>4. CASE Evaluate \/ Restart
  BY <1>4 DEF Evaluate, Restart
<1>5. CASE Suppress
  <2>1. UNCHANGED <<findings, fired, incidents, boot>> /\ next' = next + 1
    BY <1>5 DEF Suppress, Proceed
  <2>2. \A k : Reported(k)' <=> Reported(k)
    BY <2>1 DEF Reports
  <2>3. Reported(next)
    <3> DEFINE K == KeyOf(Current)
    <3>1. K \in Keys /\ last_fired[K] >= 0 /\ fired - last_fired[K] < Cooldown
      BY <1>5, CurrentTyped DEF Suppress, Cooling
    <3>2. PICK i \in DOMAIN incidents : Reports(i, K) /\ incidents[i].fired = last_fired[K]
      BY <1>5, <3>1 DEF Suppress, CooldownInv
    <3>3. QED BY <3>1, <3>2 DEF Current
  <2> HIDE DEF Reported
  <2>4. QED BY <1>1, <1>3, <2>1, <2>2, <2>3
<1>6. CASE Insert
  <2>1. UNCHANGED <<findings, fired, boot>> /\ next' = next + 1
    BY <1>6 DEF Insert, Proceed
  <2>2. /\ DOMAIN incidents' = DOMAIN incidents
        /\ \A i \in DOMAIN incidents :
             /\ incidents'[i].finding = incidents[i].finding
             /\ incidents'[i].fired = incidents[i].fired
             /\ incidents'[i].boot = incidents[i].boot
    BY <1>6, InsertMarks
  <2>3. \A k : Reported(k)' <=> Reported(k)
    BY <2>1, <2>2 DEF Reports
  <2>4. Reported(next)
    <3> DEFINE n == Len(incidents)
    <3>1. n \in DOMAIN incidents /\ fired \in Nat
      BY <1>6 DEF Insert, PassInv, TypeOK
    <3>2. /\ incidents[n].finding = findings[next]
          /\ incidents[n].fired = fired /\ incidents[n].boot = boot
      BY <1>6 DEF Insert, PassInv, Current
    <3>3. QED BY <1>3, <3>1, <3>2 DEF Reports
  <2> HIDE DEF Reported
  <2>5. QED BY <1>1, <1>3, <2>1, <2>3, <2>4
<1>7. CASE Produce /\ queue < QueueLimit
  <2>1. UNCHANGED <<findings, next, fired, boot>>
    BY <1>7 DEF Produce
  <2>2. /\ DOMAIN incidents \subseteq DOMAIN incidents'
        /\ \A i \in DOMAIN incidents : incidents'[i] = incidents[i]
    BY <1>7, ProduceAppends
  <2>3. \A k : Reported(k) => Reported(k)'
    BY <2>1, <2>2 DEF Reports
  <2>4. QED BY <1>1, <2>1, <2>3
<1>8. CASE UNCHANGED <<findings, next, fired, incidents, boot>>
  <2>1. \A k : Reported(k)' <=> Reported(k)
    BY <1>8 DEF Reports
  <2>2. QED BY <1>1, <1>8, <2>1
<1> HIDE DEF Reported
<1>9. QED
  BY <1>4, <1>5, <1>6, <1>7, <1>8
     DEF Next, Tick, Consumer, Consume, Redeliver, Evaluator, Fire, Produce, Operator, Open, Close,
         BrokerTakes, Disconnect, vars, evaluator

\* Labels stay true while time passes and the evaluator does something else.
LEMMA LabelsLater ==
    ASSUME TypeOK, NEW ls, NEW c, NEW t \in Nat, NEW d \in Nat, NEW e \in Nat, d <= e,
           TrueLabels(ls, c, t, d), UNCHANGED windows, faults' = 0 => faults = 0
    PROVE  TrueLabels(ls, c, t, e)'
<1>1. \A f \in Flags : windows[f].opened \in Int /\ windows[f].ended \in Int
  <2>1. \A f \in Flags : windows[f] \in Windows
    BY DEF TypeOK
  <2>2. QED BY <2>1 DEF Windows
<1>2. QED BY <1>1 DEF TrueLabels, Expected

\* They stay true when a window opens now or ends now.
LEMMA LabelsOperator ==
    ASSUME TypeOK, ClockInv, NEW f \in Flags, Open(f) \/ Close(f),
           NEW ls, NEW c, NEW t \in Nat, NEW d \in Nat, t <= d, d <= now, TrueLabels(ls, c, t, d)
    PROVE  TrueLabels(ls, c, t, d)'
<1> DEFINE opened(a) == [opened |-> now, ended |-> -1, aim |-> a]
           ended == [windows[f] EXCEPT !.ended = now]
<1>1. \A g \in Flags : windows[g] \in Windows
  BY DEF TypeOK
<1>2. \A g \in Flags : windows[g].opened \in Int /\ windows[g].ended \in Int
  BY <1>1 DEF Windows
<1>3. now \in Nat /\ UNCHANGED faults
  BY DEF TypeOK, Open, Close
<1>4. \A a \in Aims : opened(a).opened = now
  OBVIOUS
<1>5. ended.ended = now /\ ended.opened = windows[f].opened /\ ended.aim = windows[f].aim
  BY <1>1 DEF Windows
<1>6. CASE Open(f)
  <2>1. PICK a \in Aims : windows[f].opened = -1 /\ windows' = [windows EXCEPT ![f] = opened(a)]
    BY <1>6 DEF Open
  <2> HIDE DEF opened, ended
  <2>2. \A g \in Flags : windows'[g] = IF g = f THEN opened(a) ELSE windows[g]
    BY <2>1 DEF TypeOK
  <2>3. QED BY <2>1, <2>2, <1>2, <1>3, <1>4 DEF TrueLabels, Expected
<1>7. CASE Close(f)
  <2>1. windows[f].ended = -1 /\ windows' = [windows EXCEPT ![f] = ended]
    BY <1>7 DEF Close, IsOpen
  <2> HIDE DEF opened, ended
  <2>2. \A g \in Flags : windows'[g] = IF g = f THEN ended ELSE windows[g]
    BY <2>1 DEF TypeOK
  <2>3. QED BY <2>1, <2>2, <1>2, <1>3, <1>5 DEF TrueLabels, Expected
<1>8. QED BY <1>6, <1>7

\* The labels are true of the windows they are read from.
LEMMA LabelsRead ==
    ASSUME TypeOK, ClockInv, NEW c \in Containers
    PROVE  TrueLabels(OpenFaultLabels(Infrastructure, c), c, fired, now)
<1>1. \A f \in Flags : windows[f].opened \in -1..now /\ windows[f].ended \in -1..now
  BY DEF ClockInv
<1>2. fired \in Nat /\ now \in Nat
  BY DEF TypeOK
<1>3. \A f \in Flags : Attributes(f, Infrastructure, c) <=> Expected(f, c)
  BY NoDomainAssumption DEF Attributes, Expected
<1>4. QED BY <1>1, <1>2, <1>3 DEF TrueLabels, OpenFaultLabels, IsOpen, ClockInv

\* Whatever happens to windows, connection and evaluator, labels stay true.
LEMMA LabelsStep ==
    ASSUME TypeOK, PassInv, ClockInv, LabelsInv, [Next]_vars
    PROVE  LabelsInv'
<1> DEFINE Row(i) == TrueLabels(incidents[i].labels, incidents[i].finding.container,
                                incidents[i].fired, incidents[i].detected)
           Pending == TrueLabels(labels, Current.container, fired, now)
<1>1. now \in Nat /\ fired \in Nat /\ fired <= now /\ faults \in Nat
  BY DEF TypeOK, ClockInv
<1>2. \A i \in DOMAIN incidents :
        /\ incidents[i].fired \in Nat /\ incidents[i].detected \in Nat
        /\ incidents[i].fired <= incidents[i].detected /\ incidents[i].detected <= now
        /\ Row(i)
  BY IncidentTypes DEF ClockInv, LabelsInv
<1>3. pc = "save" => Pending
  BY DEF LabelsInv
<1>4. ASSUME \A i \in DOMAIN incidents' : Row(i)', pc' = "save" => Pending'
      PROVE  LabelsInv'
  BY <1>4 DEF LabelsInv
<1>5. ASSUME NEW ls, NEW c, NEW t \in Nat, NEW d \in Nat, UNCHANGED <<windows, faults>>,
             TrueLabels(ls, c, t, d)
      PROVE  TrueLabels(ls, c, t, d)'
  BY <1>5, LabelsLater
<1> HIDE DEF Row, Pending
<1>6. CASE Operator
  <2> PICK f \in Flags : Open(f) \/ Close(f)
    BY <1>6 DEF Operator
  <2>1. UNCHANGED <<now, pc, findings, next, fired, labels, incidents>>
    BY DEF Open, Close, evaluator
  <2>2. \A i \in DOMAIN incidents : Row(i)'
    BY <2>1, <1>2, LabelsOperator DEF Row
  <2>3. pc = "save" => Pending'
    BY <2>1, <1>1, <1>3, LabelsOperator DEF Pending, Current
  <2>4. QED BY <2>1, <2>2, <2>3, <1>4
<1>7. CASE Fire
  <2>1. /\ UNCHANGED <<now, findings, next, fired, incidents, windows, faults>>
        /\ labels' = OpenFaultLabels(Infrastructure, Current.container)
    BY <1>7 DEF Fire, world
  <2>2. \A i \in DOMAIN incidents : Row(i)'
    BY <2>1, <1>2, <1>5 DEF Row
  <2>3. TrueLabels(labels', Current.container, fired, now)
    BY <1>7, <2>1, CurrentTyped, LabelsRead DEF Fire
  <2>4. Pending'
    BY <2>1, <2>3, <1>1, <1>5 DEF Pending, Current
  <2>5. QED BY <2>1, <2>2, <2>4, <1>4
<1>8. CASE Produce /\ queue < QueueLimit
  <2> PICK n \in Nat : n = Len(incidents) + 1
    BY DEF TypeOK
  <2>1. /\ DOMAIN incidents' = 1..n /\ DOMAIN incidents = 1..n - 1
        /\ \A i \in 1..n - 1 : incidents'[i] = incidents[i]
        /\ incidents'[n].finding = Current /\ incidents'[n].fired = fired
        /\ incidents'[n].detected = now /\ incidents'[n].labels = labels
    BY <1>8, ProduceAppends
  <2>2. UNCHANGED <<windows, faults>> /\ pc = "save" /\ pc' = "insert"
    BY <1>8 DEF Produce, world
  <2>3. \A i \in 1..n - 1 : Row(i)'
    BY <2>1, <2>2, <1>2, <1>5 DEF Row
  <2>4. Row(n)'
    BY <2>1, <2>2, <1>1, <1>3, <1>5 DEF Row, Pending
  <2>5. QED BY <2>1, <2>2, <2>3, <2>4, <1>4
<1>9. CASE Insert
  <2>1. UNCHANGED <<windows, faults>> /\ pc' # "save"
    BY <1>9 DEF Insert, Proceed, world
  <2>2. /\ DOMAIN incidents' = DOMAIN incidents
        /\ \A i \in DOMAIN incidents :
             /\ incidents'[i].finding = incidents[i].finding
             /\ incidents'[i].fired = incidents[i].fired
             /\ incidents'[i].detected = incidents[i].detected
             /\ incidents'[i].labels = incidents[i].labels
    BY <1>9, InsertMarks
  <2>3. \A i \in DOMAIN incidents : Row(i)'
    BY <2>1, <2>2, <1>2, <1>5 DEF Row
  <2>4. QED BY <2>1, <2>2, <2>3, <1>4
<1>10. CASE /\ UNCHANGED <<incidents, windows>> /\ (faults' = 0 => faults = 0)
            /\ now' \in {now, now + 1}
            /\ pc' = "save" => pc = "save" /\ UNCHANGED <<labels, findings, next, fired>>
  <2>1. \A i \in DOMAIN incidents : Row(i)'
    BY <1>10, <1>2, LabelsLater DEF Row
  <2>2. pc' = "save" => Pending'
    <3> HAVE pc' = "save"
    <3>1. now' \in Nat /\ now <= now'
      BY <1>10, <1>1
    <3>2. TrueLabels(labels, Current.container, fired, now)
      BY <1>3, <1>10 DEF Pending
    <3>3. QED BY <3>1, <3>2, <1>1, <1>10, LabelsLater DEF Pending, Current
  <2>3. QED BY <2>1, <2>2, <1>4, <1>10
<1>11. ASSUME Fault PROVE faults' # 0
  BY <1>1, <1>11 DEF Fault
<1>12. QED
  BY <1>6, <1>7, <1>8, <1>9, <1>10, <1>11
     DEF Next, Tick, Consumer, Consume, Redeliver, Evaluator, Evaluate, Suppress, Proceed, Produce,
         BrokerTakes, Disconnect, Restart, vars, world, evaluator

-------------------------------------------------------------------------------
(***************************************************************************)
(* The theorems.                                                           *)
(***************************************************************************)

\* An evaluator that has just started has seen and reported nothing.
LEMMA Initial ==
    ASSUME Init
    PROVE  IInv
<1>1. TypeOK
  <2>1. windows \in [Flags -> Windows]
    <3>1. NoWindow \in Windows
      BY DEF NoWindow, Windows
    <3>2. QED BY <3>1 DEF Init
  <2>2. findings \in Seq(MemoryFindings) /\ incidents \in Seq(Rows)
    BY DEF Init
  <2>3. history \in [Containers -> Seq(Samples)]
    <3>1. <<>> \in Seq(Samples)
      OBVIOUS
    <3>2. QED BY <3>1 DEF Init
  <2>4. newest \in [Containers -> Int] /\ last_fired \in [Keys -> Int]
    BY DEF Init
  <2>5. QED BY <2>1, <2>2, <2>3, <2>4 DEF Init, TypeOK, Points
<1>2. HistoryInv
  BY DEF Init, HistoryInv, InOrder
<1>3. PassInv /\ EvidenceInv
  BY DEF Init, PassInv, EvidenceInv
<1>4. ClockInv
  <2>1. NoWindow.opened = -1 /\ NoWindow.ended = -1
    BY DEF NoWindow
  <2>2. QED BY <2>1 DEF Init, ClockInv
<1>5. CooldownInv /\ OncePerCooldown /\ FindingsAreReported
  BY DEF Init, CooldownInv, OncePerCooldown, FindingsAreReported
<1>6. LabelsInv
  BY DEF Init, LabelsInv
<1>7. QED BY <1>1, <1>2, <1>3, <1>4, <1>5, <1>6 DEF IInv

\* Every step of the two threads and of their world keeps all the parts.
LEMMA StepKeepsInvariant ==
    ASSUME IInv, [Next]_vars
    PROVE  IInv'
<1>1. TypeOK' /\ HistoryInv'
  BY TypeStep DEF IInv
<1>2. PassInv' /\ ClockInv' /\ EvidenceInv'
  BY PassStep, ClockStep, EvidenceStep DEF IInv
<1>3. CooldownInv' /\ OncePerCooldown'
  BY CooldownStep DEF IInv
<1>4. FindingsAreReported' /\ LabelsInv'
  BY ReportedStep, LabelsStep DEF IInv
<1>5. QED BY <1>1, <1>2, <1>3, <1>4 DEF IInv

\* IInv holds in every reachable state, for any number of containers and faults.
THEOREM InductiveInvariant == Spec => []IInv
<1>1. QED BY Initial, StepKeepsInvariant, PTL DEF Spec

\* The variables of detect keep their types.
THEOREM TypeCorrect == Spec => []TypeOK
<1>1. IInv => TypeOK
  BY DEF IInv
<1>2. QED BY <1>1, InductiveInvariant, PTL

\* An incident rests on a run of different samples at its threshold that was long,
\* close and fresh enough, whatever was delivered twice or arrived meanwhile.
THEOREM SustainedEvidence == Spec => []EvidenceIsSustained
<1>1. IInv => EvidenceIsSustained
  BY DEF IInv, EvidenceInv, SustainedRun, EvidenceIsSustained
<1>2. QED BY <1>1, InductiveInvariant, PTL

\* One process reports a detector and container once per cooldown.
THEOREM CooldownHolds == Spec => []OncePerCooldown
<1>1. IInv => OncePerCooldown
  BY DEF IInv
<1>2. QED BY <1>1, InductiveInvariant, PTL

\* No finding the evaluator has passed is without an incident of its own.
THEOREM NothingSwallowed == Spec => []FindingsAreReported
<1>1. IInv => FindingsAreReported
  BY DEF IInv
<1>2. QED BY <1>1, InductiveInvariant, PTL

\* Labels name expected faults that were open, and while nothing fails, all of them.
THEOREM TrueLabelling == Spec => []LabelsAreTrue
<1>1. IInv => LabelsAreTrue
  BY DEF IInv, LabelsInv, TrueLabels, Expected, LabelsAreTrue
<1>2. QED BY <1>1, InductiveInvariant, PTL
===============================================================================
