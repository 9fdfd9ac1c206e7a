------------------------- MODULE Intelligence_proofs -------------------------
(***************************************************************************)
(* Proofs about Intelligence, for any number of messages, windows, rule    *)
(* detectors and failures: what the worker has committed is in its tables, *)
(* findings are stored whole and once, markers lose nothing, cooldowns     *)
(* hold, cases are episodes, and notifications leave in order.  The tables *)
(* change by whole transactions, so most of the work is about one function *)
(* of a state of the tables, SaveFinding.                                  *)
(***************************************************************************)
EXTENDS Intelligence, FiniteSetTheorems, WellFoundedInduction, TLAPS

Detectors == RuleDetectors \cup OwnDetectors
Ids == Detectors \X Nat
Messages == [kind : Kinds \cup {"incident"}, id : Ids, detector : Detectors, end : Nat]
IncidentRows == [id : Ids, detector : Detectors, end : Nat, case : Nat]
FindingRows == [detector : Detectors, end : Nat, id : Ids, detected_at : Nat, created_at : Nat]
CaseRows == [opened_at : Nat, timeline : Seq(Ids)]
OutboxRows == [kind : {"incident", "insight"}, finding : FindingRows, published : BOOLEAN]
Versions == {"rules", "model"}
Inferences == [state : {"none", "ready", "abstained"}, end : Nat]
Tables == [events : SUBSET Nat, rejected : SUBSET Nat, incidents : SUBSET IncidentRows,
           insights : SUBSET FindingRows, cases : Seq(CaseRows), outbox : Seq(OutboxRows),
           analysed : [rules : Nat, model : Nat], inference : Inferences]

TypeOK ==
    /\ log \in Seq(Messages)
    /\ pos \in Nat /\ committed \in Nat
    /\ unsaved \in SUBSET Messages
    /\ DOMAIN windows \subseteq Ends
    /\ \A end \in DOMAIN windows : windows[end] \subseteq OwnDetectors
    /\ fresh \in BOOLEAN /\ active \in BOOLEAN
    /\ db \in Tables
    /\ delivered \subseteq Nat
    /\ input \in Nat /\ faults \in Nat

\* The id of x, a message, incident or finding, tells its detector and its end: a
\* rule incident is named for its place in the log, the worker's own for its window.
Named(x) ==
    \/ x.detector \in OwnDetectors /\ x.id = OwnId(x.detector, x.end)
    \/ /\ x.detector \in RuleDetectors
       /\ \E n \in DOMAIN log :
            /\ x.id = <<x.detector, n>>
            /\ log[n].kind = "incident" /\ log[n].detector = x.detector /\ log[n].end = x.end

\* What is in the log is named, and the worker's own incidents in it are known.
LogInv ==
    /\ committed <= pos /\ pos <= Len(log)
    /\ \A m \in unsaved : Named(m)
    /\ \A n \in DOMAIN log : log[n].kind = "incident" =>
        /\ Named(log[n])
        /\ log[n].detector \in RuleDetectors => log[n].id = <<log[n].detector, n>>
        /\ log[n].detector \in OwnDetectors => HasInsight(log[n].detector, log[n].end)

\* What the worker has handled is in the tables, whether or not it is committed.
HandledInv ==
    \A n \in 1..pos :
        LET m == log[n] IN
        /\ m.kind = "event" => n \in db.events
        /\ m.kind = "invalid" => n \in db.rejected
        /\ m.kind = "incident" => HasInsight(m.detector, m.end)

\* An incident has one row, and an insight for a row that is in a case.
RowsInv(t) ==
    /\ \A i \in t.incidents : Named(i)
    /\ \A i, j \in t.incidents : i.id = j.id => i = j
    /\ \A f \in t.insights : Named(f) /\ \E i \in t.incidents : i.id = f.id
    /\ \A i \in t.incidents : i.case # 0 <=> \E f \in t.insights : f.id = i.id

\* An incident is in a case if and only if the case's timeline shows it, and it
\* shows it once; cases are no younger than the log.
CasesInv(t) ==
    /\ \A i \in t.incidents : i.case # 0 =>
        i.case \in DOMAIN t.cases /\ \E n \in DOMAIN t.cases[i.case].timeline :
                                        t.cases[i.case].timeline[n] = i.id
    /\ \A c \in DOMAIN t.cases :
        LET line == t.cases[c].timeline IN
        /\ t.cases[c].opened_at <= 2 * Len(log) + 1
        /\ \A n \in DOMAIN line : \E i \in t.incidents : i.id = line[n] /\ i.case = c
        /\ \A m, n \in DOMAIN line : line[m] = line[n] => m = n

\* An incident on a timeline, but for the first, comes within an episode of an
\* earlier one.
EpisodesInv(t) ==
    \A c \in DOMAIN t.cases : \A n \in 2..Len(t.cases[c].timeline) :
        \E k \in 1..n - 1 : \E i, j \in t.incidents :
            /\ i.id = t.cases[c].timeline[n] /\ j.id = t.cases[c].timeline[k]
            /\ i.end - j.end \in 0..Episode

\* The outbox has what an insight asks for, and nothing twice.
OutboxInv(t) ==
    /\ \A n \in DOMAIN t.outbox :
        /\ t.outbox[n].finding \in t.insights
        /\ t.outbox[n].kind = "incident" => t.outbox[n].finding.detector \in OwnDetectors
    /\ \A m, n \in DOMAIN t.outbox :
        t.outbox[m].kind = t.outbox[n].kind /\ t.outbox[m].finding = t.outbox[n].finding => m = n
    /\ \A f \in t.insights :
        /\ \E n \in DOMAIN t.outbox : t.outbox[n].kind = "insight" /\ t.outbox[n].finding = f
        /\ f.detector \in OwnDetectors =>
            \E n \in DOMAIN t.outbox : t.outbox[n].kind = "incident" /\ t.outbox[n].finding = f

\* The worker's own insights are about sealed windows, a cooldown apart.
InsightsInv(t) ==
    /\ \A i \in t.insights : i.detector \in OwnDetectors => i.end \in DOMAIN windows
    /\ \A i, j \in t.insights :
        i.detector = j.detector /\ i.detector \in OwnDetectors /\ i.end < j.end
            => j.end - i.end >= Cooldown

\* Detector d has an insight about the cooldown that ends with this window.
Covered(t, d, end) == \E i \in t.insights : i.detector = d /\ i.end \in (end - Cooldown + 1)..end

\* The model was not asked about the marked window of v, or abstained on it.
Excused(t, v, d) ==
    /\ d = ModelDetector
    /\ v = "rules" \/ (v = "model" /\ t.inference = [state |-> "abstained", end |-> t.analysed["model"]])

\* The marker of a version is at a sealed window whose findings are covered.
MarkerInv(t) ==
    \A v \in Versions : t.analysed[v] > 0 =>
        /\ t.analysed[v] \in DOMAIN windows
        /\ \A d \in windows[t.analysed[v]] : Covered(t, d, t.analysed[v]) \/ Excused(t, v, d)

TablesInv(t) ==
    /\ t \in Tables
    /\ RowsInv(t) /\ CasesInv(t) /\ EpisodesInv(t) /\ OutboxInv(t) /\ InsightsInv(t)

IInv == TypeOK /\ LogInv /\ HandledInv /\ TablesInv(db) /\ MarkerInv(db)
-------------------------------------------------------------------------------
(***************************************************************************)
(* Numbers, windows and names.                                             *)
(***************************************************************************)

\* A set of natural numbers has a least element.
LEMMA Minimum ==
    ASSUME NEW T \in SUBSET Nat, T # {}
    PROVE  \E x \in T : \A y \in T : x <= y
<1> DEFINE R == OpToRel(<, Nat)
<1>1. IsWellFoundedOn(R, Nat)
  BY NatLessThanWellFounded
<1>2. \A x, y \in Nat : y < x => <<y, x>> \in R
  BY DEF OpToRel
<1> HIDE DEF R
<1>3. PICK x \in T : \A y \in T : ~ (<<y, x>> \in R)
  BY <1>1, WFMin
<1>4. \A y \in T : ~(y < x)
  BY <1>2, <1>3
<1>5. QED BY <1>4

\* A set of natural numbers with a bound has a greatest element.
LEMMA Maximum ==
    ASSUME NEW S \in SUBSET Nat, S # {}, NEW b \in Nat, \A s \in S : s <= b
    PROVE  \E m \in S : \A k \in S : k <= m
<1> DEFINE T == {b - s : s \in S}
<1>1. T \in SUBSET Nat /\ T # {}
  <2>1. \A s \in S : b - s \in Nat
    OBVIOUS
  <2>2. QED BY <2>1
<1>2. PICK x \in T : \A y \in T : x <= y
  BY <1>1, Minimum
<1>3. PICK m \in S : x = b - m
  OBVIOUS
<1>4. \A k \in S : b - m <= b - k
  BY <1>2, <1>3
<1>5. QED BY <1>4

\* latest is the last of the windows, if there is any.
LEMMA LatestIs ==
    ASSUME TypeOK
    PROVE  /\ latest \in Nat
           /\ latest > 0 => latest \in DOMAIN windows
           /\ \A end \in DOMAIN windows : end \in Nat \ {0} /\ end <= latest
<1>1. MaxEnd \in Nat /\ \A end \in DOMAIN windows : end \in Nat \ {0} /\ end <= MaxEnd
  BY BoundAssumption DEF TypeOK, Ends
<1>2. CASE DOMAIN windows = {}
  BY <1>2 DEF latest
<1>3. CASE DOMAIN windows # {}
  <2>1. \E m \in DOMAIN windows : \A e \in DOMAIN windows : e <= m
    BY <1>1, <1>3, Maximum
  <2>2. latest \in DOMAIN windows /\ \A e \in DOMAIN windows : e <= latest
    BY <2>1, <1>3 DEF latest
  <2>3. QED BY <1>1, <2>2
<1>4. QED BY <1>2, <1>3

\* Rule detectors are not the worker's own.
LEMMA Disjoint == \A d \in RuleDetectors : d \notin OwnDetectors
  BY DetectorsAssumption DEF OwnDetectors

\* The name tells detector and end.
LEMMA NamedSame ==
    ASSUME NEW x, NEW y, Named(x), Named(y), x.id = y.id
    PROVE  x.detector = y.detector /\ x.end = y.end
<1>1. x.id[1] = x.detector /\ y.id[1] = y.detector
  BY DEF Named, OwnId
<1>2. CASE x.detector \in OwnDetectors
  <2>1. x.id[2] = x.end /\ y.id[2] = y.end
    BY <1>1, <1>2, Disjoint DEF Named, OwnId
  <2>2. QED BY <1>1, <2>1
<1>3. CASE x.detector \in RuleDetectors
  <2>1. PICK n \in DOMAIN log : x.id = <<x.detector, n>> /\ log[n].end = x.end
    BY <1>3, Disjoint DEF Named
  <2>2. PICK m \in DOMAIN log : y.id = <<y.detector, m>> /\ log[m].end = y.end
    BY <1>1, <1>3, Disjoint DEF Named
  <2>3. x.id[2] = n
    BY <2>1
  <2>4. y.id[2] = m
    BY <2>2
  <2>5. n = m
    BY <2>3, <2>4
  <2>6. QED BY <1>1, <2>1, <2>2, <2>5
<1>4. QED BY <1>2, <1>3 DEF Named

-------------------------------------------------------------------------------
(***************************************************************************)
(* Saving a finding: the rows of table incidents.                          *)
(***************************************************************************)

\* What a state of the tables is made of.
LEMMA TableTypes ==
    ASSUME NEW t \in Tables
    PROVE  /\ t.events \in SUBSET Nat /\ t.rejected \in SUBSET Nat
           /\ t.incidents \in SUBSET IncidentRows /\ t.insights \in SUBSET FindingRows
           /\ t.cases \in Seq(CaseRows) /\ t.outbox \in Seq(OutboxRows)
           /\ t.analysed \in [rules : Nat, model : Nat] /\ t.inference \in Inferences
  BY DEF Tables

\* Whoever inserts first, an incident has one row, in no case if it is new.
LEMMA IncidentSaved ==
    ASSUME NEW t \in Tables, RowsInv(t), NEW m, Named(m),
           m.id \in Ids, m.detector \in Detectors, m.end \in Nat,
           NEW S, S = SaveIncident(t.incidents, m)
    PROVE  /\ S \in SUBSET IncidentRows
           /\ t.incidents \subseteq S
           /\ \A i \in S : Named(i)
           /\ \A i, j \in S : i.id = j.id => i = j
           /\ \E i \in S : i.id = m.id
           /\ \A i \in S : i \in t.incidents \/
                (i.id = m.id /\ i.case = 0 /\ \A f \in t.insights : f.id # m.id)
<1>1. CASE \E i \in t.incidents : i.id = m.id
  <2>1. S = t.incidents
    BY <1>1 DEF SaveIncident
  <2>2. QED BY <1>1, <2>1, TableTypes DEF RowsInv
<1>2. CASE ~ \E i \in t.incidents : i.id = m.id
  <2> DEFINE row == [id |-> m.id, detector |-> m.detector, end |-> m.end, case |-> 0]
  <2>1. S = t.incidents \cup {row}
    BY <1>2 DEF SaveIncident
  <2>2. row \in IncidentRows
    BY DEF IncidentRows
  <2>3. row.id = m.id /\ row.detector = m.detector /\ row.end = m.end /\ row.case = 0
    OBVIOUS
  <2> HIDE DEF row
  <2>4. Named(row)
    BY <2>3 DEF Named
  <2>5. \A f \in t.insights : f.id # m.id
    BY <1>2 DEF RowsInv
  <2>6. \A i \in S : Named(i)
    BY <2>1, <2>4 DEF RowsInv
  <2>7. \A i, j \in S : i.id = j.id => i = j
    BY <2>1, <2>3, <1>2 DEF RowsInv
  <2>8. S \in SUBSET IncidentRows
    BY <2>1, <2>2, TableTypes
  <2>9. QED BY <2>1, <2>3, <2>5, <2>6, <2>7, <2>8
<1>3. QED BY <1>1, <1>2
-------------------------------------------------------------------------------
(***************************************************************************)
(* Saving a finding: what the transaction leaves.                          *)
(***************************************************************************)

\* The rows after the incident id has joined case c.
MovedTo(S, id, c) == {IF i.id = id THEN [i EXCEPT !.case = c] ELSE i : i \in S}

\* The rows that announce a finding.
Notices(f) ==
    (IF f.detector \in RuleDetectors THEN <<>>
     ELSE <<[kind |-> "incident", finding |-> f, published |-> FALSE]>>)
    \o <<[kind |-> "insight", finding |-> f, published |-> FALSE]>>

\* The transaction as a whole: u is t with the new finding f in case c.
Saved(t, u, f, c) ==
    u = [events |-> t.events, rejected |-> t.rejected, analysed |-> t.analysed,
         inference |-> t.inference,
         insights |-> t.insights \cup {f},
         incidents |-> MovedTo(SaveIncident(t.incidents, f), f.id, c),
         cases |-> WithEntry(t.cases, f, c),
         outbox |-> t.outbox \o Notices(f)]

\* The case that an incident joins is its own, or one that has an incident in the
\* episode before it: of several the latest, which there is.
LEMMA FindingSaved ==
    ASSUME TypeOK, NEW t \in Tables, RowsInv(t), CasesInv(t), NEW f \in FindingRows, Named(f),
           ~Known(t, f), ~Cooling(t, f)
    PROVE  \E c \in 1..Len(t.cases) + 1 :
             /\ Saved(t, SaveFinding(t, f), f, c)
             /\ c <= Len(t.cases) => \E i \in SaveIncident(t.incidents, f) :
                  i.case = c /\ i.end >= f.end - Episode /\ i.end <= f.end
<1> DEFINE S == SaveIncident(t.incidents, f)
           t1 == [t EXCEPT !.incidents = S, !.insights = @ \cup {f}]
           c == CaseFor(t1, f)
           t2 == Correlate(t1, f)
           u == Enqueue(t2, f)
<1>1. SaveFinding(t, f) = u
  BY DEF SaveFinding
<1>2. t1 = [events |-> t.events, rejected |-> t.rejected, analysed |-> t.analysed,
            inference |-> t.inference,
            insights |-> t.insights \cup {f}, incidents |-> S, cases |-> t.cases,
            outbox |-> t.outbox]
  <2>1. PICK e, r, a, n, g, i, k, o :
          t = [events |-> e, rejected |-> r, analysed |-> a, inference |-> n, insights |-> g,
               incidents |-> i, cases |-> k, outbox |-> o]
    BY DEF Tables
  <2>2. t1 = [t EXCEPT !.incidents = S, !.insights = t.insights \cup {f}]
    OBVIOUS
  <2> HIDE DEF S, t1
  <2>3. t1.incidents = S
    BY <2>1, <2>2
  <2>4. QED BY <2>1, <2>2
<1> HIDE DEF t1, S, c
<1>3. t2 = [t1 EXCEPT !.cases = WithEntry(t1.cases, f, c),
                      !.incidents = MovedTo(t1.incidents, f.id, c)]
  BY DEF Correlate, MovedTo, c
<1>4. t2 = [events |-> t.events, rejected |-> t.rejected, analysed |-> t.analysed,
            inference |-> t.inference,
            insights |-> t.insights \cup {f}, incidents |-> MovedTo(S, f.id, c),
            cases |-> WithEntry(t.cases, f, c), outbox |-> t.outbox]
  BY <1>2, <1>3
<1> HIDE DEF t2
<1>5. u = [t2 EXCEPT !.outbox = (t2.outbox \o (IF f.detector \in RuleDetectors THEN <<>>
                                       ELSE <<[kind |-> "incident", finding |-> f, published |-> FALSE]>>))
                                \o <<[kind |-> "insight", finding |-> f, published |-> FALSE]>>]
  BY DEF Enqueue
<1> DEFINE o == (t.outbox \o (IF f.detector \in RuleDetectors THEN <<>>
                              ELSE <<[kind |-> "incident", finding |-> f, published |-> FALSE]>>))
                \o <<[kind |-> "insight", finding |-> f, published |-> FALSE]>>
<1>6. u = [t2 EXCEPT !.outbox = o]
  BY <1>4, <1>5
<1> HIDE DEF u
<1>7. o = t.outbox \o Notices(f)
  <2>1. t.outbox \in Seq(OutboxRows)
    BY TableTypes
  <2> DEFINE q == [kind |-> "incident", finding |-> f, published |-> FALSE]
             r == [kind |-> "insight", finding |-> f, published |-> FALSE]
  <2>2. q \in OutboxRows /\ r \in OutboxRows
    BY DEF OutboxRows
  <2> HIDE DEF q, r
  <2>3. (t.outbox \o <<>>) \o <<r>> = t.outbox \o (<<>> \o <<r>>)
    BY <2>1, <2>2
  <2>4. (t.outbox \o <<q>>) \o <<r>> = t.outbox \o (<<q>> \o <<r>>)
    BY <2>1, <2>2
  <2>5. QED BY <2>3, <2>4 DEF Notices, q, r
<1>8. Saved(t, u, f, c)
  <2> HIDE DEF o
  <2>1. QED BY <1>4, <1>6, <1>7 DEF Saved, S
<1>9. /\ c \in 1..Len(t.cases) + 1
      /\ c <= Len(t.cases) => \E i \in S : i.case = c /\ i.end >= f.end - Episode /\ i.end <= f.end
  <2>1. t.cases \in Seq(CaseRows) /\ Len(t.cases) \in Nat /\ DOMAIN t.cases = 1..Len(t.cases)
    BY TableTypes
  <2> DEFINE matching == Matching(t1, f)
  <2>2. matching = {d \in DOMAIN t.cases :
                      \E i \in S : i.case = d /\ i.end >= f.end - Episode /\ i.end <= f.end}
    BY <1>2 DEF Matching
  <2> HIDE DEF matching
  <2>3. CASE matching = {}
    BY <1>2, <2>1, <2>3 DEF c, CaseFor, matching
  <2>4. CASE matching # {}
    <3> DEFINE O == {t.cases[d].opened_at : d \in matching}
    <3>1. \A d \in DOMAIN t.cases : t.cases[d].opened_at \in Nat
      <4>1. \A d \in DOMAIN t.cases : t.cases[d] \in CaseRows
        BY <2>1
      <4>2. QED BY <4>1 DEF CaseRows
    <3>2. O \in SUBSET Nat /\ O # {}
      BY <2>2, <2>4, <3>1
    <3>3. \A x \in O : x <= 2 * Len(log) + 1
      BY <2>2 DEF CasesInv
    <3>4. 2 * Len(log) + 1 \in Nat
      BY DEF TypeOK
    <3> HIDE DEF O
    <3>5. PICK x \in O : \A y \in O : y <= x
      BY <3>2, <3>3, <3>4, Maximum
    <3>6. \E d \in matching : \A e \in matching : t1.cases[e].opened_at <= t1.cases[d].opened_at
      BY <1>2, <3>5 DEF O
    <3>7. c \in matching
      BY <2>4, <3>6 DEF c, CaseFor, matching
    <3>8. QED BY <2>1, <2>2, <3>7
  <2>5. QED BY <2>3, <2>4
<1>10. QED BY <1>1, <1>8, <1>9 DEF S
\* Only the row of the new finding's incident changes: nobody had put it in a case.
LEMMA SavedRows ==
    ASSUME NEW t \in Tables, RowsInv(t), NEW f \in FindingRows, Named(f), ~Known(t, f),
           NEW u, NEW c \in Nat \ {0}, Saved(t, u, f, c)
    PROVE  /\ u.incidents \in SUBSET IncidentRows
           /\ \A i \in t.incidents : i.id = f.id => i.case = 0
           /\ \A g \in t.insights : g.id # f.id
           /\ \A i \in u.incidents : IF i.id = f.id THEN i.case = c /\ i.end = f.end
                                     ELSE i \in t.incidents
           /\ \A i \in t.incidents : i.id # f.id => i \in u.incidents
           /\ \E i \in u.incidents : i.id = f.id
           /\ RowsInv(u)
<1> DEFINE S == SaveIncident(t.incidents, f)
           moved(i) == [i EXCEPT !.case = c]
<1>1. f.id \in Ids /\ f.detector \in Detectors /\ f.end \in Nat
  BY DEF FindingRows
<1>2. /\ S \in SUBSET IncidentRows
      /\ t.incidents \subseteq S
      /\ \A i \in S : Named(i)
      /\ \A i, j \in S : i.id = j.id => i = j
      /\ \E i \in S : i.id = f.id
      /\ \A i \in S : i \in t.incidents \/
           (i.id = f.id /\ i.case = 0 /\ \A g \in t.insights : g.id # f.id)
  <2> HIDE DEF S
  <2>1. QED BY <1>1, IncidentSaved DEF S
<1> HIDE DEF S
<1>3. \A g \in t.insights : g.id # f.id
  BY NamedSame DEF RowsInv, Known
<1>4. \A i \in t.incidents : i.id = f.id => i.case = 0
  BY <1>3 DEF RowsInv
<1>5. \A i \in S : i.id = f.id => i.end = f.end /\ i.detector = f.detector
  BY <1>2, NamedSame
<1>6. u.incidents = {IF i.id = f.id THEN moved(i) ELSE i : i \in S}
  BY DEF Saved, MovedTo, S
<1>7. \A i \in S : /\ moved(i) \in IncidentRows /\ moved(i).id = i.id /\ moved(i).end = i.end
                   /\ moved(i).detector = i.detector /\ moved(i).case = c
  <2>1. \A i \in S : i \in IncidentRows
    BY <1>2
  <2>2. QED BY <2>1 DEF IncidentRows
<1> HIDE DEF moved
<1>8. u.incidents \in SUBSET IncidentRows
  BY <1>2, <1>6, <1>7
<1>9. \A i \in u.incidents : IF i.id = f.id THEN i.case = c /\ i.end = f.end /\ i.detector = f.detector
                             ELSE i \in t.incidents
  BY <1>2, <1>5, <1>6, <1>7
<1>10. \A i \in t.incidents : i.id # f.id => i \in u.incidents
  BY <1>2, <1>6
<1>11. \E i \in u.incidents : i.id = f.id
  BY <1>2, <1>6, <1>7
<1>12. u.insights = t.insights \cup {f}
  BY DEF Saved
<1>13. \A i \in u.incidents : Named(i)
  <2>1. \A i \in u.incidents : i.id = f.id => i.end = f.end /\ i.detector = f.detector
    BY <1>9
  <2>2. \A i \in u.incidents : i.id = f.id => Named(i)
    BY <2>1 DEF Named
  <2>3. QED BY <2>2, <1>9 DEF RowsInv
<1>14. \A i, j \in u.incidents : i.id = j.id => i = j
  BY <1>2, <1>6, <1>7
<1>15. \A g \in u.insights : Named(g) /\ \E i \in u.incidents : i.id = g.id
  <2>1. \A g \in t.insights : \E i \in u.incidents : i.id = g.id
    BY <1>3, <1>10 DEF RowsInv
  <2>2. QED BY <2>1, <1>11, <1>12 DEF RowsInv
<1>16. \A i \in u.incidents : i.case # 0 <=> \E g \in u.insights : g.id = i.id
  BY <1>9, <1>12 DEF RowsInv
<1>17. RowsInv(u)
  BY <1>13, <1>14, <1>15, <1>16 DEF RowsInv
<1>18. QED BY <1>3, <1>4, <1>8, <1>9, <1>10, <1>11, <1>17
\* One timeline gets one entry, at its end; it may be that of a new case.
LEMMA SavedTimelines ==
    ASSUME NEW t \in Tables, NEW f \in FindingRows, NEW u,
           NEW c \in 1..Len(t.cases) + 1, Saved(t, u, f, c)
    PROVE  /\ u.cases \in Seq(CaseRows)
           /\ c \in Nat \ {0} /\ DOMAIN u.cases = DOMAIN t.cases \cup {c}
           /\ \A d \in DOMAIN t.cases : d # c => u.cases[d] = t.cases[d]
           /\ \E line \in Seq(Ids) :
                /\ u.cases[c].timeline = Append(line, f.id)
                /\ IF c \in DOMAIN t.cases
                   THEN line = t.cases[c].timeline /\ u.cases[c].opened_at = t.cases[c].opened_at
                   ELSE line = <<>> /\ u.cases[c].opened_at = f.detected_at
<1>1. t.cases \in Seq(CaseRows) /\ Len(t.cases) \in Nat /\ DOMAIN t.cases = 1..Len(t.cases)
  BY TableTypes
<1>2. f.id \in Ids /\ f.detected_at \in Nat
  BY DEF FindingRows
<1>3. u.cases = WithEntry(t.cases, f, c)
  BY DEF Saved
<1>4. CASE c \in DOMAIN t.cases
  <2> DEFINE line == t.cases[c].timeline
             e == [t.cases[c] EXCEPT !.timeline = Append(line, f.id)]
  <2>1. t.cases[c] \in CaseRows
    BY <1>1, <1>4
  <2>2. line \in Seq(Ids) /\ t.cases[c].opened_at \in Nat
    BY <2>1 DEF CaseRows
  <2>3. Append(line, f.id) \in Seq(Ids)
    BY <1>2, <2>2
  <2>4. e \in CaseRows /\ e.timeline = Append(line, f.id) /\ e.opened_at = t.cases[c].opened_at
    BY <2>1, <2>3 DEF CaseRows
  <2>5. u.cases = [t.cases EXCEPT ![c] = e]
    BY <1>1, <1>3, <1>4 DEF WithEntry
  <2> HIDE DEF line, e
  <2>6. u.cases \in Seq(CaseRows) /\ DOMAIN u.cases = DOMAIN t.cases
    BY <1>1, <1>4, <2>4, <2>5
  <2>7. \A d \in DOMAIN t.cases : u.cases[d] = IF d = c THEN e ELSE t.cases[d]
    BY <1>1, <2>5
  <2>8. /\ u.cases[c].timeline = Append(line, f.id)
        /\ u.cases[c].opened_at = t.cases[c].opened_at
    BY <1>4, <2>4, <2>7
  <2>9. line = t.cases[c].timeline
    BY DEF line
  <2>10. \A d \in DOMAIN t.cases : d # c => u.cases[d] = t.cases[d]
    BY <2>7
  <2>11. c \in Nat \ {0} /\ DOMAIN u.cases = DOMAIN t.cases \cup {c}
    BY <1>1, <1>4, <2>6
  <2>12. QED BY <1>4, <2>2, <2>6, <2>8, <2>9, <2>10, <2>11
<1>5. CASE c \notin DOMAIN t.cases
  <2> DEFINE e == [opened_at |-> f.detected_at, timeline |-> <<f.id>>]
  <2>1. c = Len(t.cases) + 1
    BY <1>1, <1>5
  <2>2. <<f.id>> \in Seq(Ids) /\ <<f.id>> = Append(<<>>, f.id) /\ <<>> \in Seq(Ids)
    BY <1>2
  <2>3. e \in CaseRows /\ e.timeline = <<f.id>> /\ e.opened_at = f.detected_at
    BY <1>2, <2>2 DEF CaseRows
  <2>4. u.cases = Append(t.cases, e)
    BY <1>1, <1>3, <2>1 DEF WithEntry
  <2> HIDE DEF e
  <2>5. /\ u.cases \in Seq(CaseRows) /\ DOMAIN u.cases = 1..Len(t.cases) + 1
        /\ \A d \in 1..Len(t.cases) : u.cases[d] = t.cases[d]
        /\ u.cases[c] = e
    BY <1>1, <2>1, <2>3, <2>4
  <2>6. u.cases[c].timeline = Append(<<>>, f.id) /\ u.cases[c].opened_at = f.detected_at
    BY <2>2, <2>3, <2>5
  <2>7. \A d \in DOMAIN t.cases : d # c => u.cases[d] = t.cases[d]
    BY <1>1, <2>5
  <2>8. c \in Nat \ {0} /\ DOMAIN u.cases = DOMAIN t.cases \cup {c}
    BY <1>1, <2>1, <2>5
  <2>9. QED BY <1>5, <2>2, <2>5, <2>6, <2>7, <2>8
<1>6. QED BY <1>4, <1>5

\* The new incident is on the timeline of its case and of no other, once.
LEMMA SavedCases ==
    ASSUME TypeOK, NEW t \in Tables, RowsInv(t), CasesInv(t), NEW f \in FindingRows, Named(f),
           ~Known(t, f), f.detected_at <= 2 * Len(log) + 1,
           NEW u, NEW c \in 1..Len(t.cases) + 1, Saved(t, u, f, c)
    PROVE  CasesInv(u)
<1>1. /\ u.cases \in Seq(CaseRows)
      /\ c \in Nat \ {0} /\ DOMAIN u.cases = DOMAIN t.cases \cup {c}
      /\ \A d \in DOMAIN t.cases : d # c => u.cases[d] = t.cases[d]
  BY SavedTimelines
<1>2. PICK line \in Seq(Ids) :
        /\ u.cases[c].timeline = Append(line, f.id)
        /\ IF c \in DOMAIN t.cases
           THEN line = t.cases[c].timeline /\ u.cases[c].opened_at = t.cases[c].opened_at
           ELSE line = <<>> /\ u.cases[c].opened_at = f.detected_at
  BY SavedTimelines
<1>3. /\ \A i \in t.incidents : i.id = f.id => i.case = 0
      /\ \A i \in u.incidents : IF i.id = f.id THEN i.case = c ELSE i \in t.incidents
      /\ \A i \in t.incidents : i.id # f.id => i \in u.incidents
      /\ \E i \in u.incidents : i.id = f.id
  BY <1>1, SavedRows
<1>4. \A d \in DOMAIN t.cases : d # 0
  <2>1. DOMAIN t.cases = 1..Len(t.cases)
    BY TableTypes
  <2>2. QED BY <2>1
<1>5. ASSUME NEW n \in DOMAIN line
      PROVE  \E i \in t.incidents : i.id = line[n] /\ i.case = c
  <2>1. c \in DOMAIN t.cases /\ line = t.cases[c].timeline
    BY <1>2
  <2>2. QED BY <2>1 DEF CasesInv
<1>6. \A m, n \in DOMAIN line : line[m] = line[n] => m = n
  BY <1>2 DEF CasesInv
<1>7. \A n \in DOMAIN line : line[n] # f.id
  BY <1>1, <1>3, <1>5
<1> DEFINE longer == Append(line, f.id)
           k == Len(line) + 1
<1>8. /\ k \in Nat /\ DOMAIN longer = 1..k /\ DOMAIN line = 1..k - 1
      /\ longer[k] = f.id /\ \A n \in 1..k - 1 : longer[n] = line[n]
  BY DEF FindingRows
<1>9. k > 0
  OBVIOUS
<1> HIDE DEF longer, k
<1>10. \A n \in DOMAIN longer : \E i \in u.incidents : i.id = longer[n] /\ i.case = c
  <2> TAKE n \in DOMAIN longer
  <2>1. CASE n = k
    BY <2>1, <1>3, <1>8
  <2>2. CASE n # k
    <3>1. n \in DOMAIN line /\ longer[n] = line[n]
      BY <2>2, <1>8
    <3>2. PICK i \in t.incidents : i.id = line[n] /\ i.case = c
      BY <3>1, <1>5
    <3>3. QED BY <3>1, <3>2, <1>3, <1>7
  <2>3. QED BY <2>1, <2>2
<1>11. \A m, n \in DOMAIN longer : longer[m] = longer[n] => m = n
  BY <1>6, <1>7, <1>8
<1>12. ASSUME NEW d \in DOMAIN u.cases
       PROVE  /\ u.cases[d].opened_at <= 2 * Len(log) + 1
              /\ \A n \in DOMAIN u.cases[d].timeline :
                   \E i \in u.incidents : i.id = u.cases[d].timeline[n] /\ i.case = d
              /\ \A m, n \in DOMAIN u.cases[d].timeline :
                   u.cases[d].timeline[m] = u.cases[d].timeline[n] => m = n
  <2>1. CASE d = c
    BY <2>1, <1>2, <1>10, <1>11 DEF CasesInv, longer
  <2>2. CASE d # c
    <3>1. d \in DOMAIN t.cases /\ u.cases[d] = t.cases[d] /\ d # 0
      BY <2>2, <1>1, <1>4
    <3>2. \A i \in t.incidents : i.case = d => i \in u.incidents
      BY <3>1, <1>3
    <3>3. QED BY <3>1, <3>2 DEF CasesInv
  <2>3. QED BY <2>1, <2>2
<1>13. ASSUME NEW i \in u.incidents, i.case # 0
       PROVE  i.case \in DOMAIN u.cases /\ \E n \in DOMAIN u.cases[i.case].timeline :
                                              u.cases[i.case].timeline[n] = i.id
  <2>1. CASE i.id = f.id
    <3>1. i.case = c /\ c \in DOMAIN u.cases
      BY <2>1, <1>1, <1>3
    <3>2. k \in DOMAIN longer /\ longer[k] = i.id
      BY <2>1, <1>8, <1>9
    <3>3. QED BY <3>1, <3>2, <1>2 DEF longer
  <2>2. CASE i.id # f.id
    <3>1. i \in t.incidents
      BY <2>2, <1>3
    <3>2. PICK n \in DOMAIN t.cases[i.case].timeline : t.cases[i.case].timeline[n] = i.id
      BY <3>1, <1>13 DEF CasesInv
    <3>3. i.case \in DOMAIN t.cases
      BY <3>1, <1>13 DEF CasesInv
    <3>4. CASE i.case = c
      <4>1. line = t.cases[c].timeline
        BY <1>2, <3>3, <3>4
      <4>2. n \in DOMAIN longer /\ longer[n] = i.id
        BY <3>2, <3>4, <4>1, <1>8
      <4>3. QED BY <3>3, <3>4, <4>2, <1>1, <1>2 DEF longer
    <3>5. CASE i.case # c
      BY <3>2, <3>3, <3>5, <1>1
    <3>6. QED BY <3>4, <3>5
  <2>3. QED BY <2>1, <2>2
<1>14. QED BY <1>12, <1>13 DEF CasesInv
\* It follows an incident of its episode, unless it opened the case.
LEMMA SavedEpisodes ==
    ASSUME NEW t \in Tables, RowsInv(t), CasesInv(t), EpisodesInv(t),
           NEW f \in FindingRows, Named(f), ~Known(t, f),
           NEW u, NEW c \in 1..Len(t.cases) + 1, Saved(t, u, f, c),
           c <= Len(t.cases) => \E i \in SaveIncident(t.incidents, f) :
               i.case = c /\ i.end >= f.end - Episode /\ i.end <= f.end
    PROVE  EpisodesInv(u)
<1>1. /\ u.cases \in Seq(CaseRows)
      /\ c \in Nat \ {0} /\ DOMAIN u.cases = DOMAIN t.cases \cup {c}
      /\ \A d \in DOMAIN t.cases : d # c => u.cases[d] = t.cases[d]
  BY SavedTimelines
<1>2. PICK line \in Seq(Ids) :
        /\ u.cases[c].timeline = Append(line, f.id)
        /\ IF c \in DOMAIN t.cases
           THEN line = t.cases[c].timeline /\ u.cases[c].opened_at = t.cases[c].opened_at
           ELSE line = <<>> /\ u.cases[c].opened_at = f.detected_at
  BY SavedTimelines
<1>3. /\ \A i \in t.incidents : i.id = f.id => i.case = 0
      /\ \A i \in u.incidents : i.id = f.id => i.end = f.end
      /\ \A i \in t.incidents : i.id # f.id => i \in u.incidents
      /\ \E i \in u.incidents : i.id = f.id
  BY <1>1, SavedRows
<1>4. DOMAIN t.cases = 1..Len(t.cases) /\ Len(t.cases) \in Nat
  BY TableTypes
<1>5. \A i \in t.incidents : i.case # 0 => i \in u.incidents
  BY <1>3
<1>6. ASSUME NEW d \in DOMAIN t.cases, NEW n \in DOMAIN t.cases[d].timeline,
             NEW i \in t.incidents, i.id = t.cases[d].timeline[n]
      PROVE  i \in u.incidents
  <2>1. PICK j \in t.incidents : j.id = t.cases[d].timeline[n] /\ j.case = d
    BY DEF CasesInv
  <2>2. i = j /\ d # 0
    BY <2>1, <1>4, <1>6 DEF RowsInv
  <2>3. QED BY <2>1, <2>2, <1>5
<1> DEFINE Follows(timeline, n) ==
             \E k \in 1..n - 1 : \E i, j \in u.incidents :
               i.id = timeline[n] /\ j.id = timeline[k] /\ i.end - j.end \in 0..Episode
<1>7. ASSUME NEW d \in DOMAIN t.cases, NEW n \in 2..Len(t.cases[d].timeline)
      PROVE  Follows(t.cases[d].timeline, n)
  <2>1. PICK k \in 1..n - 1, i \in t.incidents, j \in t.incidents :
          /\ i.id = t.cases[d].timeline[n] /\ j.id = t.cases[d].timeline[k]
          /\ i.end - j.end \in 0..Episode
    BY DEF EpisodesInv
  <2>2. t.cases[d] \in CaseRows
    BY TableTypes
  <2>3. t.cases[d].timeline \in Seq(Ids)
    BY <2>2 DEF CaseRows
  <2>4. n \in DOMAIN t.cases[d].timeline /\ k \in DOMAIN t.cases[d].timeline
    BY <2>3
  <2>5. i \in u.incidents /\ j \in u.incidents
    BY <2>1, <2>4, <1>6
  <2>6. QED BY <2>1, <2>5
<1> DEFINE longer == Append(line, f.id)
           last == Len(line) + 1
<1>8. /\ last \in Nat \ {0} /\ Len(longer) = last /\ DOMAIN line = 1..last - 1
      /\ longer[last] = f.id /\ \A n \in 1..last - 1 : longer[n] = line[n]
  BY DEF FindingRows
<1>9. Len(line) = last - 1
  BY <1>8
<1> HIDE DEF longer, last, Follows
<1>10. ASSUME NEW n \in 2..last
       PROVE  Follows(longer, n)
  <2>1. line # <<>> /\ c \in DOMAIN t.cases /\ line = t.cases[c].timeline
    <3>1. Len(line) > 0
      BY <1>8, <1>9
    <3>2. QED BY <3>1, <1>2
  <2>2. CASE n < last
    <3>1. n \in 2..Len(line)
      BY <2>2, <1>8, <1>9
    <3>2. PICK k \in 1..n - 1, i \in u.incidents, j \in u.incidents :
            i.id = line[n] /\ j.id = line[k] /\ i.end - j.end \in 0..Episode
      <4>1. n \in 2..Len(t.cases[c].timeline)
        BY <3>1, <2>1
      <4>2. Follows(t.cases[c].timeline, n)
        BY <4>1, <2>1, <1>7
      <4>3. QED BY <4>2, <2>1 DEF Follows
    <3>3. longer[n] = line[n] /\ longer[k] = line[k]
      BY <3>1, <1>8, <2>2
    <3>4. QED BY <3>2, <3>3 DEF Follows
  <2>3. CASE n = last
    <3>1. PICK j \in SaveIncident(t.incidents, f) :
            j.case = c /\ j.end >= f.end - Episode /\ j.end <= f.end
      BY <2>1, <1>4
    <3>2. f.id \in Ids /\ f.detector \in Detectors /\ f.end \in Nat
      BY DEF FindingRows
    <3>3. /\ SaveIncident(t.incidents, f) \in SUBSET IncidentRows
          /\ j \in t.incidents \/ j.case = 0
      BY <3>2, IncidentSaved
    <3>4. j \in t.incidents /\ j \in u.incidents /\ j.end \in Nat
      BY <3>1, <3>3, <1>1, <1>5 DEF IncidentRows
    <3>5. PICK k \in DOMAIN line : line[k] = j.id
      BY <3>1, <3>4, <2>1, <1>1 DEF CasesInv
    <3>6. PICK i \in u.incidents : i.id = f.id /\ i.end = f.end
      BY <1>3
    <3>7. i.end - j.end \in 0..Episode
      BY <3>1, <3>2, <3>4, <3>6, TimesAssumption
    <3>8. k \in 1..n - 1 /\ longer[k] = j.id /\ longer[n] = i.id
      BY <3>5, <3>6, <2>3, <1>8
    <3>9. QED BY <3>4, <3>7, <3>8 DEF Follows
  <2>4. QED BY <2>2, <2>3, <1>8
<1>11. ASSUME NEW d \in DOMAIN u.cases, NEW n \in 2..Len(u.cases[d].timeline)
       PROVE  Follows(u.cases[d].timeline, n)
  <2>1. CASE d = c
    <3>1. u.cases[d].timeline = longer
      BY <2>1, <1>2 DEF longer
    <3>2. n \in 2..last
      BY <3>1, <1>8, <1>11
    <3>3. QED BY <3>1, <3>2, <1>10
  <2>2. CASE d # c
    <3>1. d \in DOMAIN t.cases /\ u.cases[d] = t.cases[d]
      BY <2>2, <1>1
    <3>2. n \in 2..Len(t.cases[d].timeline)
      BY <3>1, <1>11
    <3>3. QED BY <3>1, <3>2, <1>7
  <2>3. QED BY <2>1, <2>2
<1>12. QED BY <1>11 DEF EpisodesInv, Follows

\* A new finding is announced once, and nothing else is.
LEMMA SavedOutbox ==
    ASSUME NEW t \in Tables, RowsInv(t), OutboxInv(t),
           NEW f \in FindingRows, Named(f), ~Known(t, f), NEW u, NEW c, Saved(t, u, f, c)
    PROVE  u.outbox \in Seq(OutboxRows) /\ OutboxInv(u)
<1> DEFINE q == [kind |-> "incident", finding |-> f, published |-> FALSE]
           r == [kind |-> "insight", finding |-> f, published |-> FALSE]
           o == t.outbox
           p == u.outbox
           n == Len(t.outbox)
<1>1. o \in Seq(OutboxRows) /\ n \in Nat /\ DOMAIN o = 1..n
  BY TableTypes
<1>2. /\ q \in OutboxRows /\ q.kind = "incident" /\ q.finding = f
      /\ r \in OutboxRows /\ r.kind = "insight" /\ r.finding = f
  BY DEF OutboxRows
<1>3. f \notin t.insights /\ u.insights = t.insights \cup {f}
  BY DEF Known, Saved
<1>4. \A k \in 1..n : o[k].finding \in t.insights /\ o[k].finding # f
  BY <1>1, <1>3 DEF OutboxInv
<1>5. p = o \o ((IF f.detector \in RuleDetectors THEN <<>> ELSE <<q>>) \o <<r>>)
  BY DEF Saved, Notices
<1>6. \A g \in t.insights :
        /\ \E k \in 1..n : o[k].kind = "insight" /\ o[k].finding = g
        /\ g.detector \in OwnDetectors => \E k \in 1..n : o[k].kind = "incident" /\ o[k].finding = g
  BY <1>1 DEF OutboxInv
<1>7. /\ \A k \in 1..n : o[k].kind = "incident" => o[k].finding.detector \in OwnDetectors
      /\ \A k, m \in 1..n : o[k].kind = o[m].kind /\ o[k].finding = o[m].finding => k = m
  BY <1>1 DEF OutboxInv
<1>8. f.detector \in RuleDetectors <=> f.detector \notin OwnDetectors
  BY Disjoint DEF FindingRows, Detectors
<1> HIDE DEF q, r, o, p, n
<1>9. CASE f.detector \in RuleDetectors
  <2>1. /\ p \in Seq(OutboxRows) /\ DOMAIN p = 1..n + 1 /\ p[n + 1] = r
        /\ \A k \in 1..n : p[k] = o[k]
    <3>1. p = Append(o, r)
      BY <1>1, <1>2, <1>5, <1>9
    <3>2. Len(o) = n
      BY DEF n, o
    <3>3. QED BY <3>1, <3>2, <1>1, <1>2
  <2>2. \A k \in 1..n + 1 : /\ p[k].finding \in u.insights
                            /\ p[k].kind = "incident" => p[k].finding.detector \in OwnDetectors
    BY <2>1, <1>1, <1>2, <1>3, <1>4, <1>7
  <2>3. \A k, m \in 1..n + 1 : p[k].kind = p[m].kind /\ p[k].finding = p[m].finding => k = m
    BY <2>1, <1>1, <1>2, <1>4, <1>7
  <2>4. \A g \in u.insights :
          /\ \E k \in 1..n + 1 : p[k].kind = "insight" /\ p[k].finding = g
          /\ g.detector \in OwnDetectors => \E k \in 1..n + 1 : p[k].kind = "incident" /\ p[k].finding = g
    <3> TAKE g \in u.insights
    <3>1. CASE g = f
      <4>1. n + 1 \in 1..n + 1 /\ g.detector \notin OwnDetectors
        BY <1>1, <1>8, <1>9, <3>1
      <4>2. QED BY <4>1, <3>1, <2>1, <1>2
    <3>2. CASE g # f
      <4>1. g \in t.insights
        BY <3>2, <1>3
      <4>2. \A k \in 1..n : k \in 1..n + 1 /\ p[k] = o[k]
        BY <1>1, <2>1
      <4>3. QED BY <4>1, <4>2, <1>6
    <3>3. QED BY <3>1, <3>2
  <2>5. p = u.outbox /\ DOMAIN u.outbox = DOMAIN p
    BY DEF p
  <2>6. /\ u.outbox \in Seq(OutboxRows)
        /\ \A k \in DOMAIN u.outbox :
             /\ u.outbox[k].finding \in u.insights
             /\ u.outbox[k].kind = "incident" => u.outbox[k].finding.detector \in OwnDetectors
    BY ONLY <2>1, <2>2, <2>5
  <2>7. \A k, m \in DOMAIN u.outbox :
          u.outbox[k].kind = u.outbox[m].kind /\ u.outbox[k].finding = u.outbox[m].finding => k = m
    BY ONLY <2>1, <2>3, <2>5
  <2>8. ASSUME NEW g \in u.insights
        PROVE  \E k \in DOMAIN u.outbox : u.outbox[k].kind = "insight" /\ u.outbox[k].finding = g
    <3>1. PICK k \in DOMAIN p : p[k].kind = "insight" /\ p[k].finding = g
      BY ONLY <2>1, <2>4, <2>8
    <3>2. QED BY ONLY <3>1, <2>5
  <2>9. ASSUME NEW g \in u.insights, g.detector \in OwnDetectors
        PROVE  \E k \in DOMAIN u.outbox : u.outbox[k].kind = "incident" /\ u.outbox[k].finding = g
    <3>1. PICK k \in DOMAIN p : p[k].kind = "incident" /\ p[k].finding = g
      BY ONLY <2>1, <2>4, <2>9
    <3>2. QED BY ONLY <3>1, <2>5
  <2>10. QED BY ONLY <2>6, <2>7, <2>8, <2>9, Zenon DEF OutboxInv
<1>10. CASE f.detector \notin RuleDetectors
  <2>1. /\ p \in Seq(OutboxRows) /\ DOMAIN p = 1..n + 2 /\ p[n + 1] = q /\ p[n + 2] = r
        /\ \A k \in 1..n : p[k] = o[k]
    <3> DEFINE s == Append(o, q)
    <3>1. p = Append(s, r)
      BY <1>1, <1>2, <1>5, <1>10
    <3>2. Len(o) = n
      BY DEF n, o
    <3>3. s \in Seq(OutboxRows) /\ Len(s) = n + 1 /\ s[n + 1] = q /\ \A k \in 1..n : s[k] = o[k]
      BY <3>2, <1>1, <1>2
    <3> HIDE DEF s
    <3>4. QED BY <3>1, <3>3, <1>1, <1>2
  <2>2. \A k \in 1..n + 2 : /\ p[k].finding \in u.insights
                            /\ p[k].kind = "incident" => p[k].finding.detector \in OwnDetectors
    BY <2>1, <1>1, <1>2, <1>3, <1>4, <1>7, <1>8, <1>10
  <2>3. ASSUME NEW k \in 1..n + 2, NEW m \in 1..n + 2,
               p[k].kind = p[m].kind, p[k].finding = p[m].finding
        PROVE  k = m
    <3>1. (k \in 1..n \/ k = n + 1 \/ k = n + 2) /\ (m \in 1..n \/ m = n + 1 \/ m = n + 2)
      BY <1>1
    <3>2. \A j \in 1..n : p[j] = o[j] /\ p[j].finding # f
      BY <2>1, <1>4
    <3>3. /\ p[n + 1].kind = "incident" /\ p[n + 1].finding = f
          /\ p[n + 2].kind = "insight" /\ p[n + 2].finding = f
      BY <2>1, <1>2
    <3>4. CASE k \in 1..n
      <4>1. m \in 1..n
        BY <2>3, <3>1, <3>2, <3>3, <3>4
      <4>2. QED BY <2>3, <3>2, <3>4, <4>1, <1>7
    <3>5. CASE k \notin 1..n
      BY <2>3, <3>1, <3>2, <3>3, <3>5
    <3>6. QED BY <3>4, <3>5
  <2>4. \A g \in u.insights :
          /\ \E k \in 1..n + 2 : p[k].kind = "insight" /\ p[k].finding = g
          /\ g.detector \in OwnDetectors => \E k \in 1..n + 2 : p[k].kind = "incident" /\ p[k].finding = g
    <3> TAKE g \in u.insights
    <3>1. CASE g = f
      <4>1. n + 1 \in 1..n + 2 /\ n + 2 \in 1..n + 2
        BY <1>1
      <4>2. QED BY <4>1, <3>1, <2>1, <1>2
    <3>2. CASE g # f
      <4>1. g \in t.insights
        BY <3>2, <1>3
      <4>2. \A k \in 1..n : k \in 1..n + 2 /\ p[k] = o[k]
        BY <1>1, <2>1
      <4>3. QED BY <4>1, <4>2, <1>6
    <3>3. QED BY <3>1, <3>2
  <2>5. p = u.outbox /\ DOMAIN u.outbox = DOMAIN p
    BY DEF p
  <2>6. /\ u.outbox \in Seq(OutboxRows)
        /\ \A k \in DOMAIN u.outbox :
             /\ u.outbox[k].finding \in u.insights
             /\ u.outbox[k].kind = "incident" => u.outbox[k].finding.detector \in OwnDetectors
    BY ONLY <2>1, <2>2, <2>5
  <2>7. \A k, m \in DOMAIN u.outbox :
          u.outbox[k].kind = u.outbox[m].kind /\ u.outbox[k].finding = u.outbox[m].finding => k = m
    BY ONLY <2>1, <2>3, <2>5
  <2>8. ASSUME NEW g \in u.insights
        PROVE  \E k \in DOMAIN u.outbox : u.outbox[k].kind = "insight" /\ u.outbox[k].finding = g
    <3>1. PICK k \in DOMAIN p : p[k].kind = "insight" /\ p[k].finding = g
      BY ONLY <2>1, <2>4, <2>8
    <3>2. QED BY ONLY <3>1, <2>5
  <2>9. ASSUME NEW g \in u.insights, g.detector \in OwnDetectors
        PROVE  \E k \in DOMAIN u.outbox : u.outbox[k].kind = "incident" /\ u.outbox[k].finding = g
    <3>1. PICK k \in DOMAIN p : p[k].kind = "incident" /\ p[k].finding = g
      BY ONLY <2>1, <2>4, <2>9
    <3>2. QED BY ONLY <3>1, <2>5
  <2>10. QED BY ONLY <2>6, <2>7, <2>8, <2>9, Zenon DEF OutboxInv
<1>11. QED BY <1>9, <1>10
\* A new finding of the worker's own is about the latest window, and no insight of
\* its detector is within the cooldown before it.
LEMMA SavedInsights ==
    ASSUME TypeOK, NEW t \in Tables, InsightsInv(t), NEW f \in FindingRows,
           f.detector \in OwnDetectors => latest > 0 /\ f.end = latest,
           ~Cooling(t, f), NEW u, NEW c, Saved(t, u, f, c)
    PROVE  InsightsInv(u)
<1>1. u.insights = t.insights \cup {f}
  BY DEF Saved
<1>2. \A i \in u.insights : i.end \in Nat
  BY <1>1, TableTypes DEF FindingRows
<1>3. \A i \in u.insights : i.detector \in OwnDetectors => i.end \in DOMAIN windows
  BY <1>1, LatestIs DEF InsightsInv
<1>4. ASSUME NEW i \in u.insights, NEW j \in u.insights, i.detector = j.detector,
             i.detector \in OwnDetectors, i.end < j.end
      PROVE  j.end - i.end >= Cooldown
  <2>1. Cooldown \in Nat
    BY TimesAssumption
  <2>2. i.end <= latest /\ j.end <= latest
    BY <1>3, <1>4, LatestIs
  <2>3. CASE i = f
    BY <2>2, <2>3, <1>2, <1>4, LatestIs
  <2>4. CASE j = f /\ i # f
    <3>1. i \in t.insights /\ ~(i.end > f.end - Cooldown)
      BY <2>4, <1>1, <1>2, <1>4 DEF Cooling
    <3>2. QED BY <3>1, <2>1, <2>4, <1>2
  <2>5. CASE i # f /\ j # f
    BY <2>5, <1>1, <1>4 DEF InsightsInv
  <2>6. QED BY <2>3, <2>4, <2>5
<1>5. QED BY <1>3, <1>4 DEF InsightsInv

\* save_finding: the tables stay in order, nothing is lost, and the finding has its
\* insight, or one within its cooldown if it is of the worker's own.
LEMMA SaveFindingKeeps ==
    ASSUME TypeOK, NEW t, TablesInv(t), NEW f \in FindingRows, Named(f),
           f.detected_at <= 2 * Len(log) + 1,
           f.detector \in OwnDetectors => latest > 0 /\ f.end = latest,
           NEW u, u = SaveFinding(t, f)
    PROVE  /\ TablesInv(u)
           /\ u.events = t.events /\ u.rejected = t.rejected
           /\ u.analysed = t.analysed /\ u.inference = t.inference
           /\ t.insights \subseteq u.insights
           /\ f.detector \in RuleDetectors => Known(u, f)
           /\ f.detector \in OwnDetectors => Covered(u, f.detector, f.end)
<1>1. f.end \in Nat /\ Cooldown \in Nat \ {0}
  BY TimesAssumption DEF FindingRows
<1>2. \A i \in t.insights : i.end \in Nat
  BY TableTypes DEF TablesInv, FindingRows
<1>3. CASE Known(t, f) \/ Cooling(t, f)
  <2>1. u = t
    BY <1>3 DEF SaveFinding
  <2>2. f.detector \in RuleDetectors => Known(t, f)
    BY <1>3, Disjoint DEF Cooling
  <2>3. Covered(t, f.detector, f.end)
    <3>1. \E i \in t.insights : i.detector = f.detector /\ i.end > f.end - Cooldown /\ i.end <= f.end
      BY <1>1, <1>2, <1>3 DEF Known, Cooling
    <3>2. QED BY <3>1, <1>1, <1>2 DEF Covered
  <2>4. QED BY <2>1, <2>2, <2>3
<1>4. CASE ~Known(t, f) /\ ~Cooling(t, f)
  <2>1. /\ t \in Tables
        /\ RowsInv(t) /\ CasesInv(t) /\ EpisodesInv(t) /\ OutboxInv(t) /\ InsightsInv(t)
    BY DEF TablesInv
  <2>2. PICK c \in 1..Len(t.cases) + 1 :
          /\ Saved(t, u, f, c)
          /\ c <= Len(t.cases) => \E i \in SaveIncident(t.incidents, f) :
               i.case = c /\ i.end >= f.end - Episode /\ i.end <= f.end
    BY <1>4, <2>1, FindingSaved
  <2>3. c \in Nat \ {0} /\ u.cases \in Seq(CaseRows)
    BY <2>1, <2>2, SavedTimelines
  <2>4. u.incidents \in SUBSET IncidentRows /\ RowsInv(u)
    BY <1>4, <2>1, <2>2, <2>3, SavedRows
  <2>5. CasesInv(u)
    BY <1>4, <2>1, <2>2, SavedCases
  <2>6. EpisodesInv(u)
    BY <1>4, <2>1, <2>2, SavedEpisodes
  <2>7. u.outbox \in Seq(OutboxRows) /\ OutboxInv(u)
    BY <1>4, <2>1, <2>2, SavedOutbox
  <2>8. InsightsInv(u)
    BY <1>4, <2>1, <2>2, SavedInsights
  <2>9. /\ u.events = t.events /\ u.rejected = t.rejected
        /\ u.analysed = t.analysed /\ u.inference = t.inference
        /\ u.insights = t.insights \cup {f}
    BY <2>2 DEF Saved
  <2>10. u \in Tables
    <3>1. u = [events |-> u.events, rejected |-> u.rejected, analysed |-> u.analysed,
               inference |-> u.inference,
               insights |-> u.insights, incidents |-> u.incidents, cases |-> u.cases,
               outbox |-> u.outbox]
      BY <2>2 DEF Saved
    <3>2. /\ u.events \in SUBSET Nat /\ u.rejected \in SUBSET Nat /\ u.inference \in Inferences
          /\ u.analysed \in [rules : Nat, model : Nat] /\ u.insights \in SUBSET FindingRows
      BY <2>1, <2>9, TableTypes
    <3>3. QED BY <3>1, <3>2, <2>3, <2>4, <2>7 DEF Tables
  <2>11. Known(u, f) /\ Covered(u, f.detector, f.end)
    BY <1>1, <2>9 DEF Known, Covered
  <2>12. QED BY <2>4, <2>5, <2>6, <2>7, <2>8, <2>9, <2>10, <2>11 DEF TablesInv
<1>5. QED BY <1>3, <1>4
-------------------------------------------------------------------------------
(***************************************************************************)
(* What the steps do to the tables.                                        *)
(***************************************************************************)

\* The tables of t are those of db with what has been added since.
Later(t) ==
    /\ db.events \subseteq t.events
    /\ db.rejected \subseteq t.rejected
    /\ db.insights \subseteq t.insights

\* The log only grows, and so do the windows, but for what grows stale in one.
Grows ==
    /\ \A n \in DOMAIN log : n \in DOMAIN log' /\ log'[n] = log[n]
    /\ Len(log) <= Len(log')
    /\ \A end \in DOMAIN windows : end \in DOMAIN windows' /\ windows'[end] \subseteq windows[end]

\* Events, rejections and markers are not part of the order of the other tables.
LEMMA SameTables ==
    ASSUME NEW t, NEW u, TablesInv(t), u \in Tables, u.incidents = t.incidents,
           u.insights = t.insights, u.cases = t.cases, u.outbox = t.outbox
    PROVE  TablesInv(u)
<1>1. RowsInv(u)
  BY DEF TablesInv, RowsInv
<1>2. CasesInv(u)
  BY DEF TablesInv, CasesInv
<1>3. EpisodesInv(u)
  <2> DEFINE Good(cases, rows, c, n) == \E k \in 1..n - 1 : \E i, j \in rows :
               /\ i.id = cases[c].timeline[n] /\ j.id = cases[c].timeline[k]
               /\ i.end - j.end \in 0..Episode
  <2>1. \A c \in DOMAIN t.cases : \A n \in 2..Len(t.cases[c].timeline) :
          Good(t.cases, t.incidents, c, n)
    BY DEF TablesInv, EpisodesInv
  <2> HIDE DEF Good
  <2>2. \A c \in DOMAIN u.cases : \A n \in 2..Len(u.cases[c].timeline) :
          Good(u.cases, u.incidents, c, n)
    BY <2>1
  <2>3. QED BY <2>2 DEF EpisodesInv, Good
<1>4. OutboxInv(u)
  BY DEF TablesInv, OutboxInv
<1>5. InsightsInv(u)
  BY DEF TablesInv, InsightsInv
<1>6. QED BY <1>1, <1>2, <1>3, <1>4, <1>5 DEF TablesInv

\* More insights cover no less.
LEMMA MarkerStays ==
    ASSUME NEW t, NEW u, MarkerInv(t), u.analysed = t.analysed, u.inference = t.inference,
           t.insights \subseteq u.insights
    PROVE  MarkerInv(u)
  BY DEF MarkerInv, Covered, Excused

\* Handling a message leaves the tables in order, and the message in them.
LEMMA HandledKeeps ==
    ASSUME IInv, pos < Len(log), NEW t, t = Handled(log[pos + 1], pos + 1)
    PROVE  /\ TablesInv(t) /\ MarkerInv(t) /\ Later(t)
           /\ log[pos + 1].kind = "event" => pos + 1 \in t.events
           /\ log[pos + 1].kind = "invalid" => pos + 1 \in t.rejected
           /\ log[pos + 1].kind = "incident" =>
                \E i \in t.insights : i.detector = log[pos + 1].detector /\ i.end = log[pos + 1].end
<1> DEFINE m == log[pos + 1]
<1>1. pos + 1 \in DOMAIN log /\ m \in Messages /\ pos + 1 \in Nat
  BY DEF IInv, TypeOK
<1>2. m.kind \in {"event", "invalid", "incident"} /\ m.detector \in Detectors /\ m.end \in Nat
      /\ m.id \in Ids
  BY <1>1, KindsAssumption DEF Messages
<1> HIDE DEF m
<1>3. db \in Tables /\ TablesInv(db) /\ MarkerInv(db)
  BY DEF IInv, TypeOK
<1>4. t = (CASE m.kind = "event" -> [db EXCEPT !.events = @ \cup {pos + 1}]
      [] m.kind = "invalid" -> [db EXCEPT !.rejected = @ \cup {pos + 1}]
      [] m.kind = "incident" /\ m.detector \in OwnDetectors -> db
      [] OTHER -> SaveFinding(db, Finding(m.detector, m.end, m.id, 2 * m.id[2])))
  BY DEF Handled, m
<1>5. CASE m.kind = "event"
  <2>1. t = [db EXCEPT !.events = @ \cup {pos + 1}]
    BY <1>4, <1>5
  <2>2. db.events \in SUBSET Nat
    BY <1>3, TableTypes
  <2>3. /\ t \in Tables /\ t.events = db.events \cup {pos + 1} /\ t.rejected = db.rejected
        /\ t.analysed = db.analysed /\ t.inference = db.inference
        /\ t.incidents = db.incidents /\ t.insights = db.insights /\ t.cases = db.cases
        /\ t.outbox = db.outbox
    BY <2>1, <2>2, <1>1, <1>3 DEF Tables
  <2>4. TablesInv(t) /\ MarkerInv(t)
    BY <1>3, <2>3, SameTables, MarkerStays
  <2>5. QED BY <1>5, <2>3, <2>4 DEF Later, m
<1>6. CASE m.kind = "invalid"
  <2>1. t = [db EXCEPT !.rejected = @ \cup {pos + 1}]
    BY <1>4, <1>6
  <2>2. db.rejected \in SUBSET Nat
    BY <1>3, TableTypes
  <2>3. /\ t \in Tables /\ t.events = db.events /\ t.rejected = db.rejected \cup {pos + 1}
        /\ t.analysed = db.analysed /\ t.inference = db.inference
        /\ t.incidents = db.incidents /\ t.insights = db.insights /\ t.cases = db.cases
        /\ t.outbox = db.outbox
    BY <2>1, <2>2, <1>1, <1>3 DEF Tables
  <2>4. TablesInv(t) /\ MarkerInv(t)
    BY <1>3, <2>3, SameTables, MarkerStays
  <2>5. QED BY <1>6, <2>3, <2>4 DEF Later, m
<1>7. CASE m.kind = "incident" /\ m.detector \in OwnDetectors
  <2>1. t = db
    BY <1>4, <1>7
  <2>2. HasInsight(m.detector, m.end)
    BY <1>1, <1>7 DEF IInv, LogInv, m
  <2>3. QED BY <1>3, <1>7, <2>1, <2>2 DEF Later, HasInsight, m
<1>8. CASE m.kind = "incident" /\ m.detector \in RuleDetectors
  <2> DEFINE f == Finding(m.detector, m.end, m.id, 2 * m.id[2])
  <2>1. t = SaveFinding(db, f)
    BY <1>4, <1>8, Disjoint
  <2>2. Named(m) /\ m.id = <<m.detector, pos + 1>>
    BY <1>1, <1>8 DEF IInv, LogInv, m
  <2>3. m.id[2] = pos + 1
    BY <2>2
  <2>4. Len(db.outbox) \in Nat
    BY <1>3, TableTypes
  <2>5. f = [detector |-> m.detector, end |-> m.end, id |-> m.id, detected_at |-> 2 * (pos + 1),
             created_at |-> Len(db.outbox)]
    BY <2>3 DEF Finding
  <2> HIDE DEF f
  <2>6. f \in FindingRows
    BY <2>5, <2>4, <1>1, <1>2 DEF FindingRows
  <2>7. f.detector = m.detector /\ f.end = m.end /\ f.id = m.id /\ f.detected_at = 2 * (pos + 1)
    BY <2>5
  <2>8. Named(f)
    BY <2>2, <2>7 DEF Named
  <2>9. f.detected_at <= 2 * Len(log) + 1
    BY <2>7 DEF IInv, TypeOK
  <2>10. TypeOK /\ f.detector \notin OwnDetectors
    BY <1>8, <2>7, Disjoint DEF IInv
  <2>11. /\ TablesInv(t)
         /\ t.events = db.events /\ t.rejected = db.rejected
         /\ t.analysed = db.analysed /\ t.inference = db.inference
         /\ db.insights \subseteq t.insights
         /\ Known(t, f)
    BY <1>3, <1>8, <2>1, <2>6, <2>7, <2>8, <2>9, <2>10, SaveFindingKeeps
  <2>12. MarkerInv(t)
    BY <1>3, <2>11, MarkerStays
  <2>13. \E i \in t.insights : i.detector = m.detector /\ i.end = m.end
    BY <2>7, <2>11 DEF Known
  <2>14. QED BY <1>8, <2>11, <2>12, <2>13 DEF Later, m
<1>9. QED BY <1>2, <1>5, <1>6, <1>7, <1>8 DEF Detectors
\* Whatever of it is there already, a row that detect inserts leaves the tables in order.
LEMMA InsertKeeps ==
    ASSUME IInv, NEW m \in unsaved, NEW t, t = [db EXCEPT !.incidents = SaveIncident(@, m)]
    PROVE  TablesInv(t) /\ MarkerInv(t) /\ Later(t)
<1>1. db \in Tables /\ TablesInv(db) /\ MarkerInv(db)
  BY DEF IInv, TypeOK
<1>2. Named(m) /\ m \in Messages
  BY DEF IInv, LogInv, TypeOK
<1>3. m.id \in Ids /\ m.detector \in Detectors /\ m.end \in Nat
  BY <1>2 DEF Messages
<1> DEFINE S == SaveIncident(db.incidents, m)
<1>4. /\ S \in SUBSET IncidentRows
      /\ db.incidents \subseteq S
      /\ \A i \in S : Named(i)
      /\ \A i, j \in S : i.id = j.id => i = j
      /\ \A i \in S : i \in db.incidents \/
           (i.id = m.id /\ i.case = 0 /\ \A f \in db.insights : f.id # m.id)
  BY <1>1, <1>2, <1>3, IncidentSaved DEF TablesInv
<1> HIDE DEF S
<1>5. t = [db EXCEPT !.incidents = S]
  BY DEF S
<1>6. /\ t \in Tables /\ t.incidents = S /\ t.insights = db.insights /\ t.cases = db.cases
      /\ t.outbox = db.outbox /\ t.analysed = db.analysed /\ t.events = db.events
      /\ t.rejected = db.rejected /\ t.inference = db.inference
  BY <1>1, <1>4, <1>5 DEF Tables
<1>7. RowsInv(t)
  <2>1. \A i \in S : i.case # 0 <=> \E f \in db.insights : f.id = i.id
    BY <1>1, <1>4 DEF TablesInv, RowsInv
  <2>2. \A f \in db.insights : Named(f) /\ \E i \in S : i.id = f.id
    BY <1>1, <1>4 DEF TablesInv, RowsInv
  <2>3. QED BY <1>4, <1>6, <2>1, <2>2 DEF RowsInv
<1>8. CasesInv(t)
  <2>1. CasesInv(db)
    BY <1>1 DEF TablesInv
  <2>2. \A i \in t.incidents : i.case # 0 =>
          i.case \in DOMAIN t.cases /\ \E n \in DOMAIN t.cases[i.case].timeline :
                                          t.cases[i.case].timeline[n] = i.id
    BY <1>4, <1>6, <2>1 DEF CasesInv
  <2>3. \A c \in DOMAIN t.cases : \A n \in DOMAIN t.cases[c].timeline :
          \E i \in t.incidents : i.id = t.cases[c].timeline[n] /\ i.case = c
    BY <1>4, <1>6, <2>1 DEF CasesInv
  <2>4. \A c \in DOMAIN t.cases :
          /\ t.cases[c].opened_at <= 2 * Len(log) + 1
          /\ \A k, n \in DOMAIN t.cases[c].timeline :
               t.cases[c].timeline[k] = t.cases[c].timeline[n] => k = n
    BY <1>6, <2>1 DEF CasesInv
  <2>5. QED BY <2>2, <2>3, <2>4 DEF CasesInv
<1>9. EpisodesInv(t)
  <2> DEFINE Good(cases, rows, c, n) == \E k \in 1..n - 1 : \E i, j \in rows :
               /\ i.id = cases[c].timeline[n] /\ j.id = cases[c].timeline[k]
               /\ i.end - j.end \in 0..Episode
  <2>1. \A c \in DOMAIN db.cases : \A n \in 2..Len(db.cases[c].timeline) :
          Good(db.cases, db.incidents, c, n)
    BY <1>1 DEF TablesInv, EpisodesInv
  <2>2. ASSUME NEW c, NEW n, Good(db.cases, db.incidents, c, n)
        PROVE  Good(db.cases, S, c, n)
    BY <1>4, <2>2
  <2> HIDE DEF Good
  <2>3. \A c \in DOMAIN t.cases : \A n \in 2..Len(t.cases[c].timeline) :
          Good(t.cases, t.incidents, c, n)
    BY <1>6, <2>1, <2>2
  <2>4. QED BY <2>3 DEF EpisodesInv, Good
<1>10. OutboxInv(t) /\ InsightsInv(t)
  BY <1>1, <1>6 DEF TablesInv, OutboxInv, InsightsInv
<1>11. MarkerInv(t)
  BY <1>1, <1>6, MarkerStays
<1>12. QED BY <1>6, <1>7, <1>8, <1>9, <1>10, <1>11 DEF TablesInv, Later

\* One detector's part of an evaluation: what it finds is covered afterwards.
LEMMA FoundKeeps ==
    ASSUME TypeOK, latest > 0, NEW t, TablesInv(t), NEW d \in OwnDetectors,
           NEW found, NEW u, u = SaveFound(t, d, found)
    PROVE  /\ TablesInv(u)
           /\ u.events = t.events /\ u.rejected = t.rejected
           /\ u.analysed = t.analysed /\ u.inference = t.inference
           /\ t.insights \subseteq u.insights
           /\ d \in found => Covered(u, d, latest)
<1>1. CASE d \notin found
  BY <1>1 DEF SaveFound
<1>2. CASE d \in found
  <2> DEFINE f == Own(d)
  <2>1. Len(db.outbox) \in Nat /\ Len(log) \in Nat
    BY TableTypes DEF TypeOK
  <2>2. latest \in Nat /\ d \in Detectors
    BY LatestIs DEF Detectors
  <2>3. f = [detector |-> d, end |-> latest, id |-> <<d, latest>>,
             detected_at |-> 2 * Len(log) + 1, created_at |-> Len(db.outbox)]
    BY DEF Own, OwnId, Finding
  <2>4. u = SaveFinding(t, f)
    BY <1>2 DEF SaveFound
  <2> HIDE DEF f
  <2>5. f \in FindingRows
    BY <2>1, <2>2, <2>3 DEF FindingRows, Ids
  <2>6. f.detector = d /\ f.end = latest /\ f.id = <<d, latest>> /\ f.detected_at = 2 * Len(log) + 1
    BY <2>3
  <2>7. Named(f) /\ f.detector \in OwnDetectors
    BY <2>6 DEF Named, OwnId
  <2>8. f.detected_at <= 2 * Len(log) + 1
    BY <2>1, <2>6
  <2>9. /\ TablesInv(u)
        /\ u.events = t.events /\ u.rejected = t.rejected
        /\ u.analysed = t.analysed /\ u.inference = t.inference
        /\ t.insights \subseteq u.insights
        /\ Covered(u, f.detector, f.end)
    BY <2>4, <2>5, <2>6, <2>7, <2>8, SaveFindingKeeps
  <2>10. QED BY <2>6, <2>9
<1>3. QED BY <1>1, <1>2

\* An evaluation leaves the tables in order, and its marker at the latest window.
LEMMA AnalysedKeeps ==
    ASSUME IInv, Due, NEW ready \in BOOLEAN, NEW t, t = Analysed(ready)
    PROVE  TablesInv(t) /\ MarkerInv(t) /\ Later(t)
<1>1. TypeOK /\ latest > 0 /\ latest \in Nat /\ latest \in DOMAIN windows
  BY LatestIs DEF IInv, Due
<1>2. TablesInv(db) /\ MarkerInv(db)
  BY DEF IInv
<1>3. KpiDetector \in OwnDetectors /\ ModelDetector \in OwnDetectors
  BY DEF OwnDetectors
<1> DEFINE found == Found(ready)
           k == SaveFound(db, KpiDetector, found)
           u == SaveFound(k, ModelDetector, found)
<1>4. /\ TablesInv(k)
      /\ k.events = db.events /\ k.rejected = db.rejected
      /\ k.analysed = db.analysed /\ k.inference = db.inference
      /\ db.insights \subseteq k.insights
      /\ KpiDetector \in found => Covered(k, KpiDetector, latest)
  BY <1>1, <1>2, <1>3, FoundKeeps
<1> HIDE DEF k
<1>5. /\ TablesInv(u)
      /\ u.events = k.events /\ u.rejected = k.rejected
      /\ u.analysed = k.analysed /\ u.inference = k.inference
      /\ k.insights \subseteq u.insights
      /\ ModelDetector \in found => Covered(u, ModelDetector, latest)
  BY <1>1, <1>3, <1>4, FoundKeeps
<1>6. t = [u EXCEPT !.analysed[version] = latest, !.inference = Inference(ready)]
  BY DEF Analysed, k
<1> HIDE DEF u
<1>7. \A d \in found : Covered(u, d, latest)
  <2>1. \A d \in found : d \in OwnDetectors
    BY <1>1 DEF TypeOK, Found
  <2>2. KpiDetector \in found => Covered(u, KpiDetector, latest)
    BY <1>4, <1>5 DEF Covered
  <2>3. QED BY <1>5, <2>1, <2>2 DEF OwnDetectors
<1> HIDE DEF found
<1> DEFINE a == [u.analysed EXCEPT ![version] = latest]
<1>8. version \in Versions /\ u.analysed \in [rules : Nat, model : Nat]
  BY <1>5, TableTypes DEF version, Versions, TablesInv
<1>9. a \in [rules : Nat, model : Nat] /\ a[version] = latest
      /\ \A v \in Versions : v # version => a[v] = u.analysed[v]
  BY <1>1, <1>8 DEF Versions
<1> DEFINE n == Inference(ready)
<1>10. t = [u EXCEPT !.analysed = a, !.inference = n]
  BY <1>6
<1> HIDE DEF a
<1>10a. n \in Inferences
  <2>1. db.inference \in Inferences
    BY <1>2, TableTypes DEF TablesInv
  <2>2. QED BY <1>1, <2>1 DEF Inference, Inferences
<1> HIDE DEF n
<1>11. /\ t \in Tables /\ t.analysed = a /\ t.inference = n /\ t.incidents = u.incidents /\ t.insights = u.insights
       /\ t.cases = u.cases /\ t.outbox = u.outbox /\ t.events = u.events
       /\ t.rejected = u.rejected
  BY <1>5, <1>9, <1>10, <1>10a DEF Tables, TablesInv
<1>12. TablesInv(t)
  BY <1>5, <1>11, SameTables
<1>13. MarkerInv(t)
  <2> SUFFICES ASSUME NEW v \in Versions, t.analysed[v] > 0
               PROVE  /\ t.analysed[v] \in DOMAIN windows
                      /\ \A d \in windows[t.analysed[v]] :
                           Covered(t, d, t.analysed[v]) \/ Excused(t, v, d)
    BY DEF MarkerInv
  <2>1. CASE v = version
    <3>1. t.analysed[v] = latest
      BY <1>9, <1>11, <2>1
    <3>2. \A d \in windows[latest] : d \in found \/ Excused(t, v, d)
      <4>1. active => v = "model" /\ n = [state |-> IF ready THEN "ready" ELSE "abstained", end |-> latest]
        BY <2>1 DEF version, n, Inference
      <4>2. ~active => v = "rules"
        BY <2>1 DEF version
      <4>3. \A d \in windows[latest] : d \in found \/ (d = ModelDetector /\ ~(active /\ ready))
        BY DEF Found, found
      <4>4. CASE active /\ ~ready
        <5>1. t.inference = [state |-> "abstained", end |-> t.analysed["model"]]
          BY <4>1, <4>4, <1>11, <3>1
        <5>2. QED BY <4>1, <4>3, <4>4, <5>1 DEF Excused
      <4>5. CASE ~active
        BY <4>2, <4>3, <4>5 DEF Excused
      <4>6. CASE active /\ ready
        BY <4>3, <4>6
      <4>7. QED BY <4>4, <4>5, <4>6
    <3>3. \A d \in found : Covered(t, d, latest)
      BY <1>7, <1>11 DEF Covered
    <3>4. QED BY <1>1, <3>1, <3>2, <3>3
  <2>2. CASE v # version
    <3>1. t.analysed[v] = db.analysed[v] /\ db.insights \subseteq t.insights
      BY <1>4, <1>5, <1>9, <1>11, <2>2
    <3>2. v = "model" => t.inference = db.inference
      BY <1>11, <2>2 DEF version, n, Inference
    <3>3. \A d : Excused(db, v, d) => Excused(t, v, d)
      BY <3>1, <3>2 DEF Excused
    <3>4. \A d : Covered(db, d, db.analysed[v]) => Covered(t, d, t.analysed[v])
      BY <3>1 DEF Covered
    <3>5. QED BY <1>2, <3>1, <3>3, <3>4 DEF MarkerInv
  <2>3. QED BY <2>1, <2>2
<1>14. QED BY <1>4, <1>5, <1>11, <1>12, <1>13 DEF Later

\* A published row is the row it was.
LEMMA PublishedKeeps ==
    ASSUME IInv, NEW n \in DOMAIN db.outbox, NEW t, t = [db EXCEPT !.outbox[n].published = TRUE]
    PROVE  TablesInv(t) /\ MarkerInv(t) /\ Later(t)
<1>1. db \in Tables /\ TablesInv(db) /\ MarkerInv(db)
  BY DEF IInv, TypeOK
<1>2. db.outbox \in Seq(OutboxRows)
  BY <1>1, TableTypes
<1> DEFINE row == [db.outbox[n] EXCEPT !.published = TRUE]
           o == [db.outbox EXCEPT ![n] = row]
<1>3. db.outbox[n] \in OutboxRows
  BY <1>2
<1>4. row \in OutboxRows /\ row.kind = db.outbox[n].kind /\ row.finding = db.outbox[n].finding
  BY <1>3 DEF OutboxRows
<1>5. t = [db EXCEPT !.outbox = o]
  OBVIOUS
<1> HIDE DEF row
<1>6. o \in Seq(OutboxRows) /\ DOMAIN o = DOMAIN db.outbox
  BY <1>2, <1>4
<1>7. \A k \in DOMAIN o : o[k].kind = db.outbox[k].kind /\ o[k].finding = db.outbox[k].finding
  BY <1>4
<1> HIDE DEF o
<1>8. /\ t \in Tables /\ t.outbox = o /\ t.incidents = db.incidents /\ t.insights = db.insights
      /\ t.cases = db.cases /\ t.analysed = db.analysed /\ t.events = db.events
      /\ t.rejected = db.rejected /\ t.inference = db.inference
  BY <1>1, <1>5, <1>6 DEF Tables
<1>9. OutboxInv(t)
  <2>1. OutboxInv(db)
    BY <1>1 DEF TablesInv
  <2>2. \A k \in DOMAIN t.outbox :
          /\ t.outbox[k].finding \in t.insights
          /\ t.outbox[k].kind = "incident" => t.outbox[k].finding.detector \in OwnDetectors
    BY <1>6, <1>7, <1>8, <2>1 DEF OutboxInv
  <2>3. \A k, l \in DOMAIN t.outbox :
          t.outbox[k].kind = t.outbox[l].kind /\ t.outbox[k].finding = t.outbox[l].finding => k = l
    BY <1>6, <1>7, <1>8, <2>1 DEF OutboxInv
  <2>4. \A f \in t.insights : \E k \in DOMAIN t.outbox :
          t.outbox[k].kind = "insight" /\ t.outbox[k].finding = f
    <3>1. ASSUME NEW f \in db.insights
          PROVE  \E k \in DOMAIN o : o[k].kind = "insight" /\ o[k].finding = f
      <4>1. PICK k \in DOMAIN db.outbox : db.outbox[k].kind = "insight" /\ db.outbox[k].finding = f
        BY <2>1 DEF OutboxInv
      <4>2. QED BY <4>1, <1>6, <1>7
    <3>2. QED BY <3>1, <1>8
  <2>5. \A f \in t.insights : f.detector \in OwnDetectors =>
          \E k \in DOMAIN t.outbox : t.outbox[k].kind = "incident" /\ t.outbox[k].finding = f
    <3>1. ASSUME NEW f \in db.insights, f.detector \in OwnDetectors
          PROVE  \E k \in DOMAIN o : o[k].kind = "incident" /\ o[k].finding = f
      <4>1. PICK k \in DOMAIN db.outbox : db.outbox[k].kind = "incident" /\ db.outbox[k].finding = f
        BY <2>1, <3>1 DEF OutboxInv
      <4>2. QED BY <4>1, <1>6, <1>7
    <3>2. QED BY <3>1, <1>8
  <2>6. QED BY <2>2, <2>3, <2>4, <2>5 DEF OutboxInv
<1>10. RowsInv(t) /\ CasesInv(t) /\ InsightsInv(t)
  BY <1>1, <1>8 DEF TablesInv, RowsInv, CasesInv, InsightsInv
<1>11. EpisodesInv(t)
  <2> DEFINE Good(cases, rows, c, k) == \E l \in 1..k - 1 : \E i, j \in rows :
               /\ i.id = cases[c].timeline[k] /\ j.id = cases[c].timeline[l]
               /\ i.end - j.end \in 0..Episode
  <2>1. \A c \in DOMAIN db.cases : \A k \in 2..Len(db.cases[c].timeline) :
          Good(db.cases, db.incidents, c, k)
    BY <1>1 DEF TablesInv, EpisodesInv
  <2> HIDE DEF Good
  <2>2. \A c \in DOMAIN t.cases : \A k \in 2..Len(t.cases[c].timeline) :
          Good(t.cases, t.incidents, c, k)
    BY <1>8, <2>1
  <2>3. QED BY <2>2 DEF EpisodesInv, Good
<1>12. MarkerInv(t)
  BY <1>1, <1>8, MarkerStays
<1>13. QED BY <1>8, <1>9, <1>10, <1>11, <1>12 DEF TablesInv, Later
\* Names stay as the log grows.
LEMMA NamedGrows ==
    ASSUME Grows, NEW x, Named(x)
    PROVE  Named(x)'
<1>1. CASE x.detector \in OwnDetectors /\ x.id = OwnId(x.detector, x.end)
  BY <1>1 DEF Named, OwnDetectors, OwnId
<1>2. CASE x.detector \in RuleDetectors /\ \E n \in DOMAIN log :
             /\ x.id = <<x.detector, n>>
             /\ log[n].kind = "incident" /\ log[n].detector = x.detector /\ log[n].end = x.end
  BY <1>2 DEF Named, Grows
<1>3. QED BY <1>1, <1>2 DEF Named

\* Tables in order are so after a step that leaves them, whatever else it adds.
LEMMA TablesGrow ==
    ASSUME TypeOK, TypeOK', Grows, NEW t, t = db', TablesInv(t), MarkerInv(t)
    PROVE  TablesInv(db)' /\ MarkerInv(db)'
<1>1. t \in Tables /\ RowsInv(t) /\ CasesInv(t) /\ EpisodesInv(t) /\ OutboxInv(t) /\ InsightsInv(t)
  BY DEF TablesInv
<1>2. RowsInv(t)'
  <2>1. \A i \in t.incidents : Named(i)'
    BY <1>1, NamedGrows DEF RowsInv
  <2>2. \A f \in t.insights : Named(f)'
    BY <1>1, NamedGrows DEF RowsInv
  <2> HIDE DEF Named
  <2>3. QED BY <1>1, <2>1, <2>2 DEF RowsInv
<1>3. CasesInv(t)'
  <2>1. Len(log) \in Nat /\ Len(log') \in Nat /\ Len(log) <= Len(log')
    BY DEF TypeOK, Grows
  <2>2. t.cases \in Seq(CaseRows)
    BY <1>1, TableTypes
  <2>3. \A c \in DOMAIN t.cases : t.cases[c].opened_at \in Nat
    <3>1. \A c \in DOMAIN t.cases : t.cases[c] \in CaseRows
      BY <2>2
    <3>2. QED BY <3>1 DEF CaseRows
  <2>4. \A c \in DOMAIN t.cases : t.cases[c].opened_at <= 2 * Len(log') + 1
    BY <1>1, <2>1, <2>3 DEF CasesInv
  <2>5. QED BY <1>1, <2>4 DEF CasesInv
<1>4. EpisodesInv(t)'
  BY <1>1 DEF EpisodesInv
<1>5. OutboxInv(t)'
  BY <1>1 DEF OutboxInv, OwnDetectors
<1>6. InsightsInv(t)'
  BY <1>1 DEF InsightsInv, Grows, OwnDetectors
<1>7. MarkerInv(t)'
  BY DEF MarkerInv, Covered, Excused, Grows, Versions
<1>8. TablesInv(t)'
  BY <1>1, <1>2, <1>3, <1>4, <1>5, <1>6 DEF TablesInv, Tables
<1>9. QED BY <1>7, <1>8
\* Message m, at this offset, has left in t what it asks for.
Done(t, m, n) ==
    /\ m.kind = "event" => n \in t.events
    /\ m.kind = "invalid" => n \in t.rejected
    /\ m.kind = "incident" => \E i \in t.insights : i.detector = m.detector /\ i.end = m.end

\* The invariant after a step, from what the step does to each part of it.
LEMMA StepKeeps ==
    ASSUME IInv, TypeOK', Grows, NEW t, t = db', TablesInv(t), MarkerInv(t), Later(t),
           committed' <= pos', pos' <= Len(log'), pos' <= pos + 1,
           pos' = pos + 1 => pos' <= Len(log) /\ Done(t, log[pos + 1], pos + 1),
           \A m \in unsaved' : Named(m)',
           \A n \in DOMAIN log' : n \in DOMAIN log \/
               (log'[n].kind = "incident" =>
                   /\ Named(log[n])'
                   /\ log'[n].detector \in RuleDetectors => log'[n].id = <<log'[n].detector, n>>
                   /\ log'[n].detector \in OwnDetectors =>
                        \E i \in t.insights : i.detector = log'[n].detector /\ i.end = log'[n].end)
    PROVE  IInv'
<1>1. TypeOK /\ LogInv /\ HandledInv
  BY DEF IInv
<1>2. TablesInv(db)' /\ MarkerInv(db)'
  BY <1>1, TablesGrow
<1>3. LogInv'
  <2>1. ASSUME NEW n \in DOMAIN log', log'[n].kind = "incident"
        PROVE  /\ Named(log[n])'
               /\ log'[n].detector \in RuleDetectors => log'[n].id = <<log'[n].detector, n>>
               /\ log'[n].detector \in OwnDetectors =>
                    \E i \in t.insights : i.detector = log'[n].detector /\ i.end = log'[n].end
    <3>1. CASE n \in DOMAIN log
      <4>1. PICK m : m = log[n]
        OBVIOUS
      <4>2. log'[n] = m /\ m.kind = "incident"
        BY <2>1, <3>1, <4>1 DEF Grows
      <4>3. /\ Named(m)
            /\ m.detector \in RuleDetectors => m.id = <<m.detector, n>>
            /\ m.detector \in OwnDetectors =>
                 \E i \in t.insights : i.detector = m.detector /\ i.end = m.end
        BY <1>1, <3>1, <4>1, <4>2 DEF LogInv, HasInsight, Later
      <4>4. Named(m)'
        BY <4>3, NamedGrows
      <4>5. QED BY <4>2, <4>3, <4>4
    <3>2. CASE n \notin DOMAIN log
      <4> HIDE DEF Named
      <4>1. QED BY <2>1, <3>2
    <3>3. QED BY <3>1, <3>2
  <2>2. \A n \in DOMAIN log' : log'[n].kind = "incident" =>
          /\ Named(log[n])'
          /\ log'[n].detector \in RuleDetectors => log'[n].id = <<log'[n].detector, n>>
          /\ log'[n].detector \in OwnDetectors => HasInsight(log[n].detector, log[n].end)'
    BY <2>1 DEF HasInsight
  <2> HIDE DEF Named
  <2>3. QED BY <2>2 DEF LogInv, OwnDetectors
<1>4. HandledInv'
  <2>1. ASSUME NEW n \in 1..pos' PROVE Done(t, log'[n], n)
    <3>1. pos \in Nat /\ pos' \in Nat /\ log \in Seq(Messages) /\ pos <= Len(log)
      BY <1>1 DEF TypeOK, LogInv
    <3>2. n \in DOMAIN log /\ log'[n] = log[n]
      BY <2>1, <3>1 DEF Grows
    <3>3. CASE n \in 1..pos
      BY <1>1, <3>2, <3>3 DEF HandledInv, HasInsight, Done, Later
    <3>4. CASE n = pos + 1
      BY <3>1, <3>2, <3>4
    <3>5. QED BY <3>1, <3>3, <3>4
  <2>2. QED BY <2>1 DEF HandledInv, HasInsight, Done
<1>5. QED BY <1>2, <1>3, <1>4 DEF IInv
-------------------------------------------------------------------------------
(***************************************************************************)
(* The steps.                                                              *)
(***************************************************************************)

\* A step that sends nothing to the topics and seals no window.
LEMMA QuietStep ==
    ASSUME IInv, UNCHANGED <<log, windows>>, fresh' \in BOOLEAN, active' \in BOOLEAN,
           NEW t, t = db', TablesInv(t), MarkerInv(t), Later(t),
           unsaved' \subseteq unsaved,
           pos' \in Nat, committed' \in Nat, committed' <= pos', pos' <= pos + 1,
           pos' = pos + 1 => pos < Len(log) /\ Done(t, log[pos + 1], pos + 1),
           delivered' \subseteq Nat, input' \in Nat, faults' \in Nat
    PROVE  IInv'
<1>1. TypeOK /\ LogInv
  BY DEF IInv
<1>2. TypeOK'
  BY <1>1 DEF TypeOK, TablesInv, Tables
<1>3. Grows
  BY <1>1 DEF Grows, TypeOK
<1>4. \A m \in unsaved' : Named(m)'
  BY <1>1, <1>3, NamedGrows DEF LogInv
<1>5. pos' <= Len(log') /\ (pos' = pos + 1 => pos' <= Len(log))
  BY <1>1 DEF TypeOK, LogInv
<1>6. \A n \in DOMAIN log' : n \in DOMAIN log
  OBVIOUS
<1>7. QED BY <1>2, <1>3, <1>4, <1>5, <1>6, StepKeeps

\* The log with one message more.
LEMMA AppendGrows ==
    ASSUME TypeOK, NEW m \in Messages, log' = Append(log, m), windows' = windows
    PROVE  /\ Grows /\ log' \in Seq(Messages)
           /\ Len(log) + 1 \in DOMAIN log' /\ log'[Len(log) + 1] = m
           /\ \A n \in DOMAIN log' : n \in DOMAIN log \/ n = Len(log) + 1
<1>1. log \in Seq(Messages) /\ Len(log) \in Nat
  BY DEF TypeOK
<1>2. /\ log' \in Seq(Messages) /\ Len(log') = Len(log) + 1
      /\ \A n \in 1..Len(log) : log'[n] = log[n]
      /\ log'[Len(log) + 1] = m
  BY <1>1
<1>3. QED BY <1>1, <1>2 DEF Grows

\* A step that sends one message, and may lose the place in the topics.
LEMMA SendStep ==
    ASSUME IInv, NEW m \in Messages, log' = Append(log, m), UNCHANGED <<windows, fresh, active>>,
           NEW t, t = db', TablesInv(t), MarkerInv(t), Later(t),
           unsaved' \in SUBSET Messages, \A k \in unsaved' : k \in unsaved \/ k = m,
           m.kind = "incident" =>
               \/ m.detector \in RuleDetectors /\ m.id = <<m.detector, Len(log) + 1>>
               \/ /\ m.detector \in OwnDetectors /\ m.id = OwnId(m.detector, m.end)
                  /\ HasInsight(m.detector, m.end),
           unsaved' # unsaved => m.kind = "incident",
           committed' = committed, pos' \in {pos, committed},
           delivered' \subseteq Nat, input' \in Nat, faults' \in Nat
    PROVE  IInv'
<1>1. TypeOK /\ LogInv
  BY DEF IInv
<1>2. /\ Grows /\ log' \in Seq(Messages)
      /\ Len(log) + 1 \in DOMAIN log' /\ log'[Len(log) + 1] = m
      /\ \A n \in DOMAIN log' : n \in DOMAIN log \/ n = Len(log) + 1
  BY <1>1, AppendGrows
<1>3. TypeOK'
  BY <1>1, <1>2 DEF TypeOK, TablesInv, Tables
<1>4. pos \in Nat /\ committed \in Nat /\ committed <= pos /\ pos <= Len(log) /\ Len(log) \in Nat
  BY <1>1 DEF TypeOK, LogInv
<1>5. committed' <= pos' /\ pos' <= pos /\ pos' <= Len(log')
  BY <1>2, <1>3, <1>4 DEF TypeOK, Grows
<1>6. m.kind = "incident" => Named(m)'
  <2>1. CASE m.detector \in RuleDetectors /\ m.id = <<m.detector, Len(log) + 1>>
    BY <1>2, <2>1 DEF Named
  <2>2. CASE m.detector \in OwnDetectors /\ m.id = OwnId(m.detector, m.end)
    BY <2>2 DEF Named, OwnDetectors, OwnId
  <2>3. QED BY <2>1, <2>2
<1>7. \A k \in unsaved' : Named(k)'
  <2>1. \A k \in unsaved : Named(k)'
    BY <1>1, <1>2, NamedGrows DEF LogInv
  <2> HIDE DEF Named
  <2>2. QED BY <1>6, <2>1
<1>8. PICK n : n = Len(log) + 1
  OBVIOUS
<1>9. m.kind = "incident" =>
        /\ Named(log[n])'
        /\ m.detector \in RuleDetectors => m.id = <<m.detector, n>>
        /\ m.detector \in OwnDetectors => \E i \in t.insights : i.detector = m.detector /\ i.end = m.end
  <2>1. m = log[n]'
    BY <1>2, <1>8
  <2>2. m.kind = "incident" => Named(log[n])'
    BY <1>6, <2>1 DEF Named
  <2>3. QED BY <1>8, <2>2, Disjoint DEF HasInsight, Later
<1>10. \A k \in DOMAIN log' : k \in DOMAIN log \/ k = n
  BY <1>2, <1>8
<1>11. log'[n] = m
  BY <1>2, <1>8
<1> HIDE DEF Named
<1>12. \A k \in DOMAIN log' : k \in DOMAIN log \/
         (log'[k].kind = "incident" =>
             /\ Named(log[k])'
             /\ log'[k].detector \in RuleDetectors => log'[k].id = <<log'[k].detector, k>>
             /\ log'[k].detector \in OwnDetectors =>
                  \E i \in t.insights : i.detector = log'[k].detector /\ i.end = log'[k].end)
  BY <1>9, <1>10, <1>11
<1>13. QED BY <1>2, <1>3, <1>4, <1>5, <1>7, <1>12, StepKeeps
\* Tables that are left alone stay as they are.
LEMMA SelfKeeps ==
    ASSUME IInv
    PROVE  TablesInv(db) /\ MarkerInv(db) /\ Later(db)
  BY DEF IInv, Later

\* ingest and detect send, detect inserts, windows are sealed, models promoted.
LEMMA EnvironmentKeeps ==
    ASSUME IInv, Environment
    PROVE  IInv'
<1>1. TypeOK /\ LogInv /\ db \in Tables
  BY DEF IInv, TypeOK
<1>2. /\ pos \in Nat /\ committed \in Nat /\ committed <= pos /\ pos <= Len(log) /\ Len(log) \in Nat
      /\ input \in Nat /\ faults \in Nat /\ fresh \in BOOLEAN /\ active \in BOOLEAN /\ delivered \subseteq Nat
  BY <1>1 DEF TypeOK, LogInv
<1>3. PICK t : t = db'
  OBVIOUS
<1>4. ASSUME NEW kind \in Kinds, Produce(kind) PROVE IInv'
  <2> DEFINE m == Message(kind)
  <2>1. m = [kind |-> kind, id |-> <<ModelDetector, 0>>, detector |-> ModelDetector, end |-> 0]
    BY DEF Message
  <2> HIDE DEF m
  <2>2. m \in Messages /\ m.kind # "incident"
    BY <2>1, KindsAssumption DEF Messages, Ids, Detectors, OwnDetectors
  <2>3. /\ log' = Append(log, m) /\ UNCHANGED <<windows, fresh, active>> /\ db' = db
        /\ unsaved' = unsaved /\ committed' = committed /\ pos' = pos /\ delivered' = delivered
        /\ input' = input + 1 /\ faults' = faults
    BY <1>4 DEF Produce, m
  <2>4. TablesInv(t) /\ MarkerInv(t) /\ Later(t)
    BY <1>3, <2>3, SelfKeeps
  <2>5. unsaved' \in SUBSET Messages
    BY <1>1, <2>3 DEF TypeOK
  <2>6. QED BY <1>2, <1>3, <2>2, <2>3, <2>4, <2>5, SendStep
<1>5. ASSUME NEW d \in RuleDetectors, NEW end \in Ends, Detect(d, end) PROVE IInv'
  <2> DEFINE m == Incident(d, end, <<d, Len(log) + 1>>)
  <2>1. m = [kind |-> "incident", id |-> <<d, Len(log) + 1>>, detector |-> d, end |-> end]
    BY DEF Incident
  <2>2. /\ log' = Append(log, m) /\ UNCHANGED <<windows, fresh, active>> /\ db' = db
        /\ unsaved' = unsaved \cup {m} /\ committed' = committed /\ pos' = pos
        /\ delivered' = delivered /\ input' = input + 1 /\ faults' = faults
    BY <1>5 DEF Detect
  <2> HIDE DEF m
  <2>3. m \in Messages
    BY <1>2, <2>1, BoundAssumption DEF Messages, Ids, Detectors, Ends
  <2>4. /\ m.kind = "incident" /\ m.detector \in RuleDetectors
        /\ m.id = <<m.detector, Len(log) + 1>>
    BY <2>1
  <2>5. TablesInv(t) /\ MarkerInv(t) /\ Later(t)
    BY <1>3, <2>2, SelfKeeps
  <2>6. unsaved' \in SUBSET Messages /\ \A k \in unsaved' : k \in unsaved \/ k = m
    BY <1>1, <2>2, <2>3 DEF TypeOK
  <2>7. QED BY <1>2, <1>3, <2>2, <2>3, <2>4, <2>5, <2>6, SendStep
<1>6. ASSUME NEW m \in unsaved, DetectInsert(m) PROVE IInv'
  <2>1. /\ UNCHANGED <<log, windows>> /\ fresh' = fresh /\ active' = active
        /\ t = [db EXCEPT !.incidents = SaveIncident(@, m)]
        /\ unsaved' \subseteq unsaved /\ pos' = pos /\ committed' = committed
        /\ delivered' = delivered /\ input' = input /\ faults' = faults
    BY <1>3, <1>6 DEF DetectInsert
  <2>2. TablesInv(t) /\ MarkerInv(t) /\ Later(t)
    BY <2>1, InsertKeeps
  <2>3. QED BY <1>2, <1>3, <2>1, <2>2, QuietStep
<1>7. ASSUME NEW end \in Ends, NEW found \in Findable, Seal(end, found) PROVE IInv'
  <2>1. /\ end > latest
        /\ windows' = [e \in DOMAIN windows \cup {end} |-> IF e = end THEN found ELSE windows[e]]
        /\ fresh' = TRUE
        /\ UNCHANGED <<log, pos, committed, unsaved, active, db, delivered, input, faults>>
    BY <1>7 DEF Seal
  <2>2. end \notin DOMAIN windows
    BY <1>1, <2>1, LatestIs
  <2>3. Grows
    BY <1>2, <2>1, <2>2 DEF Grows
  <2>4. found \subseteq OwnDetectors
    BY DetectorsAssumption DEF OwnDetectors
  <2>5. DOMAIN windows' \subseteq Ends /\ \A e \in DOMAIN windows' : windows'[e] \subseteq OwnDetectors
    BY <1>1, <2>1, <2>4 DEF TypeOK
  <2>6. TypeOK'
    <3> HIDE DEF Tables
    <3>1. QED BY <1>1, <2>1, <2>5 DEF TypeOK, OwnDetectors, Ends
  <2>7. TablesInv(t) /\ MarkerInv(t) /\ Later(t)
    BY <1>3, <2>1, SelfKeeps
  <2>8. \A m \in unsaved' : Named(m)'
    BY <1>1, <2>1, <2>3, NamedGrows DEF LogInv
  <2>9. \A n \in DOMAIN log' : n \in DOMAIN log
    BY <2>1
  <2>10. committed' <= pos' /\ pos' <= Len(log') /\ pos' <= pos + 1 /\ pos' # pos + 1
    BY <1>2, <2>1
  <2>11. QED BY <1>3, <2>3, <2>6, <2>7, <2>8, <2>9, <2>10, StepKeeps
<1>8. CASE Promote
  <2>1. /\ UNCHANGED <<log, windows>> /\ fresh' = fresh /\ active' \in BOOLEAN /\ t = db
        /\ unsaved' = unsaved /\ pos' = pos /\ committed' = committed
        /\ delivered' = delivered /\ input' = input /\ faults' = faults
    BY <1>3, <1>8 DEF Promote
  <2>2. TablesInv(t) /\ MarkerInv(t) /\ Later(t)
    BY <2>1, SelfKeeps
  <2>3. QED BY <1>2, <1>3, <2>1, <2>2, QuietStep
<1>9. CASE Age
  <2>1. /\ UNCHANGED <<log, pos, committed, unsaved, active, db, delivered, input>>
        /\ faults' = faults + 1 /\ fresh' \in BOOLEAN
        /\ windows' = windows \/ \E d : windows' = [windows EXCEPT ![latest] = @ \ {d}]
    BY <1>1, <1>9 DEF Age, Fault, TypeOK
  <2>2. DOMAIN windows' = DOMAIN windows /\ \A e \in DOMAIN windows : windows'[e] \subseteq windows[e]
    BY <2>1
  <2>3. Grows
    BY <1>2, <2>1, <2>2 DEF Grows
  <2>4. DOMAIN windows' \subseteq Ends /\ \A e \in DOMAIN windows' : windows'[e] \subseteq OwnDetectors
    BY <1>1, <2>2 DEF TypeOK
  <2>5. TypeOK'
    <3> HIDE DEF Tables
    <3>1. faults' \in Nat
      BY <1>2, <2>1
    <3>2. QED BY <1>1, <2>1, <2>4, <3>1 DEF TypeOK, OwnDetectors, Ends
  <2>6. TablesInv(t) /\ MarkerInv(t) /\ Later(t)
    BY <1>3, <2>1, SelfKeeps
  <2>7. \A m \in unsaved' : Named(m)'
    BY <1>1, <2>1, <2>3, NamedGrows DEF LogInv
  <2>8. \A n \in DOMAIN log' : n \in DOMAIN log
    BY <2>1
  <2>9. committed' <= pos' /\ pos' <= Len(log') /\ pos' <= pos + 1 /\ pos' # pos + 1
    BY <1>2, <2>1
  <2>10. QED BY <1>3, <2>3, <2>5, <2>6, <2>7, <2>8, <2>9, StepKeeps
<1>10. QED BY <1>4, <1>5, <1>6, <1>7, <1>8, <1>9 DEF Environment

\* Messages, commits, evaluations, with and without failures, and crashes.
LEMMA WorkerKeeps ==
    ASSUME IInv, Handle \/ HandleFails \/ Commit \/ Evaluate \/ EvaluateFails \/ Crash
    PROVE  IInv'
<1>1. TypeOK /\ LogInv /\ db \in Tables
  BY DEF IInv, TypeOK
<1>2. /\ pos \in Nat /\ committed \in Nat /\ committed <= pos /\ pos <= Len(log) /\ Len(log) \in Nat
      /\ input \in Nat /\ faults \in Nat /\ fresh \in BOOLEAN /\ active \in BOOLEAN /\ delivered \subseteq Nat
      /\ MaxFaults \in Nat
  BY <1>1, BoundAssumption DEF TypeOK, LogInv
<1>3. PICK t : t = db'
  OBVIOUS
<1>4. t = db => TablesInv(t) /\ MarkerInv(t) /\ Later(t)
  BY SelfKeeps
<1>5. pos < Len(log) /\ t = Handled(log[pos + 1], pos + 1) =>
        TablesInv(t) /\ MarkerInv(t) /\ Later(t) /\ Done(t, log[pos + 1], pos + 1)
  BY HandledKeeps DEF Done
<1>6. Due /\ (\E ready \in BOOLEAN : t = Analysed(ready)) => TablesInv(t) /\ MarkerInv(t) /\ Later(t)
  BY AnalysedKeeps
<1>7. CASE Handle
  <2>1. /\ pos < Len(log) /\ t = Handled(log[pos + 1], pos + 1) /\ pos' = pos + 1
        /\ UNCHANGED <<log, windows>> /\ fresh' = fresh /\ active' = active /\ unsaved' = unsaved
        /\ committed' = committed /\ delivered' = delivered /\ input' = input /\ faults' = faults
    BY <1>3, <1>7 DEF Handle
  <2>2. pos' \in Nat /\ committed' <= pos' /\ committed' \in Nat
    BY <1>2, <2>1
  <2>3. QED BY <1>2, <1>3, <1>5, <2>1, <2>2, QuietStep
<1>8. CASE HandleFails \/ EvaluateFails \/ Crash
  <2>1. /\ UNCHANGED <<log, windows>> /\ fresh' = fresh /\ active' = active /\ unsaved' = unsaved
        /\ pos' = committed /\ committed' = committed /\ delivered' = delivered /\ input' = input
        /\ faults' = faults + 1
    BY <1>8 DEF HandleFails, EvaluateFails, Crash, Fault, Restart
  <2>2. \/ t = db
        \/ pos < Len(log) /\ t = Handled(log[pos + 1], pos + 1)
        \/ Due /\ \E ready \in BOOLEAN : t = Analysed(ready)
    BY <1>3, <1>8 DEF HandleFails, EvaluateFails, Crash
  <2>3. TablesInv(t) /\ MarkerInv(t) /\ Later(t)
    BY <1>4, <1>5, <1>6, <2>2
  <2>4. pos' <= pos + 1 /\ pos' # pos + 1 /\ committed' <= pos' /\ faults' \in Nat
    BY <1>2, <2>1
  <2>5. QED BY <1>2, <1>3, <2>1, <2>3, <2>4, QuietStep
<1>9. CASE Commit \/ Evaluate
  <2>1. /\ UNCHANGED <<log, windows>> /\ fresh' = fresh /\ active' = active /\ unsaved' = unsaved
        /\ pos' = pos /\ committed' \in {committed, pos} /\ delivered' = delivered
        /\ input' = input /\ faults' = faults
    BY <1>9 DEF Commit, Evaluate
  <2>2. t = db \/ (Due /\ \E ready \in BOOLEAN : t = Analysed(ready))
    BY <1>3, <1>9 DEF Commit, Evaluate
  <2>3. TablesInv(t) /\ MarkerInv(t) /\ Later(t)
    BY <1>4, <1>6, <2>2
  <2>4. pos' <= pos + 1 /\ pos' # pos + 1 /\ committed' <= pos' /\ committed' \in Nat
    BY <1>2, <2>1
  <2>5. QED BY <1>2, <1>3, <2>1, <2>3, <2>4, QuietStep
<1>10. QED BY <1>7, <1>8, <1>9

\* A row is delivered, or not, and marked, or not.
LEMMA PublishKeeps ==
    ASSUME IInv, Publish \/ PublishFails
    PROVE  IInv'
<1>1. TypeOK /\ LogInv /\ db \in Tables
  BY DEF IInv, TypeOK
<1>2. /\ pos \in Nat /\ committed \in Nat /\ committed <= pos /\ pos <= Len(log) /\ Len(log) \in Nat
      /\ input \in Nat /\ faults \in Nat /\ fresh \in BOOLEAN /\ active \in BOOLEAN /\ delivered \subseteq Nat
      /\ unsaved \in SUBSET Messages
  BY <1>1 DEF TypeOK, LogInv
<1>3. PICK t : t = db'
  OBVIOUS
<1>4. PICK n \in First :
        /\ Deliver(n) \/ UNCHANGED <<delivered, log>>
        /\ t = [db EXCEPT !.outbox[n].published = TRUE] \/ t = db
        /\ pos' \in {pos, committed} /\ committed' = committed
        /\ UNCHANGED <<unsaved, windows, fresh, active, input>>
        /\ faults' \in {faults, faults + 1}
  <2>1. CASE Publish
    BY <1>3, <2>1 DEF Publish
  <2>2. CASE PublishFails
    BY <1>3, <2>2 DEF PublishFails, Fault, Restart
  <2>3. QED BY <2>1, <2>2
<1>5. n \in DOMAIN db.outbox
  BY DEF First, Pending
<1>6. TablesInv(t) /\ MarkerInv(t) /\ Later(t)
  BY <1>4, <1>5, SelfKeeps, PublishedKeeps
<1>7. faults' \in Nat /\ delivered' \subseteq Nat
  <2>1. n \in Nat
    BY <1>5, <1>1, TableTypes
  <2>2. QED BY <1>2, <1>4, <2>1 DEF Deliver
<1>8. CASE log' = log
  <2>1. committed' <= pos' /\ pos' <= pos + 1 /\ pos' # pos + 1 /\ pos' \in Nat
    BY <1>2, <1>4
  <2>2. QED BY <1>2, <1>3, <1>4, <1>6, <1>7, <1>8, <2>1, QuietStep
<1>9. CASE log' # log
  <2> DEFINE f == db.outbox[n].finding
             m == Incident(f.detector, f.end, f.id)
  <2>1. db.outbox[n].kind = "incident" /\ log' = Append(log, m)
    BY <1>4, <1>9 DEF Deliver
  <2>2. f \in db.insights /\ f.detector \in OwnDetectors
    BY <1>5, <2>1 DEF IInv, TablesInv, OutboxInv
  <2>3. f \in FindingRows /\ Named(f)
    BY <1>1, <2>2, TableTypes DEF IInv, TablesInv, RowsInv
  <2> HIDE DEF f
  <2>4. m = [kind |-> "incident", id |-> f.id, detector |-> f.detector, end |-> f.end]
    BY DEF Incident
  <2> HIDE DEF m
  <2>5. m \in Messages
    BY <2>3, <2>4 DEF Messages, FindingRows
  <2>6. f.id = OwnId(f.detector, f.end)
    BY <2>2, <2>3, Disjoint DEF Named
  <2>7. /\ m.detector \in OwnDetectors /\ m.id = OwnId(m.detector, m.end)
        /\ HasInsight(m.detector, m.end)
    BY <2>2, <2>4, <2>6 DEF HasInsight
  <2>8. QED BY <1>2, <1>3, <1>4, <1>6, <1>7, <2>1, <2>5, <2>7, SendStep
<1>10. QED BY <1>8, <1>9
-------------------------------------------------------------------------------
(***************************************************************************)
(* The order of the notifications.                                         *)
(***************************************************************************)

\* The transaction that stored row n, told by the time it began.
Created(n) == db.outbox[n].finding.created_at

\* Notifications leave in the order of their transactions, whatever fails: a row is
\* marked only when a broker has it, and a broker has a row only when it has those of
\* all earlier transactions.
NotificationsInOrder ==
    \A n \in DOMAIN db.outbox :
        /\ db.outbox[n].published => n \in delivered
        /\ n \in delivered => \A k \in DOMAIN db.outbox : Created(k) < Created(n) => k \in delivered

\* A transaction begins when the rows of those before it are there.
NoticesInv ==
    /\ delivered \subseteq DOMAIN db.outbox
    /\ \A n \in DOMAIN db.outbox : Created(n) < n
    /\ NotificationsInOrder

\* The outbox p is o and what a transaction that began at `time` has added, all of it pending.
Added(o, p, time) ==
    /\ p \in Seq(OutboxRows) /\ Len(o) <= Len(p)
    /\ \A n \in 1..Len(o) : p[n] = o[n]
    /\ \A n \in DOMAIN p : n > Len(o) => ~p[n].published /\ p[n].finding.created_at = time

\* A transaction may add nothing.
LEMMA AddedNone ==
    ASSUME NEW o \in Seq(OutboxRows), NEW time
    PROVE  Added(o, o, time)
  BY DEF Added

\* Two findings of one transaction.
LEMMA AddedTwice ==
    ASSUME NEW o \in Seq(OutboxRows), NEW p, NEW q, NEW time, Added(o, p, time), Added(p, q, time)
    PROVE  Added(o, q, time)
  BY DEF Added

\* A finding that is saved adds its own notices.
LEMMA FindingAdds ==
    ASSUME NEW t \in Tables, NEW f \in FindingRows
    PROVE  Added(t.outbox, SaveFinding(t, f).outbox, f.created_at)
<1>1. t.outbox \in Seq(OutboxRows)
  BY TableTypes
<1>2. CASE Known(t, f) \/ Cooling(t, f)
  BY <1>1, <1>2, AddedNone DEF SaveFinding
<1>3. CASE ~(Known(t, f) \/ Cooling(t, f))
  <2>1. PICK s : s = [t EXCEPT !.incidents = SaveIncident(@, f), !.insights = @ \cup {f}]
    OBVIOUS
  <2>2. "outbox" \in DOMAIN t /\ "outbox" \in DOMAIN s /\ s.outbox = t.outbox
    BY <2>1 DEF Tables
  <2>3. PICK r : r = Correlate(s, f)
    OBVIOUS
  <2>4. r.outbox = t.outbox /\ "outbox" \in DOMAIN r
    BY <2>2, <2>3 DEF Correlate
  <2>5. SaveFinding(t, f) = Enqueue(r, f)
    BY <1>3, <2>1, <2>3 DEF SaveFinding
  <2> DEFINE a == [kind |-> "incident", finding |-> f, published |-> FALSE]
             b == [kind |-> "insight", finding |-> f, published |-> FALSE]
             d == IF f.detector \in RuleDetectors THEN <<>> ELSE <<a>>
  <2>6. Enqueue(r, f).outbox = (t.outbox \o d) \o <<b>>
    BY <2>4 DEF Enqueue
  <2>7. /\ a \in OutboxRows /\ ~a.published /\ a.finding = f
        /\ b \in OutboxRows /\ ~b.published /\ b.finding = f
    BY DEF OutboxRows
  <2> HIDE DEF a, b
  <2>8. PICK o \in Seq(OutboxRows) : o = t.outbox
    BY <1>1
  <2>9. Added(o, o \o d, f.created_at)
    <3>1. CASE f.detector \in RuleDetectors
      <4>1. o \o d = o
        BY <3>1
      <4>2. QED BY <4>1, AddedNone
    <3>2. CASE f.detector \notin RuleDetectors
      <4>1. o \o d = Append(o, a)
        BY <2>7, <3>2
      <4>2. QED BY <2>7, <4>1 DEF Added
    <3>3. QED BY <3>1, <3>2
  <2> HIDE DEF d
  <2>10. PICK p \in Seq(OutboxRows) : p = o \o d
    BY <2>9 DEF Added
  <2>11. p \o <<b>> = Append(p, b)
    BY <2>7
  <2>12. Added(p, p \o <<b>>, f.created_at)
    BY <2>7, <2>11 DEF Added
  <2>13. QED BY <2>5, <2>6, <2>8, <2>9, <2>10, <2>12, AddedTwice
<1>4. QED BY <1>2, <1>3

\* So does a message, in a transaction that begins now.
LEMMA HandledAdds ==
    ASSUME IInv, pos < Len(log)
    PROVE  Added(db.outbox, Handled(log[pos + 1], pos + 1).outbox, Len(db.outbox))
<1>1. db \in Tables /\ db.outbox \in Seq(OutboxRows) /\ Len(db.outbox) \in Nat
  BY TableTypes DEF IInv, TypeOK
<1>2. PICK m \in Messages : m = log[pos + 1]
  BY DEF IInv, TypeOK, LogInv
<1>3. CASE m.kind = "incident" /\ m.detector \notin OwnDetectors
  <2>1. PICK f : f = Finding(m.detector, m.end, m.id, 2 * m.id[2])
    OBVIOUS
  <2>2. f.created_at = Len(db.outbox) /\ Handled(m, pos + 1) = SaveFinding(db, f)
    BY <1>3, <2>1 DEF Handled, Finding
  <2>3. f \in FindingRows
    <3>1. m.id[2] \in Nat /\ 2 * m.id[2] \in Nat
      BY DEF Messages, Ids
    <3>2. QED BY <1>1, <2>1, <3>1 DEF FindingRows, Finding, Messages
  <2>4. QED BY <1>1, <1>2, <2>2, <2>3, FindingAdds
<1>4. CASE ~(m.kind = "incident" /\ m.detector \notin OwnDetectors)
  <2>1. m.kind \in {"event", "invalid", "incident"}
    BY KindsAssumption DEF Messages
  <2>2. Handled(m, pos + 1).outbox = db.outbox
    BY <1>1, <1>4, <2>1 DEF Handled, Tables
  <2>3. QED BY <1>1, <1>2, <2>2, AddedNone
<1>5. QED BY <1>3, <1>4

\* An evaluation is one transaction, with its two detectors.
LEMMA AnalysedAdds ==
    ASSUME IInv, Due, NEW ready \in BOOLEAN
    PROVE  Added(db.outbox, Analysed(ready).outbox, Len(db.outbox))
<1>1. TypeOK /\ latest > 0 /\ latest \in Nat /\ db \in Tables
  BY LatestIs DEF IInv, Due, TypeOK
<1> DEFINE found == Found(ready)
<1>2. ASSUME NEW t \in Tables, NEW d \in OwnDetectors
      PROVE  Added(t.outbox, SaveFound(t, d, found).outbox, Len(db.outbox))
  <2>1. CASE d \notin found
    BY <2>1, AddedNone, TableTypes DEF SaveFound
  <2>2. CASE d \in found
    <3>1. PICK f : f = Own(d)
      OBVIOUS
    <3>2. Len(db.outbox) \in Nat /\ 2 * Len(log) + 1 \in Nat /\ d \in Detectors
      BY <1>1, TableTypes DEF TypeOK, Detectors
    <3>3. f.created_at = Len(db.outbox) /\ f \in FindingRows
      BY <1>1, <3>1, <3>2 DEF Own, OwnId, Finding, FindingRows, Ids
    <3>4. QED BY <2>2, <3>1, <3>3, FindingAdds DEF SaveFound
  <2>3. QED BY <2>1, <2>2
<1>3. PICK k : k = SaveFound(db, KpiDetector, found)
  OBVIOUS
<1>4. PICK u : u = SaveFound(k, ModelDetector, found)
  OBVIOUS
<1>5. k \in Tables /\ u \in Tables
  <2>1. TablesInv(k)
    BY <1>1, <1>3, FoundKeeps DEF IInv, OwnDetectors
  <2>2. TablesInv(u)
    BY <1>1, <1>4, <2>1, FoundKeeps DEF OwnDetectors
  <2>3. QED BY <2>1, <2>2 DEF TablesInv
<1>6. Added(db.outbox, k.outbox, Len(db.outbox)) /\ Added(k.outbox, u.outbox, Len(db.outbox))
  BY <1>1, <1>2, <1>3, <1>4, <1>5 DEF OwnDetectors
<1>7. Analysed(ready).outbox = u.outbox
  BY <1>3, <1>4, <1>5 DEF Analysed, Tables
<1>8. QED BY <1>1, <1>6, <1>7, AddedTwice, TableTypes

\* New rows are not delivered, and begin no earlier than the others.
LEMMA AddedKeeps ==
    ASSUME IInv, NoticesInv, Added(db.outbox, db'.outbox, Len(db.outbox)), delivered' = delivered
    PROVE  NoticesInv'
<1>1. PICK o \in Seq(OutboxRows) : o = db.outbox
  BY TableTypes DEF IInv, TypeOK
<1>2. PICK p \in Seq(OutboxRows) : p = db'.outbox /\ Added(o, p, Len(o))
  BY <1>1 DEF Added
<1>3. /\ delivered \subseteq 1..Len(o) /\ Len(o) \in Nat /\ Len(p) \in Nat
      /\ \A n \in 1..Len(o) : o[n].finding.created_at < n
      /\ \A n \in 1..Len(o) :
           /\ o[n].published => n \in delivered
           /\ n \in delivered => \A k \in 1..Len(o) :
                o[k].finding.created_at < o[n].finding.created_at => k \in delivered
  BY <1>1 DEF NoticesInv, NotificationsInOrder, Created
<1>4. /\ Len(o) <= Len(p) /\ \A n \in 1..Len(o) : p[n] = o[n]
      /\ \A n \in 1..Len(p) : n > Len(o) => ~p[n].published /\ p[n].finding.created_at = Len(o)
  BY <1>2 DEF Added
<1>5. \A n \in 1..Len(p) : p[n].finding.created_at \in Nat
  <2>1. \A n \in 1..Len(p) : p[n] \in OutboxRows
    OBVIOUS
  <2>2. QED BY <2>1 DEF OutboxRows, FindingRows
<1>6. delivered \subseteq 1..Len(p)
  BY <1>3, <1>4
<1>7. \A n \in 1..Len(p) : p[n].finding.created_at < n
  BY <1>3, <1>4
<1>8. \A n \in 1..Len(p) : p[n].published => n \in delivered
  BY <1>3, <1>4
<1>9. ASSUME NEW n \in delivered, NEW k \in 1..Len(p), p[k].finding.created_at < p[n].finding.created_at
      PROVE  k \in delivered
  <2>1. n \in 1..Len(o) /\ p[n] = o[n] /\ p[n].finding.created_at < Len(o)
    BY <1>3, <1>4, <1>5
  <2>2. k \in 1..Len(o)
    BY <1>3, <1>4, <1>5, <1>9, <2>1
  <2>3. QED BY <1>3, <1>4, <1>9, <2>1, <2>2
<1>10. QED BY <1>2, <1>6, <1>7, <1>8, <1>9 DEF NoticesInv, NotificationsInOrder, Created

\* Of the pending rows one of the earliest transaction is delivered.
LEMMA PublishInOrder ==
    ASSUME IInv, NoticesInv, Publish \/ PublishFails
    PROVE  NoticesInv'
<1>1. PICK o \in Seq(OutboxRows) : o = db.outbox
  BY TableTypes DEF IInv, TypeOK
<1>2. PICK n \in First :
        /\ delivered' = delivered \cup {n} \/ (delivered' = delivered /\ db' = db)
        /\ db' = [db EXCEPT !.outbox[n].published = TRUE] \/ db' = db
  BY DEF Publish, PublishFails, Deliver
<1>3. /\ n \in 1..Len(o)
      /\ \A k \in 1..Len(o) : ~o[k].published => o[n].finding.created_at <= o[k].finding.created_at
  BY <1>1 DEF First, Pending
<1>4. PICK p : /\ p = db'.outbox /\ DOMAIN p = 1..Len(o)
               /\ \A k \in 1..Len(o) : p[k].finding = o[k].finding
               /\ \A k \in 1..Len(o) : p[k].published => o[k].published \/ (k = n /\ db' # db)
  <2>1. CASE db' = db
    BY <1>1, <2>1
  <2>2. CASE db' # db
    <3>1. PICK p : p = db'.outbox /\ p = [o EXCEPT ![n].published = TRUE]
      BY <1>1, <1>2, <2>2 DEF IInv, TypeOK, Tables
    <3>2. \A k \in 1..Len(o) : o[k] \in OutboxRows
      OBVIOUS
    <3>3. DOMAIN p = 1..Len(o) /\ \A k \in 1..Len(o) : k # n => p[k] = o[k]
      BY <3>1
    <3>4. p[n].finding = o[n].finding
      BY <1>3, <3>1, <3>2 DEF OutboxRows
    <3>5. QED BY <2>2, <3>1, <3>3, <3>4
  <2>3. QED BY <2>1, <2>2
<1>5. /\ delivered \subseteq 1..Len(o)
      /\ \A k \in 1..Len(o) : o[k].finding.created_at < k
      /\ \A k \in 1..Len(o) : o[k].published => k \in delivered
      /\ \A k \in delivered : \A j \in 1..Len(o) :
            o[j].finding.created_at < o[k].finding.created_at => j \in delivered
  BY <1>1 DEF NoticesInv, NotificationsInOrder, Created
<1>6. \A k \in 1..Len(o) : o[k].finding.created_at \in Nat
  <2>1. \A k \in 1..Len(o) : o[k] \in OutboxRows
    OBVIOUS
  <2>2. QED BY <2>1 DEF OutboxRows, FindingRows
<1>7. \A j \in 1..Len(o) : o[j].finding.created_at < o[n].finding.created_at => j \in delivered
  BY <1>3, <1>5, <1>6
<1>8. delivered' \subseteq 1..Len(o) /\ delivered \subseteq delivered' /\ delivered' \subseteq delivered \cup {n}
  BY <1>2, <1>3, <1>5
<1>9. \A k \in 1..Len(o) : p[k].published => k \in delivered'
  BY <1>2, <1>4, <1>5, <1>8
<1>10. \A k \in delivered' : \A j \in 1..Len(o) :
            p[j].finding.created_at < p[k].finding.created_at => j \in delivered'
  BY <1>3, <1>4, <1>5, <1>7, <1>8
<1>11. \A k \in 1..Len(o) : p[k].finding.created_at < k
  BY <1>4, <1>5
<1>12. QED BY <1>4, <1>8, <1>9, <1>10, <1>11 DEF NoticesInv, NotificationsInOrder, Created

\* Every step.
LEMMA NoticesKeep ==
    ASSUME IInv, NoticesInv, [Next]_vars
    PROVE  NoticesInv'
<1>1. db \in Tables /\ db.outbox \in Seq(OutboxRows)
  BY TableTypes DEF IInv, TypeOK
<1>2. CASE Publish \/ PublishFails
  BY <1>2, PublishInOrder
<1>3. CASE Handle \/ HandleFails \/ Commit \/ Evaluate \/ EvaluateFails \/ Crash
  <2>1. \/ db' = db
        \/ pos < Len(log) /\ db' = Handled(log[pos + 1], pos + 1)
        \/ Due /\ \E ready \in BOOLEAN : db' = Analysed(ready)
    BY <1>3 DEF Handle, HandleFails, Commit, Evaluate, EvaluateFails, Crash
  <2>2. delivered' = delivered
    BY <1>3 DEF Handle, HandleFails, Commit, Evaluate, EvaluateFails, Crash
  <2>3. PICK t : t = db'
    OBVIOUS
  <2>4. Added(db.outbox, t.outbox, Len(db.outbox))
    BY <1>1, <2>1, <2>3, AddedNone, HandledAdds, AnalysedAdds
  <2>5. QED BY <2>2, <2>3, <2>4, AddedKeeps
<1>4. CASE Environment \/ UNCHANGED vars
  <2>1. delivered' = delivered
    BY <1>4 DEF Environment, Produce, Detect, DetectInsert, Seal, Age, Promote, vars
  <2>2. db' = db \/ \E m \in unsaved : db' = [db EXCEPT !.incidents = SaveIncident(@, m)]
    BY <1>4 DEF Environment, Produce, Detect, DetectInsert, Seal, Age, Promote, vars
  <2>3. PICK t : t = db'
    OBVIOUS
  <2>4. t.outbox = db.outbox
    BY <1>1, <2>2, <2>3 DEF Tables
  <2>5. Added(db.outbox, t.outbox, Len(db.outbox))
    BY <1>1, <2>4, AddedNone
  <2>6. QED BY <2>1, <2>3, <2>5, AddedKeeps
<1>5. QED BY <1>2, <1>3, <1>4 DEF Next, Worker, Failures
-------------------------------------------------------------------------------
(***************************************************************************)
(* The theorems.                                                           *)
(***************************************************************************)

\* Nothing has happened at first.
LEMMA Initial == Init => IInv
<1> SUFFICES ASSUME Init PROVE IInv
  OBVIOUS
<1> DEFINE e == [events |-> {}, rejected |-> {}, incidents |-> {}, insights |-> {},
                 cases |-> <<>>, outbox |-> <<>>, analysed |-> [rules |-> 0, model |-> 0],
                 inference |-> [state |-> "none", end |-> 0]]
<1>1. db = e
  BY DEF Init
<1>2. /\ e.events = {} /\ e.rejected = {} /\ e.incidents = {} /\ e.insights = {}
      /\ e.cases = <<>> /\ e.outbox = <<>> /\ e.analysed = [rules |-> 0, model |-> 0]
  OBVIOUS
<1>3. e \in Tables
  <2>1. [rules |-> 0, model |-> 0] \in [rules : Nat, model : Nat]
    OBVIOUS
  <2>2. [state |-> "none", end |-> 0] \in Inferences
    BY DEF Inferences
  <2>3. QED BY <2>1, <2>2 DEF Tables
<1> HIDE DEF e
<1>4. TypeOK
  <2>1. DOMAIN windows = {} /\ log = <<>>
    BY DEF Init
  <2>2. log \in Seq(Messages) /\ DOMAIN windows \subseteq Ends
        /\ \A end \in DOMAIN windows : windows[end] \subseteq OwnDetectors
    BY <2>1
  <2>3. db \in Tables
    BY <1>1, <1>3
  <2>4. QED BY <2>2, <2>3 DEF Init, TypeOK
<1>5. LogInv /\ HandledInv
  BY DEF Init, LogInv, HandledInv
<1>6. RowsInv(e) /\ InsightsInv(e)
  BY <1>2 DEF RowsInv, InsightsInv
<1>7. CasesInv(e) /\ EpisodesInv(e) /\ OutboxInv(e)
  BY <1>2 DEF CasesInv, EpisodesInv, OutboxInv
<1>8. MarkerInv(e)
  <2>1. e.analysed["rules"] = 0 /\ e.analysed["model"] = 0
    BY <1>2
  <2>2. QED BY <2>1 DEF MarkerInv, Versions
<1>9. QED BY <1>1, <1>3, <1>4, <1>5, <1>6, <1>7, <1>8 DEF IInv, TablesInv

\* The invariant holds in every reachable state: every step of ingest, of detect
\* and of the worker, failing or not, keeps it.
THEOREM InductiveInvariant == Spec => []IInv
<1>1. IInv /\ [Next]_vars => IInv'
  <2> SUFFICES ASSUME IInv, [Next]_vars PROVE IInv'
    OBVIOUS
  <2>1. CASE Environment
    BY <2>1, EnvironmentKeeps
  <2>2. CASE Handle \/ HandleFails \/ Commit \/ Evaluate \/ EvaluateFails \/ Crash
    BY <2>2, WorkerKeeps
  <2>3. CASE Publish \/ PublishFails
    BY <2>3, PublishKeeps
  <2>4. CASE UNCHANGED vars
    <3>1. UNCHANGED <<log, windows, fresh, active, db, unsaved, pos, committed, delivered, input, faults>>
      BY <2>4 DEF vars
    <3>2. PICK t : t = db'
      OBVIOUS
    <3>3. TablesInv(t) /\ MarkerInv(t) /\ Later(t)
      BY <3>1, <3>2, SelfKeeps
    <3>4. /\ fresh \in BOOLEAN /\ active \in BOOLEAN /\ pos \in Nat /\ committed \in Nat /\ committed <= pos
          /\ delivered \subseteq Nat /\ input \in Nat /\ faults \in Nat
      BY DEF IInv, TypeOK, LogInv
    <3>5. committed' <= pos' /\ pos' <= pos + 1 /\ pos' # pos + 1
      BY <3>1, <3>4
    <3>6. QED BY <3>1, <3>2, <3>3, <3>4, <3>5, QuietStep
  <2>5. QED BY <2>1, <2>2, <2>3, <2>4 DEF Next, Worker, Failures
<1>2. QED BY <1>1, Initial, PTL DEF Spec

\* Every variable has its type.
THEOREM TypeCorrect == Spec => []TypeOK
<1>1. IInv => TypeOK
  BY DEF IInv
<1>2. QED BY <1>1, InductiveInvariant, PTL

\* Committed offsets are behind the tables: a crash, a failed transaction or a
\* failed commit loses no message (main.py commits after handling).
THEOREM CommitsFollowTables == Spec => []CommittedIsHandled
<1>1. IInv => CommittedIsHandled
  <2> SUFFICES ASSUME IInv PROVE CommittedIsHandled
    OBVIOUS
  <2>1. committed \in Nat /\ pos \in Nat /\ committed <= pos
    BY DEF IInv, TypeOK, LogInv
  <2>2. \A n \in 1..committed : n \in 1..pos
    BY <2>1
  <2>3. QED BY <2>2 DEF IInv, HandledInv, CommittedIsHandled
<1>2. QED BY <1>1, InductiveInvariant, PTL

\* The marker is never ahead of the findings, which are written in its
\* transaction: what the marked window shows is covered by an insight.
THEOREM MarkerBehindFindings == Spec => []MarkerMeansAnalysed
<1>1. IInv => MarkerMeansAnalysed
  BY DEF IInv, MarkerInv, Covered, Excused, MarkerMeansAnalysed, HasInsightSince, HasInsight, Versions
<1>2. QED BY <1>1, InductiveInvariant, PTL

\* Insights of one of the worker's detectors are a cooldown apart (save_finding).
THEOREM CooldownKept == Spec => []CooldownHolds
<1>1. IInv => CooldownHolds
  BY DEF IInv, TablesInv, InsightsInv, CooldownHolds
<1>2. QED BY <1>1, InductiveInvariant, PTL

\* Every incident of a case but its first is within an episode of an earlier one
\* on the timeline (correlate).
THEOREM CasesGrowByEpisodes == Spec => []CasesAreEpisodes
<1>1. IInv => CasesAreEpisodes
  <2> SUFFICES ASSUME IInv PROVE CasesAreEpisodes
    OBVIOUS
  <2>1. EpisodesInv(db) /\ RowsInv(db)
    BY DEF IInv, TablesInv
  <2>2. \A i \in db.incidents : EndOf(i.id) = i.end
    BY <2>1 DEF RowsInv, EndOf
  <2> HIDE DEF EndOf
  <2>3. ASSUME NEW c \in DOMAIN db.cases, NEW n \in 2..Len(db.cases[c].timeline)
        PROVE  \E k \in 1..(n - 1) :
                 EndOf(db.cases[c].timeline[n]) - EndOf(db.cases[c].timeline[k]) \in 0..Episode
    <3>1. PICK k \in 1..n - 1, i \in db.incidents, j \in db.incidents :
            /\ i.id = db.cases[c].timeline[n] /\ j.id = db.cases[c].timeline[k]
            /\ i.end - j.end \in 0..Episode
      BY <2>1 DEF EpisodesInv
    <3>2. /\ EndOf(db.cases[c].timeline[n]) = i.end
          /\ EndOf(db.cases[c].timeline[k]) = j.end
      BY <2>2, <3>1
    <3>3. QED BY <3>1, <3>2
  <2>4. QED BY <2>3 DEF CasesAreEpisodes
<1>2. QED BY <1>1, InductiveInvariant, PTL

\* However often it is replayed and whoever inserts its incident, a finding is
\* stored whole and once: one row, one place on one timeline, its notifications.
THEOREM FindingsStoredOnce == Spec => []FindingsAreWhole
<1>1. IInv => FindingsAreWhole
  <2> SUFFICES ASSUME IInv, NEW f \in db.insights
      PROVE  /\ \E i \in RowOf(f.id) : i.case # 0 /\ RowOf(f.id) = {i}
             /\ \A c \in DOMAIN db.cases :
                  Cardinality({n \in DOMAIN db.cases[c].timeline : db.cases[c].timeline[n] = f.id})
                    = (IF \E i \in RowOf(f.id) : i.case = c THEN 1 ELSE 0)
             /\ \A kind \in {"insight", "incident"} :
                  Cardinality({n \in DOMAIN db.outbox :
                                 db.outbox[n].kind = kind /\ db.outbox[n].finding = f})
                    = (IF kind = "incident" /\ f.detector \in RuleDetectors THEN 0 ELSE 1)
    BY DEF FindingsAreWhole
  <2>1. RowsInv(db) /\ CasesInv(db) /\ OutboxInv(db) /\ f.detector \in Detectors
    BY TableTypes DEF IInv, TypeOK, TablesInv, FindingRows
  <2>2. PICK i \in db.incidents : i.id = f.id
    BY <2>1 DEF RowsInv
  <2>3. RowOf(f.id) = {i} /\ i.case # 0
    BY <2>1, <2>2 DEF RowsInv, RowOf
  <2>4. ASSUME NEW c \in DOMAIN db.cases
        PROVE  Cardinality({n \in DOMAIN db.cases[c].timeline : db.cases[c].timeline[n] = f.id})
                 = (IF \E j \in RowOf(f.id) : j.case = c THEN 1 ELSE 0)
    <3> DEFINE line == db.cases[c].timeline
               places == {n \in DOMAIN line : line[n] = f.id}
    <3>1. CASE i.case = c
      <4>1. PICK n \in DOMAIN line : line[n] = f.id
        BY <2>1, <2>2, <2>3, <3>1 DEF CasesInv
      <4>2. \A m \in DOMAIN line : line[m] = f.id => m = n
        BY <2>1, <4>1 DEF CasesInv
      <4>3. places = {n}
        BY <4>1, <4>2
      <4>4. Cardinality(places) = 1
        BY <4>3, FS_Singleton
      <4>5. QED BY <2>3, <3>1, <4>4
    <3>2. CASE i.case # c
      <4>1. places = {}
        <5>1. \A n \in DOMAIN line : \E j \in db.incidents : j.id = line[n] /\ j.case = c
          BY <2>1 DEF CasesInv
        <5>2. \A j \in db.incidents : j.id = f.id => j = i
          BY <2>1, <2>2 DEF RowsInv
        <5>3. QED BY <5>1, <5>2, <3>2
      <4>2. Cardinality(places) = 0
        BY <4>1, FS_EmptySet
      <4>3. QED BY <2>3, <3>2, <4>2
    <3>3. QED BY <3>1, <3>2
  <2>5. ASSUME NEW kind \in {"insight", "incident"}
        PROVE  Cardinality({n \in DOMAIN db.outbox :
                              db.outbox[n].kind = kind /\ db.outbox[n].finding = f})
                 = (IF kind = "incident" /\ f.detector \in RuleDetectors THEN 0 ELSE 1)
    <3> DEFINE places == {n \in DOMAIN db.outbox :
                            db.outbox[n].kind = kind /\ db.outbox[n].finding = f}
    <3>1. CASE kind = "incident" /\ f.detector \in RuleDetectors
      <4>1. places = {}
        BY <2>1, <3>1, Disjoint DEF OutboxInv
      <4>2. QED BY <3>1, <4>1, FS_EmptySet
    <3>2. CASE ~(kind = "incident" /\ f.detector \in RuleDetectors)
      <4>1. PICK n \in DOMAIN db.outbox : db.outbox[n].kind = kind /\ db.outbox[n].finding = f
        BY <2>1, <3>2 DEF OutboxInv, Detectors
      <4>2. \A m \in DOMAIN db.outbox :
              db.outbox[m].kind = kind /\ db.outbox[m].finding = f => m = n
        BY <2>1, <4>1 DEF OutboxInv
      <4>3. places = {n}
        BY <4>1, <4>2
      <4>4. Cardinality(places) = 1
        BY <4>3, FS_Singleton
      <4>5. QED BY <3>2, <4>4
    <3>3. QED BY <3>1, <3>2
  <2>6. QED BY <2>3, <2>4, <2>5
<1>2. QED BY <1>1, InductiveInvariant, PTL

\* However often the worker or a broker fails, a notification is marked as published
\* only when a broker has it, and none overtakes those of an earlier transaction: the
\* consumers hear of findings in the order they were stored (publish_pending).
THEOREM NotificationsStayInOrder == Spec => []NotificationsInOrder
<1>1. Init => NoticesInv
  BY DEF Init, NoticesInv, NotificationsInOrder, Created
<1>2. IInv /\ IInv' /\ NoticesInv /\ [Next]_vars => NoticesInv'
  BY NoticesKeep
<1>3. NoticesInv => NotificationsInOrder
  BY DEF NoticesInv
<1>4. QED BY <1>1, <1>2, <1>3, InductiveInvariant, PTL DEF Spec
===============================================================================
