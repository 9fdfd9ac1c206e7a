------------------------ MODULE ModelRegistry_proofs -------------------------
(***************************************************************************)
(* Proofs about ModelRegistry, for any number of operators, models and     *)
(* faults and any margins.  Promotions rest on where each transaction      *)
(* stands, the data sets on what the clock has passed.                     *)
(***************************************************************************)
EXTENDS ModelRegistry, FiniteSetTheorems, WellFoundedInduction, TLAPS

Faults == [scoped : BOOLEAN, started : Nat \ {0}, ended : Nat]
States == {"candidate", "active", "retired"}
Models == [state : States, train : SUBSET Nat, validation : SUBSET Nat, fit : BOOLEAN]
Evaluations == [model : Nat, start : Nat, end : Nat, started : Nat,
                positives : SUBSET Nat, negatives : SUBSET Nat]

TypeOK ==
    /\ now \in Nat
    /\ faults \in Seq(Faults)
    /\ models \in Seq(Models)
    /\ pc \in [Operators -> {"idle", "gated", "locked", "retiring", "failed"}]
    /\ promoting \in [Operators -> Nat]
    /\ retiring \in [Operators -> SUBSET Nat]
    /\ lock \in Operators \cup {NoOne}
    /\ evaluation \subseteq Evaluations

\* What an operator holds at each point of its promotion.
PromotionInv ==
    \A o \in Operators :
        /\ pc[o] # "failed"
        /\ pc[o] \in {"gated", "locked", "retiring"} => promoting[o] \in DOMAIN models
        /\ pc[o] \in {"locked", "retiring"} => lock = o
        /\ pc[o] = "retiring" => retiring[o] = active

\* No fault is from the future.
FaultsArePast == \A i \in DOMAIN faults : faults[i].started <= now /\ faults[i].ended <= now

Seen(m) == models[m].train \cup models[m].validation

\* The windows of a model were sealed when it was trained, end before any fault
\* that is still open, and keep the margin between the two sets.
ModelsInv ==
    \A m \in DOMAIN models :
        /\ models[m].validation # {}
        /\ \A k \in Seen(m) :
            /\ k + 1 <= now
            /\ \A i \in DOMAIN faults :
                k < faults[i].started \/ (faults[i].ended # 0 /\ k + 1 > faults[i].ended)
        /\ \A k \in models[m].train, v \in models[m].validation : v >= k + 1 + Margin

\* A test was run in the past on a model of the registry.
EvaluationsArePast == \A e \in evaluation : e.started <= now /\ e.model \in DOMAIN models

IInv ==
    /\ TypeOK /\ PromotionInv /\ FaultsArePast /\ ModelsInv /\ EvaluationsArePast
    /\ HoldoutsAreUnseen /\ TestIsLabelled

-------------------------------------------------------------------------------
(***************************************************************************)
(* Facts about numbers and intervals.                                      *)
(***************************************************************************)

\* Every set of natural numbers has a least element.
LEMMA Minimum ==
    ASSUME NEW T \in SUBSET Nat, T # {}
    PROVE  \E x \in T : \A y \in T : x <= y
<1> DEFINE R == OpToRel(<, Nat)
<1>1. IsWellFoundedOn(R, Nat)
  BY NatLessThanWellFounded
<1>2. \A x, y \in Nat : y < x => <<y, x>> \in R
  BY DEF OpToRel
<1> HIDE DEF R
<1>3. PICK x \in T : \A y \in T : ~ (<<y, x>> \in R)
  BY <1>1, WFMin
<1>4. \A y \in T : ~(y < x)
  BY <1>2, <1>3
<1>5. QED BY <1>4

\* A set of natural numbers with a bound has a greatest element.
LEMMA Maximum ==
    ASSUME NEW S \in SUBSET Nat, S # {}, NEW b \in Nat, \A s \in S : s <= b
    PROVE  \E m \in S : \A k \in S : k <= m
<1> DEFINE T == {b - s : s \in S}
<1>1. \A s \in S : b - s \in Nat
  OBVIOUS
<1>2. T \in SUBSET Nat
  BY <1>1
<1>3. T # {}
  OBVIOUS
<1>4. PICK x \in T : \A y \in T : x <= y
  BY <1>2, <1>3, Minimum
<1>5. PICK m \in S : x = b - m
  OBVIOUS
<1>6. \A k \in S : b - m <= b - k
  BY <1>4, <1>5
<1>7. QED BY <1>6

\* The bounds and margins are natural numbers.
LEMMA Numbers ==
    /\ Margin \in Nat /\ Lateness \in Nat /\ MaxTime \in Nat
    /\ MinValidation \in Nat /\ MinValidation >= 1
    /\ Choices \subseteq Nat
  BY NumbersAssumption

\* A window that can be read lies in its interval and has been sealed.
LEMMA WindowsArePast ==
    ASSUME now \in Nat, NEW start \in Nat, NEW end \in Nat, NEW m \in Windows(start, end)
    PROVE  m \in Nat /\ start <= m /\ m + 1 <= end /\ m + 1 <= now
  BY Numbers DEF Windows

\* A model is validated on windows that keep the margin from those it is trained
\* on, and both sets are healthy.
LEMMA DataSets ==
    ASSUME NEW ms
    PROVE  /\ TrainPart(ms) \subseteq ms /\ ValidationPart(ms) \subseteq ms
           /\ \A k \in TrainPart(ms), v \in ValidationPart(ms) : v >= k + 1 + Margin
  BY DEF TrainPart, ValidationPart

\* A model that has validation windows ends with the last of them.
LEMMA ValidationEnds ==
    ASSUME TypeOK, ModelsInv, NEW m \in DOMAIN models, NEW k \in Seen(m)
    PROVE  ValidationEnd(models[m]) \in Nat /\ k + 1 <= ValidationEnd(models[m])
<1> DEFINE V == models[m].validation
<1>0. models[m] \in Models /\ now \in Nat
  BY DEF TypeOK
<1>1. V \in SUBSET Nat /\ models[m].train \in SUBSET Nat /\ V # {} /\ now \in Nat
  BY <1>0 DEF Models, ModelsInv
<1>2. \A v \in V : v <= now
  BY <1>1 DEF ModelsInv, Seen
<1>3. \E last \in V : \A v \in V : v <= last
  BY <1>1, <1>2, Maximum
<1> DEFINE last == CHOOSE v \in V : \A w \in V : w <= v
<1>4. last \in V /\ \A v \in V : v <= last
  BY <1>3
<1>5. ValidationEnd(models[m]) = 1 + last
  BY DEF ValidationEnd
<1> HIDE DEF last
<1>6. CASE k \in V
  BY <1>1, <1>4, <1>5, <1>6
<1>7. CASE k \in models[m].train
  <2>1. last >= k + 1 + Margin
    BY <1>4, <1>7 DEF ModelsInv
  <2>2. QED BY <1>1, <1>4, <1>5, <1>7, <2>1, Numbers
<1>8. QED BY <1>6, <1>7 DEF Seen

-------------------------------------------------------------------------------
(***************************************************************************)
(* What a step may do to the tables and to the clock.                      *)
(***************************************************************************)

\* The clock never goes back.
LEMMA ClockStep ==
    ASSUME TypeOK, [Next]_vars
    PROVE  now' \in Nat /\ now <= now'
<1>1. now \in Nat
  BY DEF TypeOK
<1>2. CASE Tick
  BY <1>1, <1>2 DEF Tick
<1>3. CASE UNCHANGED now
  BY <1>1, <1>3
<1>4. QED
  BY <1>2, <1>3 DEF Next, vars, Start, End, Train, Promote, Gate, Lock, Retire, Activate, Crash, Evaluate

\* A recorded fault keeps its start and its scope, and ends once; a new one starts now.
LEMMA FaultsStep ==
    ASSUME TypeOK, FaultsArePast, [Next]_vars
    PROVE  /\ faults' \in Seq(Faults)
           /\ DOMAIN faults \subseteq DOMAIN faults'
           /\ \A i \in DOMAIN faults :
                /\ faults'[i].started = faults[i].started /\ faults'[i].scoped = faults[i].scoped
                /\ \/ faults'[i].ended = faults[i].ended
                   \/ faults[i].ended = 0 /\ faults'[i].ended = now /\ now # 0
           /\ \A i \in DOMAIN faults' \ DOMAIN faults :
                faults'[i].started = now /\ faults'[i].ended = 0
<1>1. ASSUME NEW scoped \in BOOLEAN, Start(scoped)
      PROVE  /\ faults' \in Seq(Faults)
             /\ DOMAIN faults \subseteq DOMAIN faults'
             /\ \A i \in DOMAIN faults : faults'[i] = faults[i]
             /\ \A i \in DOMAIN faults' \ DOMAIN faults :
                  faults'[i].started = now /\ faults'[i].ended = 0
  <2>1. [scoped |-> scoped, started |-> now, ended |-> 0] \in Faults
    BY <1>1 DEF Start, TypeOK, Faults
  <2>2. QED BY <1>1, <2>1 DEF Start, TypeOK
<1>2. ASSUME NEW i \in DOMAIN faults, End(i)
      PROVE  /\ faults' \in Seq(Faults)
             /\ DOMAIN faults' = DOMAIN faults
             /\ \A j \in DOMAIN faults : j # i => faults'[j] = faults[j]
             /\ faults'[i].started = faults[i].started /\ faults'[i].scoped = faults[i].scoped
             /\ faults[i].ended = 0 /\ faults'[i].ended = now /\ now # 0
  <2>1. faults[i] \in Faults /\ now \in Nat
    BY DEF TypeOK
  <2>2. faults' = [faults EXCEPT ![i] = [faults[i] EXCEPT !.ended = now]] /\ faults[i].ended = 0
    BY <1>2 DEF End
  <2>3. [faults[i] EXCEPT !.ended = now] \in Faults
    BY <2>1 DEF Faults
  <2>4. now # 0
    BY <2>1 DEF FaultsArePast, Faults
  <2>5. faults' \in Seq(Faults) /\ DOMAIN faults' = DOMAIN faults
    BY <2>2, <2>3 DEF TypeOK
  <2>6. faults'[i] = [faults[i] EXCEPT !.ended = now]
    BY <2>2
  <2>7. QED BY <2>1, <2>2, <2>4, <2>5, <2>6 DEF Faults
<1>3. CASE UNCHANGED faults
  BY <1>3 DEF TypeOK
<1>4. QED
  BY <1>1, <1>2, <1>3 DEF Next, vars, Tick, Train, Promote, Gate, Lock, Retire, Activate, Crash,
                          Evaluate, promotion

\* A model keeps its data for ever, and a new one is a candidate.
LEMMA ModelsStep ==
    ASSUME TypeOK, [Next]_vars
    PROVE  /\ models' \in Seq(Models)
           /\ DOMAIN models \subseteq DOMAIN models'
           /\ \A m \in DOMAIN models :
                models'[m].train = models[m].train /\ models'[m].validation = models[m].validation
           /\ \A m \in DOMAIN models' \ DOMAIN models :
                \E start, end \in Choices, fit \in BOOLEAN :
                    Train(start, end, fit) /\ m = Len(models) + 1
<1>1. ASSUME NEW start \in Choices, NEW end \in Choices, NEW fit \in BOOLEAN, Train(start, end, fit)
      PROVE  /\ models' \in Seq(Models)
             /\ DOMAIN models' = DOMAIN models \cup {Len(models) + 1}
             /\ \A m \in DOMAIN models : models'[m] = models[m]
  <2> DEFINE ms == Healthy(start, end)
             new == [state |-> "candidate", train |-> TrainPart(ms),
                     validation |-> ValidationPart(ms), fit |-> fit]
  <2>1. models' = Append(models, new)
    BY <1>1 DEF Train
  <2>2. ms \subseteq Nat
    BY WindowsArePast, Numbers DEF Healthy, TypeOK
  <2>3. new \in Models
    BY <2>2, DataSets DEF Models, States
  <2> HIDE DEF new
  <2>4. QED BY <2>1, <2>3 DEF TypeOK
<1>2. ASSUME NEW o \in Operators, Activate(o)
      PROVE  /\ models' \in Seq(Models)
             /\ DOMAIN models' = DOMAIN models
             /\ \A m \in DOMAIN models :
                  models'[m].train = models[m].train /\ models'[m].validation = models[m].validation
  <2>1. \A m \in DOMAIN models : models[m] \in Models
    BY DEF TypeOK
  <2>2. \A m \in DOMAIN models, state \in States :
            LET r == [models[m] EXCEPT !.state = state]
            IN  r \in Models /\ r.train = models[m].train /\ r.validation = models[m].validation
    BY <2>1 DEF Models
  <2>3. CASE UNCHANGED models
    BY <2>3 DEF TypeOK
  <2>4. CASE models' = [m \in DOMAIN models |->
                IF m = promoting[o] THEN [models[m] EXCEPT !.state = "active"]
                ELSE IF m \in retiring[o] THEN [models[m] EXCEPT !.state = "retired"]
                ELSE models[m]]
    <3>1. \A m \in DOMAIN models :
            models'[m] \in {models[m], [models[m] EXCEPT !.state = "active"],
                            [models[m] EXCEPT !.state = "retired"]}
      BY <2>4
    <3>2. \A m \in DOMAIN models :
            models'[m] \in Models /\ models'[m].train = models[m].train
            /\ models'[m].validation = models[m].validation
      BY <2>1, <2>2, <3>1 DEF States
    <3>3. DOMAIN models' = 1..Len(models) /\ DOMAIN models = 1..Len(models)
      BY <2>4 DEF TypeOK
    <3>4. models' = [m \in 1..Len(models) |-> models'[m]]
      BY <2>4, <3>3
    <3>5. models' \in [1..Len(models) -> Models]
      BY <3>2, <3>3, <3>4
    <3>6. Len(models) \in Nat
      BY DEF TypeOK
    <3>7. models' \in Seq(Models)
      BY <3>5, <3>6
    <3>8. QED BY <3>2, <3>3, <3>7
  <2>5. QED BY <1>2, <2>3, <2>4 DEF Activate
<1>3. CASE UNCHANGED models
  BY <1>3 DEF TypeOK
<1>4. QED
  <2>1. CASE \E start, end \in Choices, fit \in BOOLEAN : Train(start, end, fit)
    BY <1>1, <2>1
  <2>2. CASE \E o \in Operators : Activate(o)
    BY <1>2, <2>2
  <2>3. QED
    BY <1>3, <2>1, <2>2 DEF Next, vars, Tick, Start, End, Promote, Gate, Lock, Retire, Crash,
                            Evaluate, promotion

-------------------------------------------------------------------------------
(***************************************************************************)
(* Promotions.                                                             *)
(***************************************************************************)

\* An operator at the end of its transaction has retired every active model.
LEMMA NothingIsKept ==
    ASSUME PromotionInv, NEW o \in Operators, Activate(o)
    PROVE  /\ promoting[o] \in DOMAIN models /\ retiring[o] = active
           /\ models' = [m \in DOMAIN models |->
                IF m = promoting[o] THEN [models[m] EXCEPT !.state = "active"]
                ELSE IF m \in retiring[o] THEN [models[m] EXCEPT !.state = "retired"]
                ELSE models[m]]
           /\ Finish(o, "idle")
  BY DEF Activate, PromotionInv

\* A trained model is not active yet.
LEMMA CandidatesAreNotActive ==
    ASSUME TypeOK, NEW start, NEW end, NEW fit, Train(start, end, fit)
    PROVE  active' = active
<1> DEFINE new == [state |-> "candidate", train |-> TrainPart(Healthy(start, end)),
                   validation |-> ValidationPart(Healthy(start, end)), fit |-> fit]
<1>1. models' = Append(models, new) /\ new.state = "candidate"
  BY DEF Train
<1> HIDE DEF new
<1>2. /\ DOMAIN models' = DOMAIN models \cup {Len(models) + 1}
      /\ \A m \in DOMAIN models : models'[m] = models[m]
      /\ models'[Len(models) + 1] = new /\ Len(models) + 1 \notin DOMAIN models
  BY <1>1 DEF TypeOK
<1>3. QED BY <1>1, <1>2 DEF active

\* A step leaves the active models alone, or there is exactly one afterwards.
LEMMA ActiveStep ==
    ASSUME TypeOK, PromotionInv, [Next]_vars
    PROVE  active' = active \/ \E m : active' = {m}
<1>1. ASSUME NEW o \in Operators, Activate(o)
      PROVE  active' = {promoting[o]}
  <2>1. \A m \in DOMAIN models : models[m] \in Models
    BY DEF TypeOK
  <2>2. DOMAIN models' = DOMAIN models
    BY <1>1, NothingIsKept
  <2>3. promoting[o] \in DOMAIN models /\ models'[promoting[o]].state = "active"
    BY <1>1, <2>1, NothingIsKept DEF Models
  <2>4. ASSUME NEW m \in DOMAIN models, m # promoting[o]
        PROVE  models'[m].state # "active"
    <3>1. models'[m] = IF m \in retiring[o] THEN [models[m] EXCEPT !.state = "retired"] ELSE models[m]
      BY <1>1, <2>4, NothingIsKept
    <3>2. m \in retiring[o] <=> models[m].state = "active"
      BY <1>1, NothingIsKept DEF active
    <3>3. models[m] \in Models
      BY <2>1
    <3>4. QED BY <3>1, <3>2, <3>3 DEF Models
  <2>5. QED BY <2>2, <2>3, <2>4 DEF active
<1>2. ASSUME NEW start \in Choices, NEW end \in Choices, NEW fit \in BOOLEAN, Train(start, end, fit)
      PROVE  active' = active
  BY <1>2, CandidatesAreNotActive
<1>3. CASE UNCHANGED models
  BY <1>3 DEF active
<1>4. QED
  <2>1. CASE \E start, end \in Choices, fit \in BOOLEAN : Train(start, end, fit)
    BY <1>2, <2>1
  <2>2. CASE \E o \in Operators : Activate(o)
    BY <1>1, <2>2
  <2>3. QED
    BY <1>3, <2>1, <2>2 DEF Next, vars, Tick, Start, End, Promote, Gate, Lock, Retire, Crash,
                            Evaluate, promotion

\* How a transaction that is not the last to fail ends.
LEMMA FinishTyped ==
    ASSUME TypeOK, NEW o \in Operators, Finish(o, "idle")
    PROVE  /\ pc' = [pc EXCEPT ![o] = "idle"]
           /\ pc' \in [Operators -> {"idle", "gated", "locked", "retiring", "failed"}]
           /\ promoting' = [promoting EXCEPT ![o] = 0] /\ promoting' \in [Operators -> Nat]
           /\ retiring' = [retiring EXCEPT ![o] = {}] /\ retiring' \in [Operators -> SUBSET Nat]
           /\ lock' \in Operators \cup {NoOne}
           /\ lock # o => lock' = lock
  BY DEF TypeOK, Finish

\* Every operator keeps what its place in the promotion says it holds.
LEMMA PromotionStep ==
    ASSUME TypeOK, PromotionInv, [Next]_vars
    PROVE  /\ pc' \in [Operators -> {"idle", "gated", "locked", "retiring", "failed"}]
           /\ promoting' \in [Operators -> Nat]
           /\ retiring' \in [Operators -> SUBSET Nat]
           /\ lock' \in Operators \cup {NoOne}
           /\ PromotionInv'
<1> DEFINE Goal == /\ pc' \in [Operators -> {"idle", "gated", "locked", "retiring", "failed"}]
                   /\ promoting' \in [Operators -> Nat]
                   /\ retiring' \in [Operators -> SUBSET Nat]
                   /\ lock' \in Operators \cup {NoOne}
                   /\ PromotionInv'
<1> SUFFICES Goal
  OBVIOUS
<1> USE OperatorsAssumption
<1>0. DOMAIN models \subseteq DOMAIN models'
  BY ModelsStep
<1>1. ASSUME NEW o \in Operators, NEW m \in DOMAIN models, Gate(o, m) PROVE Goal
  <2>1. active' = active /\ m \in Nat
    BY <1>1 DEF Gate, active, TypeOK
  <2>2. QED BY <1>1, <2>1 DEF Gate, TypeOK, PromotionInv
<1>2. ASSUME NEW o \in Operators, Lock(o) PROVE Goal
  <2>1. active' = active
    BY <1>2 DEF Lock, active
  <2>2. \A p \in Operators : pc[p] \notin {"locked", "retiring"}
    BY <1>2 DEF Lock, PromotionInv
  <2>3. QED BY <1>2, <2>1, <2>2 DEF Lock, TypeOK, PromotionInv
<1>3. ASSUME NEW o \in Operators, Retire(o) PROVE Goal
  <2>1. active' = active /\ active \in SUBSET Nat
    BY <1>3 DEF Retire, active, TypeOK
  <2>2. QED BY <1>3, <2>1 DEF Retire, TypeOK, PromotionInv
<1>4. ASSUME NEW o \in Operators, Activate(o) PROVE Goal
  <2>1. lock = o /\ \A p \in Operators : p # o => pc[p] \notin {"locked", "retiring"}
    BY <1>4 DEF Activate, PromotionInv
  <2>2. QED BY <1>0, <1>4, <2>1, NothingIsKept, FinishTyped DEF TypeOK, PromotionInv
<1>5. ASSUME NEW o \in Operators, Crash(o) PROVE Goal
  <2>1. active' = active /\ models' = models
    BY <1>5 DEF Crash, active
  <2>2. QED BY <1>5, <2>1, FinishTyped DEF Crash, TypeOK, PromotionInv
<1>6. ASSUME UNCHANGED promotion, active' = active PROVE Goal
  BY <1>0, <1>6 DEF promotion, TypeOK, PromotionInv
<1>7. ASSUME NEW start \in Choices, NEW end \in Choices, NEW fit \in BOOLEAN, Train(start, end, fit)
      PROVE  Goal
  BY <1>6, <1>7, CandidatesAreNotActive DEF Train
<1>8. CASE UNCHANGED promotion /\ UNCHANGED models
  BY <1>6, <1>8 DEF active
<1> HIDE DEF Goal
<1>9. CASE Tick \/ (\E scoped \in BOOLEAN : Start(scoped)) \/ (\E i \in DOMAIN faults : End(i))
  BY <1>8, <1>9 DEF Tick, Start, End
<1>10. CASE \E start, end \in Choices, m \in DOMAIN models : Evaluate(m, start, end)
  BY <1>8, <1>10 DEF Evaluate
<1>11. CASE UNCHANGED vars
  BY <1>8, <1>11 DEF vars
<1>12. CASE \E o \in Operators : Promote(o) \/ \E m \in DOMAIN models : Gate(o, m)
  BY <1>1, <1>2, <1>3, <1>4, <1>5, <1>12 DEF Promote
<1>13. CASE \E start, end \in Choices, fit \in BOOLEAN : Train(start, end, fit)
  BY <1>7, <1>13
<1>14. QED BY <1>9, <1>10, <1>11, <1>12, <1>13 DEF Next

-------------------------------------------------------------------------------
(***************************************************************************)
(* The data sets.                                                          *)
(***************************************************************************)

\* What a new model is made of: windows that are sealed and that no fault touches.
LEMMA TrainedModel ==
    ASSUME TypeOK, FaultsArePast, NEW start \in Choices, NEW end \in Choices, NEW fit \in BOOLEAN,
           Train(start, end, fit)
    PROVE  LET new == models'[Len(models) + 1] IN
           /\ new.validation # {}
           /\ \A k \in new.train \cup new.validation :
                /\ k \in Nat /\ k + 1 <= now
                /\ \A i \in DOMAIN faults :
                    k < faults[i].started \/ (faults[i].ended # 0 /\ k + 1 > faults[i].ended)
           /\ \A k \in new.train, v \in new.validation : v >= k + 1 + Margin
<1> DEFINE ms == Healthy(start, end)
           row == [state |-> "candidate", train |-> TrainPart(ms),
                   validation |-> ValidationPart(ms), fit |-> fit]
<1>1. models' = Append(models, row)
  BY DEF Train
<1>2. models'[Len(models) + 1] = row
  BY <1>1 DEF TypeOK
<1>3. row.train = TrainPart(ms) /\ row.validation = ValidationPart(ms)
  OBVIOUS
<1>4. ValidationPart(ms) # {}
  <2>1. Cardinality(ValidationPart(ms)) >= MinValidation
    BY DEF Train
  <2>2. Cardinality({}) = 0
    BY FS_EmptySet
  <2>3. QED BY <2>1, <2>2, Numbers
<1>5. now \in Nat /\ start \in Nat /\ end \in Nat
  BY Numbers DEF TypeOK
<1>6. ASSUME NEW k \in ms
      PROVE  /\ k \in Nat /\ k + 1 <= now
             /\ \A i \in DOMAIN faults :
                  k < faults[i].started \/ (faults[i].ended # 0 /\ k + 1 > faults[i].ended)
  <2>1. k \in Nat /\ k + 1 <= now
    BY <1>5, WindowsArePast DEF Healthy
  <2>2. ASSUME NEW i \in DOMAIN faults
        PROVE  k < faults[i].started \/ (faults[i].ended # 0 /\ k + 1 > faults[i].ended)
    <3>0. faults[i] \in Faults
      BY DEF TypeOK
    <3>1. faults[i].started \in Nat /\ faults[i].ended \in Nat
      BY <3>0 DEF Faults
    <3>2. ~(k + 1 >= faults[i].started - Margin /\ k <= Until(faults[i]) + Margin)
      BY DEF Healthy, Touches
    <3>3. QED BY <1>5, <2>1, <3>1, <3>2, Numbers DEF Until
  <2>3. QED BY <2>1, <2>2
<1> HIDE DEF ms, row
<1>7. QED BY <1>2, <1>3, <1>4, <1>6, DataSets

\* Faults stay in the past and models clean: a fault that starts or ends now does
\* so after every window that has been sealed.
LEMMA DataStep ==
    ASSUME TypeOK, FaultsArePast, ModelsInv, [Next]_vars
    PROVE  FaultsArePast' /\ ModelsInv'
<1>1. now \in Nat /\ now' \in Nat /\ now <= now'
  BY ClockStep DEF TypeOK
<1>2. \A i \in DOMAIN faults : faults[i].started \in Nat /\ faults[i].ended \in Nat
  <2>1. \A i \in DOMAIN faults : faults[i] \in Faults
    BY DEF TypeOK
  <2>2. QED BY <2>1 DEF Faults
<1>3. FaultsArePast'
  BY <1>1, <1>2, FaultsStep DEF FaultsArePast
<1>4. ASSUME NEW k \in Nat, k + 1 <= now,
             \A i \in DOMAIN faults :
                k < faults[i].started \/ (faults[i].ended # 0 /\ k + 1 > faults[i].ended)
      PROVE  \A i \in DOMAIN faults' :
                k < faults'[i].started \/ (faults'[i].ended # 0 /\ k + 1 > faults'[i].ended)
  <2>1. ASSUME NEW i \in DOMAIN faults
        PROVE  k < faults'[i].started \/ (faults'[i].ended # 0 /\ k + 1 > faults'[i].ended)
    <3>1. /\ faults'[i].started = faults[i].started
          /\ \/ faults'[i].ended = faults[i].ended
             \/ faults[i].ended = 0 /\ faults'[i].ended = now /\ now # 0
      BY FaultsStep
    <3>2. QED BY <1>1, <1>2, <1>4, <3>1
  <2>2. ASSUME NEW i \in DOMAIN faults' \ DOMAIN faults PROVE k < faults'[i].started
    <3>1. faults'[i].started = now
      BY FaultsStep
    <3>2. QED BY <1>1, <1>4, <3>1
  <2>3. QED BY <2>1, <2>2
<1>5. ASSUME NEW m \in DOMAIN models'
      PROVE  /\ models'[m].validation # {}
             /\ \A k \in models'[m].train \cup models'[m].validation :
                /\ k \in Nat /\ k + 1 <= now
                /\ \A i \in DOMAIN faults :
                    k < faults[i].started \/ (faults[i].ended # 0 /\ k + 1 > faults[i].ended)
             /\ \A k \in models'[m].train, v \in models'[m].validation : v >= k + 1 + Margin
  <2>1. CASE m \in DOMAIN models
    <3>1. models'[m].train = models[m].train /\ models'[m].validation = models[m].validation
      BY <2>1, ModelsStep
    <3>2. models[m] \in Models
      BY <2>1 DEF TypeOK
    <3>3. models[m].train \subseteq Nat /\ models[m].validation \subseteq Nat
      BY <3>2 DEF Models
    <3>4. QED BY <2>1, <3>1, <3>3 DEF ModelsInv, Seen
  <2>2. CASE m \notin DOMAIN models
    <3>1. PICK start \in Choices, end \in Choices, fit \in BOOLEAN :
            Train(start, end, fit) /\ m = Len(models) + 1
      BY <2>2, ModelsStep
    <3>2. QED BY <3>1, TrainedModel
  <2>3. QED BY <2>1, <2>2
<1>6. \A k \in Nat : k + 1 <= now => k + 1 <= now'
  BY <1>1
<1>7. ModelsInv'
  BY <1>4, <1>5, <1>6 DEF ModelsInv, Seen
<1>8. QED BY <1>3, <1>7

-------------------------------------------------------------------------------
(***************************************************************************)
(* The tests.                                                              *)
(***************************************************************************)

\* What the row of a new test says, when it is written.
LEMMA NewTest ==
    ASSUME IInv, NEW start \in Choices, NEW end \in Choices, NEW m \in DOMAIN models,
           Evaluate(m, start, end), NEW e \in evaluation'
    PROVE  /\ e \in Evaluations
           /\ e.started = now /\ e.model = m
           /\ \A t \in e.positives \cup e.negatives, k \in Seen(m) : t >= k + 1 + Margin
           /\ \A t \in e.positives : \E i \in DOMAIN faults :
                faults[i].scoped /\ faults[i].started <= t /\ t + 1 <= faults[i].ended
           /\ \A t \in e.negatives, i \in DOMAIN faults :
                faults[i].started >= e.start /\ faults[i].ended \in 1..e.end
                    => t + 1 < faults[i].started - Margin \/ t > faults[i].ended + Margin
<1>1. e = [model |-> m, start |-> start, end |-> end, started |-> now,
           positives |-> Positives(start, end), negatives |-> Negatives(start, end)]
  BY DEF Evaluate
<1>2. now \in Nat /\ start \in Nat /\ end \in Nat /\ m \in Nat
  BY Numbers DEF IInv, TypeOK
<1>3. ASSUME NEW t \in Positives(start, end) \cup Negatives(start, end)
      PROVE  t \in Nat /\ start <= t
  BY <1>2, <1>3, WindowsArePast DEF Positives, Negatives
<1>4. e \in Evaluations
  BY <1>1, <1>2, <1>3 DEF Evaluations
<1>5. ASSUME NEW t \in Positives(start, end) \cup Negatives(start, end), NEW k \in Seen(m)
      PROVE  t >= k + 1 + Margin
  <2>1. start >= ValidationEnd(models[m]) + Margin
    BY DEF Evaluate, Follows
  <2>2. ValidationEnd(models[m]) \in Nat /\ k + 1 <= ValidationEnd(models[m])
    BY ValidationEnds DEF IInv
  <2>3. k \in Nat
    <3>1. models[m] \in Models
      BY DEF IInv, TypeOK
    <3>2. QED BY <3>1 DEF Seen, Models
  <2>4. QED BY <1>2, <1>3, <1>5, <2>1, <2>2, <2>3, Numbers
<1>6. ASSUME NEW t \in Positives(start, end)
      PROVE  \E i \in DOMAIN faults :
                faults[i].scoped /\ faults[i].started <= t /\ t + 1 <= faults[i].ended
  BY <1>6 DEF Positives, Complete, Inside
<1>7. ASSUME NEW t \in Negatives(start, end), NEW i \in DOMAIN faults,
             faults[i].started >= start, faults[i].ended \in 1..end
      PROVE  t + 1 < faults[i].started - Margin \/ t > faults[i].ended + Margin
  <2>1. faults[i] \in Faults
    BY DEF IInv, TypeOK
  <2>2. faults[i].started \in Nat /\ faults[i].ended \in Nat
    BY <2>1 DEF Faults
  <2>3. faults[i] \in Complete(start, end)
    BY <1>2, <1>7, <2>2 DEF Complete
  <2>4. ~Touches(faults[i], faults[i].ended, t)
    BY <2>3 DEF Negatives
  <2>5. t \in Nat
    BY <1>3
  <2>6. QED BY <2>2, <2>4, <2>5, Numbers DEF Touches
<1>8. QED BY <1>1, <1>4, <1>5, <1>6, <1>7

\* A test keeps what it says of its model and of the faults: neither a new fault
\* nor the end of one that was open when the test was run is a complete fault of it.
LEMMA TestsStep ==
    ASSUME IInv, [Next]_vars, ModelsInv'
    PROVE  /\ evaluation' \subseteq Evaluations
           /\ EvaluationsArePast' /\ HoldoutsAreUnseen' /\ TestIsLabelled'
<1>1. ASSUME NEW e \in evaluation'
      PROVE  /\ e \in Evaluations
             /\ e.started <= now /\ e.model \in DOMAIN models
             /\ \A t \in e.positives \cup e.negatives, k \in Seen(e.model) : t >= k + 1 + Margin
             /\ \A t \in e.positives : \E i \in DOMAIN faults :
                  faults[i].scoped /\ faults[i].started <= t /\ t + 1 <= faults[i].ended
             /\ \A t \in e.negatives, i \in DOMAIN faults :
                  faults[i].started >= e.start /\ faults[i].ended \in 1..e.end
                    /\ faults[i].ended < e.started
                      => t + 1 < faults[i].started - Margin \/ t > faults[i].ended + Margin
  <2>1. CASE e \in evaluation
    BY <2>1 DEF IInv, TypeOK, EvaluationsArePast, HoldoutsAreUnseen, TestIsLabelled, Seen
  <2>2. CASE \E start, end \in Choices, m \in DOMAIN models : Evaluate(m, start, end)
    <3>1. PICK start \in Choices, end \in Choices, m \in DOMAIN models : Evaluate(m, start, end)
      BY <2>2
    <3>2. now \in Nat
      BY DEF IInv, TypeOK
    <3>3. QED BY <3>1, <3>2, NewTest
  <2>3. CASE UNCHANGED evaluation
    BY <2>1, <2>3
  <2>4. QED
    BY <2>2, <2>3 DEF Next, vars, Tick, Start, End, Train, Promote, Gate, Lock, Retire, Activate, Crash
<1>2. /\ now \in Nat /\ now' \in Nat /\ now <= now'
      /\ DOMAIN models \subseteq DOMAIN models'
      /\ \A m \in DOMAIN models :
            models'[m].train = models[m].train /\ models'[m].validation = models[m].validation
  BY ClockStep, ModelsStep DEF IInv, TypeOK
<1>3. \A e \in evaluation' : e.started \in Nat
  BY <1>1 DEF Evaluations
<1>4. EvaluationsArePast'
  BY <1>1, <1>2, <1>3 DEF EvaluationsArePast
<1>5. HoldoutsAreUnseen'
  BY <1>1, <1>2 DEF HoldoutsAreUnseen, ModelsInv, Seen
<1>6. \A i \in DOMAIN faults :
        /\ faults[i].started \in Nat /\ faults[i].ended \in Nat
        /\ i \in DOMAIN faults'
        /\ faults'[i].started = faults[i].started /\ faults'[i].scoped = faults[i].scoped
        /\ \/ faults'[i].ended = faults[i].ended
           \/ faults[i].ended = 0 /\ faults'[i].ended = now /\ now # 0
  <2>1. \A i \in DOMAIN faults : faults[i] \in Faults
    BY DEF IInv, TypeOK
  <2>2. QED BY <2>1, FaultsStep DEF IInv, Faults
<1>7. \A i \in DOMAIN faults' \ DOMAIN faults : faults'[i].ended = 0
  BY FaultsStep DEF IInv
<1>8. ASSUME NEW e \in evaluation'
      PROVE  /\ \A t \in e.positives : \E i \in DOMAIN faults' :
                  faults'[i].scoped /\ faults'[i].started <= t /\ t + 1 <= faults'[i].ended
             /\ \A t \in e.negatives, i \in DOMAIN faults' :
                  faults'[i].started >= e.start /\ faults'[i].ended \in 1..e.end
                    /\ faults'[i].ended < e.started
                      => t + 1 < faults'[i].started - Margin \/ t > faults'[i].ended + Margin
  <2>1. e \in Evaluations /\ e.started <= now
    BY <1>1
  <2>2. ASSUME NEW t \in e.positives
        PROVE  \E i \in DOMAIN faults' :
                  faults'[i].scoped /\ faults'[i].started <= t /\ t + 1 <= faults'[i].ended
    <3>1. PICK i \in DOMAIN faults :
            faults[i].scoped /\ faults[i].started <= t /\ t + 1 <= faults[i].ended
      BY <1>1
    <3>2. t \in Nat
      BY <2>1 DEF Evaluations
    <3>3. faults[i].ended # 0
      BY <1>6, <3>1, <3>2
    <3>4. QED BY <1>6, <3>1, <3>3
  <2>3. ASSUME NEW t \in e.negatives, NEW i \in DOMAIN faults',
               faults'[i].started >= e.start, faults'[i].ended \in 1..e.end,
               faults'[i].ended < e.started
        PROVE  t + 1 < faults'[i].started - Margin \/ t > faults'[i].ended + Margin
    <3>1. e.start \in Nat /\ e.end \in Nat /\ e.started \in Nat
      BY <2>1 DEF Evaluations
    <3>2. faults'[i].ended # 0 /\ faults'[i].ended # now
      BY <1>2, <2>1, <2>3, <3>1
    <3>3. i \in DOMAIN faults
      BY <1>7, <3>2
    <3>4. faults'[i].started = faults[i].started /\ faults'[i].ended = faults[i].ended
      BY <1>6, <3>2, <3>3
    <3>5. QED BY <1>1, <2>3, <3>3, <3>4
  <2>4. QED BY <2>2, <2>3
<1>9. TestIsLabelled'
  BY <1>8 DEF TestIsLabelled
<1>10. QED BY <1>1, <1>4, <1>5, <1>9

-------------------------------------------------------------------------------

LEMMA Initial == Init => IInv
<1> SUFFICES ASSUME Init PROVE IInv
  OBVIOUS
<1>1. TypeOK
  BY OperatorsAssumption DEF Init, TypeOK
<1>2. PromotionInv
  BY DEF Init, PromotionInv
<1>3. FaultsArePast /\ ModelsInv /\ EvaluationsArePast /\ HoldoutsAreUnseen /\ TestIsLabelled
  BY DEF Init, FaultsArePast, ModelsInv, EvaluationsArePast, HoldoutsAreUnseen, TestIsLabelled
<1>4. QED BY <1>1, <1>2, <1>3 DEF IInv

LEMMA StepKeepsInvariant == IInv /\ [Next]_vars => IInv'
<1> SUFFICES ASSUME IInv, [Next]_vars PROVE IInv'
  OBVIOUS
<1>1. TypeOK /\ PromotionInv /\ FaultsArePast /\ ModelsInv
  BY DEF IInv
<1>2. FaultsArePast' /\ ModelsInv'
  BY <1>1, DataStep
<1>3. PromotionInv'
  BY <1>1, PromotionStep
<1>4. EvaluationsArePast' /\ HoldoutsAreUnseen' /\ TestIsLabelled'
  BY <1>2, TestsStep
<1>5. TypeOK'
  BY <1>1, <1>2, ClockStep, FaultsStep, ModelsStep, PromotionStep, TestsStep DEF TypeOK
<1>6. QED BY <1>2, <1>3, <1>4, <1>5 DEF IInv

\* IInv holds in every reachable state, for any number of operators, models and faults.
THEOREM InductiveInvariant == Spec => []IInv
<1>1. Init => IInv
  BY Initial
<1>2. IInv /\ [Next]_vars => IInv'
  BY StepKeepsInvariant
<1>3. QED BY <1>1, <1>2, PTL DEF Spec

\* The tables keep their types and each operator what it holds.
THEOREM TypeCorrect == Spec => []TypeOK
<1>1. IInv => TypeOK
  BY DEF IInv
<1>2. QED BY <1>1, InductiveInvariant, PTL

\* However many operators promote at once, the unique index refuses none of them
\* (promote, rollback: pg_advisory_xact_lock before the first UPDATE).
THEOREM NoCollision == Spec => []PromotionsNeverCollide
<1>1. IInv => PromotionsNeverCollide
  BY DEF IInv, PromotionInv, PromotionsNeverCollide
<1>2. QED BY <1>1, InductiveInvariant, PTL

\* No promotion, whether it ends or dies, leaves a service that had its one
\* active model with none or two (promote).
THEOREM Coverage == Spec => ServiceStaysCovered
<1>1. \A m : Cardinality({m}) = 1
  BY FS_Singleton
<1>2. IInv /\ [Next]_vars => [Cardinality(active) = 1 => Cardinality(active)' = 1]_vars
  <2> SUFFICES ASSUME IInv, [Next]_vars, Cardinality(active) = 1
               PROVE  Cardinality(active') = 1
    OBVIOUS
  <2>1. active' = active \/ \E m : active' = {m}
    BY ActiveStep DEF IInv
  <2>2. QED BY <1>1, <2>1
<1>3. QED BY <1>2, InductiveInvariant, PTL DEF Spec, ServiceStaysCovered

\* No model has seen a minute of a fault, however faults began and ended after it
\* was trained (train_candidate's query against fault_windows).
THEOREM CleanTraining == Spec => []TrainingIsClean
<1>1. IInv => TrainingIsClean
  <2> SUFFICES ASSUME IInv, NEW m \in DOMAIN models, NEW i \in DOMAIN faults, NEW k \in Seen(m)
               PROVE  ~(faults[i].started <= k /\ k + 1 <= Until(faults[i]))
    BY DEF TrainingIsClean, Seen
  <2>1. k < faults[i].started \/ (faults[i].ended # 0 /\ k + 1 > faults[i].ended)
    BY DEF IInv, ModelsInv
  <2>2. faults[i] \in Faults /\ models[m] \in Models
    BY DEF IInv, TypeOK
  <2>3. faults[i].started \in Nat /\ faults[i].ended \in Nat /\ k \in Nat
    BY <2>2 DEF Faults, Models, Seen
  <2>4. QED BY <2>1, <2>3 DEF Until
<1>2. QED BY <1>1, InductiveInvariant, PTL

\* Validation keeps the margin from training, and a test from both
\* (train_candidate's gap, evaluate_model's refusal).
THEOREM UnseenHoldouts == Spec => []HoldoutsAreUnseen
<1>1. IInv => HoldoutsAreUnseen
  BY DEF IInv
<1>2. QED BY <1>1, InductiveInvariant, PTL

\* A test stays labelled by the faults that were complete when it was run
\* (evaluate_model).
THEOREM LabelledTests == Spec => []TestIsLabelled
<1>1. IInv => TestIsLabelled
  BY DEF IInv
<1>2. QED BY <1>1, InductiveInvariant, PTL
===============================================================================
