---------------------------- MODULE ModelRegistry -----------------------------
(***************************************************************************)
(* The models of one service: operators train candidates on the windows    *)
(* that no recorded fault touches, promote or roll back, and evaluate a    *)
(* model on later windows (intelligence/models.py, evaluation.py, cli.py). *)
(* Time is counted in minutes; window m covers the minute from m to m + 1. *)
(***************************************************************************)
EXTENDS Integers, Sequences, FiniteSets

CONSTANTS
    Operators,      \* processes of the command line
    NoOne,          \* the advisory lock is free
    Missing,        \* minutes without a usable window
    Choices,        \* bound: the times operators choose for an interval
    Margin,         \* the five minutes around faults and between data sets
    MinHealthy,     \* MIN_TRAIN_WINDOWS, healthy windows in all
    MinTrain,       \* 40 training windows
    MinValidation,  \* 10 validation windows
    Lateness,       \* minutes until a window is sealed
    MaxTime,        \* bound: the clock
    MaxFaults,      \* bound: fault windows
    MaxModels,      \* bound: models
    MaxCrashes      \* bound: promotions that die

ASSUME OperatorsAssumption == NoOne \notin Operators
ASSUME NumbersAssumption ==
    /\ {Margin, Lateness, MaxTime, MaxFaults, MaxModels, MaxCrashes} \subseteq Nat
    /\ {MinHealthy, MinTrain, MinValidation} \subseteq Nat \ {0}
    /\ Choices \subseteq Nat /\ Missing \subseteq Nat

VARIABLES
    now,
    faults,         \* table fault_windows; a fault that goes on has ended = 0
    models,         \* table model_registry
    pc,             \* operators: idle, gated, locked, retiring or failed
    promoting,      \* the model each operator promotes
    retiring,       \* the rows its UPDATE has locked
    lock,           \* the advisory lock of the service and algorithm
    evaluation,     \* the latest row of evaluation_runs, or none
    crashes

promotion == <<pc, promoting, retiring, lock, crashes>>
vars == <<now, faults, models, promotion, evaluation>>

-------------------------------------------------------------------------------

\* the usable windows sealed by now that lie in an interval
Windows(start, end) ==
    {m \in 0..MaxTime : start <= m /\ m + 1 <= end /\ m + 1 + Lateness <= now /\ m \notin Missing}

\* the fault touches the window, or its margin does
Touches(f, until, m) == m + 1 >= f.started - Margin /\ m <= until + Margin

\* mutant: a fault that goes on has no end
Until_Started(f) == IF f.ended = 0 THEN f.started - 2 * Margin - 1 ELSE f.ended

\* COALESCE(ended_at, NOW())
Until(f) == IF f.ended = 0 THEN now ELSE f.ended

Healthy(start, end) ==
    {m \in Windows(start, end) : \A i \in DOMAIN faults : ~Touches(faults[i], Until(faults[i]), m)}

\* the first seven tenths train
TrainPart(ms) == {m \in ms : Cardinality({k \in ms : k <= m}) <= (7 * Cardinality(ms)) \div 10}

\* mutant: no gap is kept
ValidationPart_NoGap(ms) == ms \ TrainPart(ms)

\* what is left validates, from a margin after the last of them on
ValidationPart(ms) == {m \in ms \ TrainPart(ms) : \A k \in TrainPart(ms) : m >= k + 1 + Margin}

active == {m \in DOMAIN models : models[m].state = "active"}

\* the end of its last validation window
ValidationEnd(model) == 1 + CHOOSE m \in model.validation : \A k \in model.validation : k <= m

-------------------------------------------------------------------------------

Init ==
    /\ now = 0
    /\ faults = <<>> /\ models = <<>>
    /\ pc = [o \in Operators |-> "idle"]
    /\ promoting = [o \in Operators |-> 0]
    /\ retiring = [o \in Operators |-> {}]
    /\ lock = NoOne
    /\ evaluation = {}
    /\ crashes = 0

Tick ==
    /\ now < MaxTime
    /\ now' = now + 1
    /\ UNCHANGED <<faults, models, promotion, evaluation>>

\* a fault expected to affect this service, or another (Faults)
Start(scoped) ==
    /\ Len(faults) < MaxFaults /\ now > 0
    /\ faults' = Append(faults, [scoped |-> scoped, started |-> now, ended |-> 0])
    /\ UNCHANGED <<now, models, promotion, evaluation>>

End(i) ==
    /\ faults[i].ended = 0
    /\ faults' = [faults EXCEPT ![i].ended = now]
    /\ UNCHANGED <<now, models, promotion, evaluation>>

\* A candidate is trained, its file replaced and its row inserted.  Whether its
\* alerts on the validation windows stay within a tenth depends on the data.
Train(start, end, fit) ==
    LET ms == Healthy(start, end) IN
    /\ Len(models) < MaxModels
    /\ start < end
    /\ Cardinality(ms) >= MinHealthy
    /\ Cardinality(TrainPart(ms)) >= MinTrain
    /\ Cardinality(ValidationPart(ms)) >= MinValidation
    /\ models' = Append(models, [state |-> "candidate", train |-> TrainPart(ms),
                                 validation |-> ValidationPart(ms), fit |-> fit])
    /\ UNCHANGED <<now, faults, promotion, evaluation>>

(***************************************************************************)
(* promote and rollback.                                                   *)
(***************************************************************************)

\* the row is read, its artifact loaded and the gate passed
Gate(o, m) ==
    /\ pc[o] = "idle"
    /\ models[m].fit
    /\ pc' = [pc EXCEPT ![o] = "gated"]
    /\ promoting' = [promoting EXCEPT ![o] = m]
    /\ UNCHANGED <<now, faults, models, retiring, lock, evaluation, crashes>>

\* mutant: the transaction does not take the advisory lock
Lock_Never(o) ==
    /\ pc[o] = "gated"
    /\ pc' = [pc EXCEPT ![o] = "locked"]
    /\ UNCHANGED <<now, faults, models, promoting, retiring, lock, evaluation, crashes>>

\* pg_advisory_xact_lock
Lock(o) ==
    /\ pc[o] = "gated" /\ lock = NoOne
    /\ lock' = o
    /\ pc' = [pc EXCEPT ![o] = "locked"]
    /\ UNCHANGED <<now, faults, models, promoting, retiring, evaluation, crashes>>

\* mutant: the first UPDATE is a transaction of its own
Retire_Commits(o) ==
    /\ pc[o] = "locked"
    /\ pc' = [pc EXCEPT ![o] = "retiring"]
    /\ models' = [m \in DOMAIN models |->
                    IF m \in active THEN [models[m] EXCEPT !.state = "retired"] ELSE models[m]]
    /\ UNCHANGED <<now, faults, promoting, retiring, lock, evaluation, crashes>>

\* The first UPDATE finds the active rows, which nobody else sees it change.
Retire(o) ==
    /\ pc[o] = "locked"
    /\ pc' = [pc EXCEPT ![o] = "retiring"]
    /\ retiring' = [retiring EXCEPT ![o] = active]
    /\ UNCHANGED <<now, faults, models, promoting, lock, evaluation, crashes>>

\* how a transaction ends, and its locks with it
Finish(o, outcome) ==
    /\ pc' = [pc EXCEPT ![o] = outcome]
    /\ promoting' = [promoting EXCEPT ![o] = 0]
    /\ retiring' = [retiring EXCEPT ![o] = {}]
    /\ lock' = IF lock = o THEN NoOne ELSE lock

\* The second UPDATE and the commit; a row that has become active since the
\* first violates the unique index and fails the transaction.
Activate(o) ==
    /\ pc[o] = "retiring"
    /\ LET kept == active \ (retiring[o] \cup {promoting[o]}) IN
       IF kept = {}
       THEN /\ models' = [m \in DOMAIN models |->
                IF m = promoting[o] THEN [models[m] EXCEPT !.state = "active"]
                ELSE IF m \in retiring[o] THEN [models[m] EXCEPT !.state = "retired"]
                ELSE models[m]]
            /\ Finish(o, "idle")
       ELSE /\ Finish(o, "failed")
            /\ UNCHANGED models
    /\ UNCHANGED <<now, faults, evaluation, crashes>>

\* the process or its connection dies, and the transaction is rolled back
Crash(o) ==
    /\ pc[o] \in {"gated", "locked", "retiring"}
    /\ crashes < MaxCrashes
    /\ crashes' = crashes + 1
    /\ Finish(o, "idle")
    /\ UNCHANGED <<now, faults, models, evaluation>>

(***************************************************************************)
(* evaluate.                                                               *)
(***************************************************************************)

\* mutant: the test only has to follow the training windows
Follows_Training(model, start) == \A m \in model.train : start >= m + 1 + Margin

\* the test follows training and validation by the margin
Follows(model, start) == start >= ValidationEnd(model) + Margin

\* the faults that began and ended within the test
Complete(start, end) ==
    {faults[i] : i \in {j \in DOMAIN faults :
        faults[j].ended # 0 /\ start <= faults[j].started /\ faults[j].ended <= end}}

\* mutant: a window that only overlaps a fault is a positive
Inside_Partly(f, m) == f.started <= m + 1 /\ m <= f.ended

\* the whole window lies in the fault
Inside(f, m) == f.started <= m /\ m + 1 <= f.ended

Positives(start, end) ==
    {m \in Windows(start, end) : \E f \in Complete(start, end) : f.scoped /\ Inside(f, m)}

\* the rest, without what lies in or near a complete fault on any service
Negatives(start, end) ==
    {m \in Windows(start, end) \ Positives(start, end) :
        \A f \in Complete(start, end) : ~Touches(f, f.ended, m)}

\* evaluate_model stores its metrics, or refuses the interval
Evaluate(m, start, end) ==
    /\ Follows(models[m], start) /\ start < end
    /\ Positives(start, end) # {} /\ Negatives(start, end) # {}
    /\ evaluation' = {[model |-> m, start |-> start, end |-> end, started |-> now,
                       positives |-> Positives(start, end), negatives |-> Negatives(start, end)]}
    /\ UNCHANGED <<now, faults, models, promotion>>

-------------------------------------------------------------------------------

Promote(o) == Lock(o) \/ Retire(o) \/ Activate(o) \/ Crash(o)

Next ==
    \/ Tick
    \/ \E scoped \in BOOLEAN : Start(scoped)
    \/ \E i \in DOMAIN faults : End(i)
    \/ \E start, end \in Choices, fit \in BOOLEAN : Train(start, end, fit)
    \/ \E o \in Operators : Promote(o) \/ \E m \in DOMAIN models : Gate(o, m)
    \/ \E start, end \in Choices, m \in DOMAIN models : Evaluate(m, start, end)

Spec == Init /\ [][Next]_vars

-------------------------------------------------------------------------------

\* Promotions of one service at the same time wait for each other: none reads
\* the active row too early and is refused by the unique index.
PromotionsNeverCollide == \A o \in Operators : pc[o] # "failed"

\* A promotion replaces the active model in one step, wherever it dies: a
\* service that has an active model never has none, or two.
ServiceStaysCovered == [][Cardinality(active) = 1 => Cardinality(active)' = 1]_vars

\* No model is trained or validated on a minute of a recorded fault, of whatever
\* service, one that still went on when it was trained included.
TrainingIsClean ==
    \A m \in DOMAIN models, i \in DOMAIN faults :
        \A k \in models[m].train \cup models[m].validation :
            ~(faults[i].started <= k /\ k + 1 <= Until(faults[i]))

\* The windows of a test are none its model has seen, and the validation windows
\* none it was trained on: both keep the margin that the rolling rates need.
HoldoutsAreUnseen ==
    /\ \A m \in DOMAIN models : \A k \in models[m].train, v \in models[m].validation :
        v >= k + 1 + Margin
    /\ \A e \in evaluation :
        \A t \in e.positives \cup e.negatives,
           k \in models[e.model].train \cup models[e.model].validation : t >= k + 1 + Margin

\* The positives of a test lie wholly in a fault on this service, and its
\* negatives keep the margin from every fault in the test that was complete when
\* it was run: evaluate takes an interval that is not over yet.
TestIsLabelled ==
    \A e \in evaluation :
        /\ \A m \in e.positives : \E i \in DOMAIN faults :
              faults[i].scoped /\ faults[i].started <= m /\ m + 1 <= faults[i].ended
        /\ \A m \in e.negatives, i \in DOMAIN faults :
              faults[i].started >= e.start /\ faults[i].ended \in 1..e.end /\ faults[i].ended < e.started
                => m + 1 < faults[i].started - Margin \/ m > faults[i].ended + Margin

\* "Exclude boundaries, recovery, and faults on other services from healthy
\* negatives" (evaluation.py): no negative is a minute of a recorded fault.
NegativesAreHealthy ==
    \A e \in evaluation : \A m \in e.negatives, i \in DOMAIN faults :
        ~(faults[i].started <= m /\ m + 1 <= Until(faults[i]))
===============================================================================
