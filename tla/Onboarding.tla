----------------------------- MODULE Onboarding -----------------------------
(***************************************************************************)
(* The onboarding wizard of the dashboard: the containers it discovers,    *)
(* the statistics merged into them later, the approval of a workload and   *)
(* the timers that walk through the pipeline's stages.  The desktop only   *)
(* hides the wizard: its state, requests and timers go on while it is      *)
(* closed.                                                                 *)
(***************************************************************************)
EXTENDS Integers, Sequences, FiniteSets, SequencesExt

CONSTANTS
    Found,          \* what the Docker engine may list: sequences of containers
    Running(_),     \* whether a container runs
    None,
    LastStage,      \* the last of the pipeline's stages, counted from 0
    MaxRounds,      \* bound: discoveries begun
    MaxApprovals    \* bound: approvals sent

VARIABLES
    shown,          \* isOpen
    step,           \* currentStep
    workloads,      \* discoveredWorkloads: container and the container its statistics are of
    engine, cluster,    \* whether the engine's and Kubernetes' information is known
    dockerLoading, dockerError,
    rounds,         \* the discoveries on their way: listing, or waiting for statistics
    begun,          \* how many discoveries have begun
    approvals,      \* the connect requests on their way
    approved,       \* how many have been sent
    stage,          \* activePipelineStage
    ticking,        \* the interval of the pipeline step runs
    timeouts        \* the timeouts that will show the last step

lists == <<workloads, engine, cluster, dockerLoading, dockerError, rounds, begun>>
timers == <<stage, ticking, timeouts>>
vars == <<shown, step, lists, approvals, approved, timers>>

\* discoverContainers begins: the wizard is shown at its first step, or is refreshed.
Discover ==
    /\ dockerLoading' = TRUE /\ dockerError' = FALSE
    /\ begun' = begun + 1 /\ rounds' = rounds \cup {[n |-> begun', ids |-> None]}
    /\ UNCHANGED <<workloads, engine, cluster>>

Init ==
    /\ shown = TRUE /\ step = "discover"
    /\ workloads = <<>> /\ engine = FALSE /\ cluster = FALSE
    /\ dockerLoading = TRUE /\ dockerError = FALSE /\ begun = 1 /\ rounds = {[n |-> 1, ids |-> None]}
    /\ approvals = 0 /\ approved = 0 /\ stage = 0 /\ ticking = FALSE /\ timeouts = 0

\* The desktop appears with the wizard open.
Fresh ==
    /\ shown' = TRUE /\ step' = "discover"
    /\ workloads' = <<>> /\ engine' = FALSE /\ cluster' = FALSE
    /\ dockerLoading' = TRUE /\ dockerError' = FALSE /\ begun' = 1 /\ rounds' = {[n |-> 1, ids |-> None]}
    /\ approvals' = 0 /\ approved' = 0 /\ stage' = 0 /\ ticking' = FALSE /\ timeouts' = 0

-------------------------------------------------------------------------------
(***************************************************************************)
(* The three discoveries at once, then the statistics.                     *)
(***************************************************************************)
toWorkload(c) == [id |-> c, stats |-> None]
Finish(r) == dockerLoading' = FALSE /\ rounds' = rounds \ {r}

\* The engine's list; its information and the cluster's pods are best effort.
ListArrives(r) ==
    /\ r.ids = None
    /\ \E found \in Found :
        /\ workloads' = [i \in DOMAIN found |-> toWorkload(found[i])]
        /\ IF \E i \in DOMAIN found : Running(found[i])
           THEN rounds' = (rounds \ {r}) \cup {[n |-> r.n, ids |-> found]} /\ UNCHANGED dockerLoading
           ELSE Finish(r)
    /\ engine' \in {engine, TRUE} /\ cluster' \in {cluster, TRUE}
    /\ UNCHANGED <<dockerError, begun>>

\* mutant: loading ends only where the containers are shown
ListFails_Loading(r) ==
    /\ r.ids = None
    /\ dockerError' = TRUE /\ workloads' = <<>> /\ rounds' = rounds \ {r}
    /\ UNCHANGED <<engine, cluster, begun, dockerLoading>>

ListFails(r) ==
    /\ r.ids = None
    /\ dockerError' = TRUE /\ workloads' = <<>> /\ Finish(r)
    /\ UNCHANGED <<engine, cluster, begun>>

\* The statistics of a container go to the workload with its id in whatever list is
\* shown by then.
Merged(stats) ==
    [i \in DOMAIN workloads |->
        IF Contains(stats, workloads[i].id) THEN [workloads[i] EXCEPT !.stats = workloads[i].id] ELSE workloads[i]]

\* The engine gathers the statistics of the containers that run by then.
StatsArrive(r) ==
    /\ r.ids # None
    /\ \E found \in Found : workloads' = Merged(SelectSeq(found, Running))
    /\ Finish(r) /\ UNCHANGED <<engine, cluster, dockerError, begun>>

StatsFail(r) == r.ids # None /\ Finish(r) /\ UNCHANGED <<workloads, engine, cluster, dockerError, begun>>

Answer ==
    /\ \E r \in rounds : ListArrives(r) \/ ListFails(r) \/ StatsArrive(r) \/ StatsFail(r)
    /\ UNCHANGED <<shown, step, approvals, approved, timers>>

-------------------------------------------------------------------------------
(***************************************************************************)
(* The wizard's buttons.                                                   *)
(***************************************************************************)
Open ==
    /\ begun < MaxRounds
    /\ shown' = TRUE
    /\ IF ~shown /\ step = "discover" THEN Discover ELSE UNCHANGED lists
    /\ UNCHANGED <<step, approvals, approved, timers>>

Close == shown /\ shown' = FALSE /\ UNCHANGED <<step, lists, approvals, approved, timers>>

Refresh ==
    /\ shown /\ step = "discover" /\ ~dockerLoading /\ begun < MaxRounds
    /\ Discover /\ UNCHANGED <<shown, step, approvals, approved, timers>>

SelectWorkload ==
    /\ shown /\ step = "discover" /\ step' = "approve"
    /\ UNCHANGED <<shown, lists, approvals, approved, timers>>

Back ==
    /\ shown /\ step = "approve" /\ begun < MaxRounds
    /\ step' = "discover" /\ Discover
    /\ UNCHANGED <<shown, approvals, approved, timers>>

\* handleApproveConnect: nothing disables the button while it waits.
Approve ==
    /\ shown /\ step = "approve" /\ approved < MaxApprovals
    /\ approvals' = approvals + 1 /\ approved' = approved + 1
    /\ UNCHANGED <<shown, step, lists, timers>>

Launch == shown /\ step = "ready" /\ shown' = FALSE /\ UNCHANGED <<step, lists, approvals, approved, timers>>

-------------------------------------------------------------------------------
(***************************************************************************)
(* The approval's answer, or its failure, which nobody looks at; and the   *)
(* timers.                                                                 *)
(***************************************************************************)
\* mutant: only the approve step starts the interval
Connected_OfApprove ==
    /\ approvals > 0 /\ approvals' = approvals - 1
    /\ step' = "pipeline" /\ ticking' = (ticking \/ step = "approve")
    /\ UNCHANGED <<shown, lists, approved, stage, timeouts>>

Connected ==
    /\ approvals > 0 /\ approvals' = approvals - 1
    /\ step' = "pipeline" /\ ticking' = (ticking \/ step # "pipeline")
    /\ UNCHANGED <<shown, lists, approved, stage, timeouts>>

Tick ==
    /\ ticking
    /\ IF stage < LastStage
       THEN stage' = stage + 1 /\ UNCHANGED <<ticking, timeouts>>
       ELSE ticking' = FALSE /\ timeouts' = timeouts + 1 /\ UNCHANGED stage
    /\ UNCHANGED <<shown, step, lists, approvals, approved>>

\* Leaving the step clears the interval but no timeout.
ShowReady ==
    /\ timeouts > 0 /\ timeouts' = timeouts - 1
    /\ step' = "ready" /\ ticking' = FALSE
    /\ UNCHANGED <<shown, lists, approvals, approved, stage>>

Next ==
    \/ Answer \/ Open \/ Close \/ Refresh \/ SelectWorkload \/ Back \/ Approve \/ Launch
    \/ Connected \/ Tick \/ ShowReady

-------------------------------------------------------------------------------
(* What the wizard waits for is on its way.  The pipeline step has no       *)
(* button: it has one timer, the interval or its timeout, and no other step *)
(* has one that would drag the operator out of it, although nothing keeps   *)
(* an approval from being sent twice and answered late, when the pipeline   *)
(* runs already, is done or was left; the last step comes after the last    *)
(* stage.  And what loads, when discoveries overlap, has the latest of them *)
(* still on its way (ApplicationOnboardingModal.tsx:127, 206).              *)
WizardGoesOn ==
    /\ step = "pipeline" <=> ticking \/ timeouts > 0
    /\ timeouts <= IF ticking THEN 0 ELSE 1
    /\ step = "ready" => stage = LastStage
    /\ dockerLoading => \E r \in rounds : r.n = begun
=============================================================================
