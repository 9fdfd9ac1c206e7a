------------------------------ MODULE Reports -------------------------------
(***************************************************************************)
(* The reports window of the dashboard: the report of the selected service *)
(* and period, reloaded by a timer, the history chart that follows from    *)
(* the report, and the verdicts the operator gives on findings, while the  *)
(* intelligence worker stores findings.  A finding is a number, a newer    *)
(* one a greater number.                                                   *)
(***************************************************************************)
EXTENDS Integers, FiniteSets, FiniteSetsExt

CONSTANTS
    Services,
    Periods,        \* the hours to choose from
    Findings,       \* the findings the worker may store
    ServiceOf(_),   \* the service of a finding
    Age(_),         \* the period in which a finding still is
    FirstFresh,         \* the first service with a fresh window, when all are shown
    All, None,      \* all services; nothing
    MaxLoads,       \* bound: loads begun
    MaxVerdicts     \* bound: verdicts given

VARIABLES
    stored,         \* the server's findings and their status
    selection,      \* service and hours
    effect,         \* how many times the loading effect has run
    loads,          \* the loads on their way, with the effect they belong to
    loadsBegun,          \* how many loads have begun
    report,         \* what is shown: the status of findings, and of which selection; or None
    updated,        \* updatedAt: how many loads of this effect have been applied
    loading, error,
    chosen,         \* selectedId
    charts,         \* the histories on their way
    chart,          \* the history shown: of which service and hours; or None
    saving,         \* the feedback buttons are disabled
    verdicts,       \* the verdicts on their way
    given,          \* history: the verdicts given, and on which finding
    message         \* the finding whose feedback the message is about, or None

reportVars == <<selection, effect, loads, loadsBegun, report, updated, loading, error, chosen>>
chartVars == <<charts, chart>>
feedbackVars == <<saving, verdicts, given, message>>
vars == <<stored, reportVars, chartVars, feedbackVars>>

-------------------------------------------------------------------------------
\* A report lists findings with their status, the newest first.
Ids(r) == IF r = None THEN {} ELSE DOMAIN r.findings
First(r) == IF Ids(r) = {} THEN None ELSE Max(Ids(r))

\* The finding shown: the one chosen while the report has it, else the first.
SelectedOf(r, id) == IF id \in Ids(r) THEN id ELSE First(r)
selected == SelectedOf(report, chosen)

\* The service of the chart follows the selection, else the finding shown, else a
\* fresh service of the report.
ChartServiceOf(sel, r, id) ==
    IF sel.service # All THEN sel.service
    ELSE IF SelectedOf(r, id) # None THEN ServiceOf(SelectedOf(r, id))
    ELSE IF r # None THEN FirstFresh ELSE None
chartService == ChartServiceOf(selection, report, chosen)

\* mutant: the chart is loaded again only for another period
Rechart_Hours ==
    IF selection'.hours = selection.hours /\ updated' = updated
    THEN UNCHANGED chartVars
    ELSE /\ chart' = None
         /\ charts' = IF chartService' = None THEN {} ELSE {[service |-> chartService', hours |-> selection'.hours]}

\* The effect of the chart: of what was asked before nothing is shown.
Rechart ==
    IF chartService' = chartService /\ selection'.hours = selection.hours /\ updated' = updated
    THEN UNCHANGED chartVars
    ELSE /\ chart' = None
         /\ charts' = IF chartService' = None THEN {} ELSE {[service |-> chartService', hours |-> selection'.hours]}

ChartArrives ==
    \E c \in charts :
        /\ charts' = {} /\ chart' \in {c, None}
        /\ UNCHANGED <<stored, reportVars, feedbackVars>>

-------------------------------------------------------------------------------
(***************************************************************************)
(* The report.                                                             *)
(***************************************************************************)
Load == [effect |-> effect', of |-> selection', served |-> None]

Init ==
    /\ stored = [f \in {} |-> "new"]
    /\ selection = [service |-> All, hours |-> Max(Periods)] /\ effect = 1 /\ loadsBegun = 1
    /\ loads = {[effect |-> 1, of |-> selection, served |-> None]}
    /\ report = None /\ updated = 0 /\ loading = TRUE /\ error = FALSE /\ chosen = None
    /\ charts = {} /\ chart = None
    /\ saving = FALSE /\ verdicts = {} /\ given = {} /\ message = None

\* The window as it opens.  The server's findings, and what it has been sent, remain,
\* but no answer to what was sent before reaches it.
Fresh ==
    /\ selection' = [service |-> All, hours |-> Max(Periods)] /\ effect' = effect + 1 /\ loadsBegun' = loadsBegun + 1
    /\ loads' = {Load}
    /\ report' = None /\ updated' = 0 /\ loading' = TRUE /\ error' = FALSE /\ chosen' = None
    /\ charts' = {} /\ chart' = None /\ saving' = FALSE /\ message' = None
    /\ verdicts' = {[w EXCEPT !.shown = FALSE] : w \in verdicts} /\ UNCHANGED <<stored, given>>

\* The effect of service, hours and revision: everything shown is reset.  A load of an
\* earlier effect goes on, for nothing.
Reload ==
    /\ loadsBegun < MaxLoads
    /\ effect' = effect + 1 /\ loadsBegun' = loadsBegun + 1 /\ loads' = loads \cup {Load}
    /\ report' = None /\ updated' = 0 /\ loading' = TRUE /\ error' = FALSE /\ chosen' = None
    /\ message' = None /\ UNCHANGED <<stored, saving, verdicts, given>>
    /\ Rechart

Select ==
    /\ selection' \in [service : Services \cup {All}, hours : Periods] \ {selection}
    /\ Reload

Refresh == ~loading /\ UNCHANGED selection /\ Reload

\* The timer of 30 seconds: one load of an effect at a time.
Poll ==
    /\ loadsBegun < MaxLoads /\ \A l \in loads : l.effect # effect
    /\ UNCHANGED <<selection, effect>>
    /\ loadsBegun' = loadsBegun + 1 /\ loads' = loads \cup {Load}
    /\ UNCHANGED <<stored, report, updated, loading, error, chosen, chartVars, feedbackVars>>

\* The orchestrator answers: the findings of the service and period.
Insights(sel) ==
    [f \in {g \in DOMAIN stored : sel.service \in {All, ServiceOf(g)} /\ Age(g) <= sel.hours} |-> stored[f]]

Serve ==
    \E l \in loads :
        /\ l.served = None
        /\ loads' = (loads \ {l}) \cup {[l EXCEPT !.served = Insights(l.of)]}
        /\ UNCHANGED <<stored, selection, effect, loadsBegun, report, updated, loading, error, chosen, chartVars, feedbackVars>>

\* mutant: an answer is shown whatever has been selected since
Current_Any(l) == TRUE

\* active: the effect has not run again since
Current(l) == l.effect = effect

Arrive ==
    \E l \in loads :
        /\ l.served # None /\ loads' = loads \ {l}
        /\ IF Current(l)
           THEN /\ report' = [of |-> l.of, findings |-> l.served] /\ updated' = updated + 1
                /\ error' = FALSE /\ loading' = FALSE
           ELSE UNCHANGED <<report, updated, error, loading>>
        /\ UNCHANGED <<stored, selection, effect, loadsBegun, chosen, feedbackVars>>
        /\ Rechart

\* One of the five calls fails: what was shown stays.
LoadFails ==
    \E l \in loads :
        /\ loads' = loads \ {l}
        /\ IF Current(l) THEN error' = TRUE /\ loading' = FALSE ELSE UNCHANGED <<error, loading>>
        /\ UNCHANGED <<stored, selection, effect, loadsBegun, report, updated, chosen, chartVars, feedbackVars>>

Choose ==
    /\ chosen' \in Ids(report) /\ message' = None
    /\ UNCHANGED <<stored, selection, effect, loads, loadsBegun, report, updated, loading, error, saving, verdicts, given>>
    /\ Rechart

-------------------------------------------------------------------------------
(***************************************************************************)
(* Feedback.                                                               *)
(***************************************************************************)
submitFeedback ==
    /\ selected # None /\ ~saving /\ ~error /\ Cardinality(given) < MaxVerdicts
    /\ \E v \in {"confirmed", "dismissed"} :
        /\ verdicts' = verdicts \cup {[id |-> selected, verdict |-> v, stored |-> FALSE, shown |-> TRUE]}
        /\ given' = given \cup {<<selected, v>>}
    /\ saving' = TRUE /\ message' = None
    /\ UNCHANGED <<stored, reportVars, chartVars>>

StoreVerdict ==
    \E w \in verdicts :
        /\ ~w.stored
        /\ stored' = [stored EXCEPT ![w.id] = w.verdict]
        /\ verdicts' = (verdicts \ {w}) \cup {[w EXCEPT !.stored = TRUE]}
        /\ UNCHANGED <<reportVars, chartVars, saving, given, message>>

\* mutant: the status of the finding shown by then is changed
Marked_Shown(w) ==
    IF report = None THEN None
    ELSE [report EXCEPT !.findings = [f \in DOMAIN @ |-> IF f = selected THEN w.verdict ELSE @[f]]]

\* The finding the verdict is on, wherever the report has it.
Marked(w) ==
    IF report = None THEN None
    ELSE [report EXCEPT !.findings = [f \in DOMAIN @ |-> IF f = w.id THEN w.verdict ELSE @[f]]]

\* The answer, or an error, of a verdict the server may have stored all the same.
FeedbackArrives ==
    \E w \in verdicts :
        /\ verdicts' = verdicts \ {w}
        /\ IF w.shown THEN saving' = FALSE /\ message' = w.id ELSE UNCHANGED <<saving, message>>
        /\ report' \in {report} \cup (IF w.shown /\ w.stored THEN {Marked(w)} ELSE {})
        /\ UNCHANGED <<stored, selection, effect, loads, loadsBegun, updated, loading, error, chosen, chartVars, given>>

StoreFinding ==
    \E f \in Findings \ DOMAIN stored :
        /\ stored' = [g \in DOMAIN stored \cup {f} |-> IF g = f THEN "new" ELSE stored[g]]
        /\ UNCHANGED <<reportVars, chartVars, feedbackVars>>

Server == StoreVerdict \/ StoreFinding

Next ==
    \/ ChartArrives \/ Select \/ Refresh \/ Poll \/ Serve \/ Arrive \/ LoadFails
    \/ Choose \/ submitFeedback \/ FeedbackArrives

-------------------------------------------------------------------------------
(* What is shown is of what is selected: the report is the selected        *)
(* service's and period's, however many loads of earlier selections and of *)
(* the timer are on their way, and the chart is of the service that        *)
(* follows from the report (ReportsWindow.tsx:81, 112).                    *)
ReportIsOfTheSelection ==
    /\ report # None => report.of = selection
    /\ chart # None => chart = [service |-> chartService, hours |-> selection.hours]

(* A finding is shown confirmed or dismissed only if the operator gave     *)
(* that verdict on that finding, although another may be selected and the  *)
(* list reloaded before the answer comes (ReportsWindow.tsx:122).  The     *)
(* status may still be older than the verdict: a reload served before it.  *)
VerdictsAreGiven ==
    report # None =>
        \A f \in DOMAIN report.findings :
            report.findings[f] = "new" \/ <<f, report.findings[f]>> \in given
=============================================================================
