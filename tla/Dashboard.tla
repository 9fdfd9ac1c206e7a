----------------------------- MODULE Dashboard ------------------------------
(***************************************************************************)
(* The dashboard: the boot screen, the sign-in, and the desktop with its   *)
(* windows.  The desktop mounts a window when it is opened and drops it,   *)
(* with its state, when it is closed, minimised or the screen is locked;   *)
(* the wizard alone stays mounted and is only hidden.  No two windows have *)
(* a variable in common, so a behaviour follows one of them, and leaves    *)
(* out the steps of the others.                                            *)
(***************************************************************************)
EXTENDS Integers, Sequences, FiniteSets, FiniteSetsExt

CONSTANTS
    None, All,
    MaxCommands,                                                \* Terminal
    Roots, Tree(_), Disk(_), Resolve(_), MaxMoves,              \* Explorer
    Found, Running(_), LastStage, MaxRounds, MaxApprovals,      \* Onboarding
    Services, Periods, Findings, ServiceOf(_), Age(_), FirstFresh, MaxLoads, MaxVerdicts,   \* Reports
    Views, Graphs, MaxRefreshes, MaxSelections,       \* Services
    Keys, ServerKey, MaxKeys, MaxChecks,              \* Security
    Watched,            \* the windows a behaviour may follow
    MaxOpens            \* bound: sign-ins, and windows opened

ASSUME BoundAssumption == {MaxCommands, MaxMoves, MaxRounds, MaxApprovals, MaxLoads, MaxVerdicts, MaxRefreshes, MaxSelections,
                          MaxKeys, MaxChecks, MaxOpens} \subseteq Nat
ASSUME RootAssumption == "home" \in Roots
ASSUME StageAssumption == LastStage \in Nat
ASSUME FindingAssumption == Findings \subseteq Nat
ASSUME GraphAssumption == Graphs \subseteq Seq([source : Nat, target : Nat])
ASSUME PeriodAssumption == Max(Periods) \in Periods
ASSUME NoneAssumption ==
    \A S \in SUBSET Findings :
        None \notin [of : [service : Services \cup {All}, hours : Periods],
                      findings : [S -> {"new", "confirmed", "dismissed"}]]
ASSUME WatchedAssumption == Watched \subseteq {"terminal", "filesystem", "wizard", "reports", "processes", "security"}

VARIABLES
    screen,     \* boot, login or desktop
    signing,    \* the sign-in form waits for its answer
    windows,    \* the windows that are mounted
    opens,      \* counts sign-ins and windows opened
    watched,    \* the window this behaviour follows
    transcript, running, execs, sent, since,
    path, trail, at, real, asked, latest, applied, reads, viewer,
    shown, step, workloads, engine, cluster, dockerLoading, dockerError, rounds, begun,
    approvals, approved, stage, ticking, timeouts,
    stored, selection, effect, loads, loadsBegun, report, updated, loading, error, chosen,
    charts, chart, saving, verdicts, given, message,
    rows, graph, refreshing, refreshes, refreshed, failed, picked, detail, detailLoading, details, picks,
    session, apiKey, keys, checks, checked, checking, posture, overtaken

T == INSTANCE Terminal
E == INSTANCE Explorer
O == INSTANCE Onboarding
R == INSTANCE Reports
S == INSTANCE Services
C == INSTANCE Security

screenVars == <<screen, signing, windows, opens, watched>>
terminalVars == <<transcript, running, execs, sent, since>>
explorerVars == <<path, trail, at, real, asked, latest, applied, reads, viewer>>
wizardVars == <<shown, step, workloads, engine, cluster, dockerLoading, dockerError, rounds, begun,
                approvals, approved, stage, ticking, timeouts>>
reportsVars == <<stored, selection, effect, loads, loadsBegun, report, updated, loading, error, chosen,
                 charts, chart, saving, verdicts, given, message>>
processVars == <<rows, graph, refreshing, refreshes, refreshed, failed, picked, detail, detailLoading, details, picks>>
securityVars == <<session, apiKey, keys, checks, checked, checking, posture, overtaken>>
windowVars == <<terminalVars, explorerVars, wizardVars, reportsVars, processVars, securityVars>>
vars == <<screenVars, windowVars>>

Init ==
    /\ screen = "boot" /\ signing = FALSE /\ windows = {} /\ opens = 0
    /\ watched \in Watched
    /\ T!Init /\ E!Init /\ O!Init /\ R!Init /\ S!Init /\ C!Init

-------------------------------------------------------------------------------
\* The windows that are not followed keep still.
OthersKeepStill ==
    /\ watched # "terminal" => UNCHANGED terminalVars
    /\ watched # "filesystem" => UNCHANGED explorerVars
    /\ watched # "wizard" => UNCHANGED wizardVars
    /\ watched # "reports" => UNCHANGED reportsVars
    /\ watched # "processes" => UNCHANGED processVars
    /\ watched # "security" => UNCHANGED securityVars

\* The window followed is dropped: when it is mounted again it is as at first.
Dropped ==
    /\ \/ watched = "terminal" /\ T!Fresh
       \/ watched = "filesystem" /\ E!Fresh /\ UNCHANGED <<reads, viewer>>
       \/ watched = "wizard" /\ O!Fresh
       \/ watched = "reports" /\ R!Fresh
       \/ watched = "processes" /\ S!Fresh
       \/ watched = "security" /\ C!Fresh
    /\ OthersKeepStill

\* The desktop goes too, and with it the viewer.
DesktopDropped ==
    IF watched = "filesystem"
    THEN E!Fresh /\ reads' = {} /\ viewer' = None /\ OthersKeepStill
    ELSE Dropped

\* The progress bar is full, or "Fast Boot".
BootComplete ==
    /\ screen = "boot" /\ screen' = "login"
    /\ UNCHANGED <<signing, windows, opens, watched, windowVars>>

\* A complete form, of a new account or not: no answer, not even a failed call, keeps
\* the operator out.
SignIn ==
    /\ screen = "login" /\ ~signing /\ opens < MaxOpens
    /\ signing' = TRUE
    /\ UNCHANGED <<screen, windows, opens, watched, windowVars>>

SignedIn ==
    /\ signing /\ signing' = FALSE
    /\ screen' = "desktop" /\ windows' = {"filesystem", "terminal", "wizard"} /\ opens' = opens + 1
    /\ UNCHANGED <<watched, windowVars>>

\* The lock and the restart of the sidebar.
Leave ==
    /\ screen = "desktop" /\ screen' \in {"login", "boot"} /\ windows' = {}
    /\ DesktopDropped
    /\ UNCHANGED <<signing, opens, watched>>

handleToggleWindow ==
    /\ screen = "desktop" /\ watched # "wizard" /\ watched \notin windows /\ opens < MaxOpens
    /\ windows' = windows \cup {watched} /\ opens' = opens + 1
    /\ UNCHANGED <<screen, signing, watched, windowVars>>

\* Closed, minimised, or toggled from the taskbar.
handleCloseWindow ==
    /\ watched \in windows \ {"wizard"}
    /\ windows' = windows \ {watched}
    /\ Dropped
    /\ UNCHANGED <<screen, signing, opens, watched>>

-------------------------------------------------------------------------------
TerminalStep == watched = "terminal" /\ T!Next /\ OthersKeepStill
ExplorerStep == watched = "filesystem" /\ E!Next /\ OthersKeepStill
WizardStep == watched = "wizard" /\ O!Next /\ OthersKeepStill
ReportsStep == watched = "reports" /\ R!Next /\ OthersKeepStill
ProcessesStep == watched = "processes" /\ S!Next /\ OthersKeepStill
SecurityStep == watched = "security" /\ C!Next /\ OthersKeepStill

WindowStep ==
    /\ watched \in windows
    /\ TerminalStep \/ ExplorerStep \/ WizardStep \/ ReportsStep \/ ProcessesStep \/ SecurityStep
    /\ UNCHANGED screenVars

\* What goes on without the window: the desktop's viewer, the server.
Elsewhere ==
    /\ \/ screen = "desktop" /\ watched = "filesystem" /\ E!Viewing
       \/ watched = "reports" /\ R!Server
    /\ OthersKeepStill
    /\ UNCHANGED screenVars

Next ==
    \/ BootComplete \/ SignIn \/ SignedIn \/ Leave \/ handleToggleWindow \/ handleCloseWindow
    \/ WindowStep \/ Elsewhere

Spec == Init /\ [][Next]_vars

-------------------------------------------------------------------------------
(* Terminal: the transcript lists the commands given, and nothing is left  *)
(* without its answer but the command that runs.                           *)
TranscriptIsWhole == T!TranscriptIsWhole

(* Explorer: path, trail and listing agree.                                *)
WindowAgrees == E!WindowAgrees

(* Onboarding: no step waits for a timer or an answer that never comes, and *)
(* no timer is left that would end another step.                           *)
WizardGoesOn == O!WizardGoesOn

(* Reports, Services, Security: what is shown is of the filters, the       *)
(* service and the key in use, and a status is shown on the finding it was *)
(* given for.                                                              *)
ShownIsOfTheSelection ==
    /\ R!ReportIsOfTheSelection
    /\ R!VerdictsAreGiven
    /\ S!DetailIsOfTheSelected
    /\ C!PostureIsOfTheKey

(* CallGraph: every service is drawn right of those that call it.          *)
ColumnsFollowCalls == S!ColumnsFollowCalls
=============================================================================
