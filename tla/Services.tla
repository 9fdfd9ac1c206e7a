------------------------------ MODULE Services ------------------------------
(***************************************************************************)
(* The process monitor of the dashboard: the table of services and their   *)
(* call graph, refreshed together by a timer and a button, and the detail  *)
(* of the service selected.  Only the names of the rows are kept: their    *)
(* measurements, the filter and the order of the table change what of them *)
(* is shown.                                                               *)
(***************************************************************************)
EXTENDS CallGraph

CONSTANTS
    Views,          \* the services Prometheus may know, and those of the open faults
    Graphs,         \* the edges Jaeger may list, in any order
    None,
    MaxRefreshes,   \* bound: refreshes begun
    MaxSelections   \* bound: services selected

VARIABLES
    rows,           \* view: the services listed, and those a fault is open on; or None
    graph,          \* the calls listed, in their order; or None
    refreshing,     \* the button is disabled
    refreshes,      \* how many refreshes are on their way
    refreshed,      \* how many have begun
    failed,         \* the error of the last refresh to end
    picked,         \* selected: a service, or None
    detail,         \* what is shown of a service: its name, or None
    detailLoading,
    details,        \* the details on their way, and whether their effect still lives
    picks           \* how many times a service has been selected

tableVars == <<rows, graph, refreshing, refreshes, refreshed, failed>>
detailVars == <<picked, detail, detailLoading, details, picks>>
vars == <<tableVars, detailVars>>

Init ==
    /\ rows = None /\ graph = None /\ failed = FALSE
    /\ refreshing = TRUE /\ refreshes = 1 /\ refreshed = 1
    /\ picked = None /\ detail = None /\ detailLoading = FALSE /\ details = {} /\ picks = 0

\* The modal as it opens; no answer to what was asked before reaches it.
Fresh ==
    /\ rows' = None /\ graph' = None /\ failed' = FALSE
    /\ refreshing' = TRUE /\ refreshes' = 1 /\ refreshed' = 1
    /\ picked' = None /\ detail' = None /\ detailLoading' = FALSE /\ details' = {} /\ picks' = 0

-------------------------------------------------------------------------------
refresh ==
    /\ refreshed < MaxRefreshes
    /\ refreshing' = TRUE /\ refreshes' = refreshes + 1 /\ refreshed' = refreshed + 1
    /\ UNCHANGED <<rows, graph, failed, detailVars>>

\* The timer of 20 seconds does not look whether one is on its way; the button does.
Poll == refresh
Refresh == ~refreshing /\ refresh

\* Without Prometheus there are no rows, without Jaeger no edges: both are answers.
Refreshed ==
    /\ refreshes > 0 /\ refreshes' = refreshes - 1 /\ refreshing' = FALSE
    /\ rows' \in Views
    /\ graph' \in Graphs \cup {<<>>}
    /\ failed' = FALSE
    /\ UNCHANGED <<refreshed, detailVars>>

\* What was shown stays.
RefreshFails ==
    /\ refreshes > 0 /\ refreshes' = refreshes - 1 /\ refreshing' = FALSE /\ failed' = TRUE
    /\ UNCHANGED <<rows, graph, refreshed, detailVars>>

-------------------------------------------------------------------------------
(***************************************************************************)
(* The detail.                                                             *)
(***************************************************************************)
\* The effect on the selection: what was asked before is for nothing, and what is shown
\* stays until the answer.
Select(name) ==
    /\ picks < MaxSelections
    /\ IF name = picked
       THEN UNCHANGED detailVars
       ELSE /\ picked' = name /\ picks' = picks + 1 /\ detailLoading' = TRUE
            /\ details' = {[d EXCEPT !.live = FALSE] : d \in details} \cup {[n |-> picks', name |-> name, live |-> TRUE]}
            /\ UNCHANGED detail
    /\ UNCHANGED tableVars

\* The neighbours a detail may show, of the edges Jaeger lists for a longer time.
NeighboursOf ==
    [name \in UNION {Nodes(edges) : edges \in Graphs} |->
        UNION {callers(edges, name) \cup {e.target : e \in {x \in Range(edges) : x.source = name}}
                  : edges \in Graphs}]

\* A row of the table, the fault's card, a node of the graph, a neighbour of the detail.
SelectRow == rows # None /\ \E name \in rows.listed : Select(name)
SelectFault == rows # None /\ \E name \in rows.faulty : Select(name)
SelectNode == graph # None /\ \E name \in Nodes(graph) : Select(name)
SelectNeighbour == detail # None /\ \E name \in NeighboursOf[detail] : Select(name)

\* mutant: whatever answer comes is shown
Current_Any(d) == TRUE

Current(d) == d.live

DetailArrives ==
    \E d \in details :
        /\ details' = details \ {d}
        /\ IF Current(d)
           THEN detail' \in {d.name, None} /\ detailLoading' = FALSE
           ELSE UNCHANGED <<detail, detailLoading>>
        /\ UNCHANGED <<tableVars, picked, picks>>

Next ==
    \/ Poll \/ Refresh \/ Refreshed \/ RefreshFails
    \/ SelectRow \/ SelectFault \/ SelectNode \/ SelectNeighbour \/ DetailArrives

-------------------------------------------------------------------------------
(* Once nothing is being loaded, the detail shown is of the service the    *)
(* heading names, however many were clicked while older details were on    *)
(* their way (ServicePanel.tsx:313).  While it loads, the detail of the    *)
(* one before stays under the new heading.                                 *)
DetailIsOfTheSelected == detail # None /\ ~detailLoading => detail = picked

(* Every service of the call graph that is on no cycle is drawn one column *)
(* right of its deepest caller, no two on one place, and without cycles    *)
(* none outside of the drawing, although a walk that meets a cycle         *)
(* remembers the columns it cut short (ServiceGraph.tsx:26).               *)
ColumnsFollowCalls == graph # None => FollowsCalls(graph)
=============================================================================
