----------------------------- MODULE CallGraph ------------------------------
(***************************************************************************)
(* The layout of the dashboard's call graph: a column for every service by *)
(* a walk to its callers, which remembers the column of every service it   *)
(* has left and refuses to enter a service twice on one path.  Services    *)
(* are numbers, in the order of their names; edges come in the order       *)
(* Jaeger lists them.                                                      *)
(***************************************************************************)
EXTENDS Integers, Sequences, FiniteSets, FiniteSetsExt, Functions, SequencesExt

NodeW == 132
NodeH == 34
ColGap == 74
RowGap == 14
Pad == 16

\* What the orchestrator sends of Jaeger's dependencies: no service calls itself, and
\* the nodes are the ends of the edges.
Nodes(edges) == {e.source : e \in Range(edges)} \cup {e.target : e \in Range(edges)}

\* The calls of a service, as places in Jaeger's list, and who makes them.
calls(edges, name) == {i \in DOMAIN edges : edges[i].target = name}

callers(edges, name) == {edges[i].source : i \in calls(edges, name)}

\* mutant: a node sits right of its nearest caller
Deepest_Nearest(found, depth) == IF found = 0 THEN depth ELSE Min({found, depth})

\* Math.max over the callers
Deepest(found, depth) == Max({found, depth})

Unplaced == -1

\* A visit: the depths known so far, a service, and the services on the path to it.
Visits(edges) ==
    [depths : [Nodes(edges) -> Nat \cup {Unplaced}], name : Nodes(edges), path : SUBSET Nodes(edges)]

\* What each visit makes of the depths, and the depth of its service.
depthOf(edges) ==
    LET visit[v \in Visits(edges)] ==
            IF v.depths[v.name] # Unplaced THEN [depths |-> v.depths, depth |-> v.depths[v.name]]
            ELSE IF v.name \in v.path THEN [depths |-> v.depths, depth |-> 0]
            ELSE LET parent(p, acc) ==
                         LET u == visit[[depths |-> acc.depths, name |-> p, path |-> v.path \cup {v.name}]]
                         IN  [depths |-> u.depths, depth |-> Deepest(acc.depth, u.depth + 1)]
                     all == MapThenFoldSet(parent, [depths |-> v.depths, depth |-> 0],
                                           LAMBDA i : edges[i].source, Max, calls(edges, v.name))
                 IN  [depths |-> [all.depths EXCEPT ![v.name] = all.depth], depth |-> all.depth]
    IN  visit

\* The depths after the services have been visited in the order of their names.
Depths(edges) ==
    LET visited(n, depths) == depthOf(edges)[[depths |-> depths, name |-> n, path |-> {}]].depths
    IN  MapThenFoldSet(visited, [n \in Nodes(edges) |-> Unplaced], LAMBDA n : n, Max, Nodes(edges))

\* Where each service is drawn, and the size of the drawing.
layout(edges) ==
    LET depths == Depths(edges)
        column(d) == {n \in Nodes(edges) : depths[n] = d}
        columns == Cardinality(Range(depths))
        tallest == Max({0} \cup {Cardinality(column(d)) : d \in Range(depths)})
    IN  [placed |-> [n \in Nodes(edges) |->
                        [x |-> Pad + depths[n] * (NodeW + ColGap),
                         y |-> Pad + Cardinality({m \in column(depths[n]) : m < n}) * (NodeH + RowGap)]],
         width |-> Pad * 2 + columns * NodeW + Max({0, columns - 1}) * ColGap,
         height |-> Pad * 2 + tallest * NodeH + Max({0, tallest - 1}) * RowGap]

-------------------------------------------------------------------------------
\* Reference: the services a service is called by, however indirectly: those in every
\* set that has its callers and all of theirs.
Above(edges, name) ==
    LET closed == {s \in SUBSET Nodes(edges) :
                      callers(edges, name) \subseteq s /\ \A n \in s : callers(edges, n) \subseteq s}
    IN  {n \in Nodes(edges) : \A s \in closed : n \in s}

OnCycle(edges, name) == name \in Above(edges, name)

\* Whether each service that is on no cycle is exactly one column right of its deepest
\* caller, and without cycles every service is inside the drawing, none on another.
FollowsCalls(edges) ==
    LET l == layout(edges)
        xs(n) == {l.placed[c].x : c \in callers(edges, n)}
    IN  /\ \A n \in Nodes(edges) :
            ~OnCycle(edges, n) => l.placed[n].x = Max({Pad - NodeW - ColGap} \cup xs(n)) + NodeW + ColGap
        /\ \A m, n \in Nodes(edges) : m # n => l.placed[m] # l.placed[n]
        /\ (\A n \in Nodes(edges) : ~OnCycle(edges, n)) =>
            \A n \in Nodes(edges) : l.placed[n].x + NodeW + Pad <= l.width /\ l.placed[n].y + NodeH + Pad <= l.height
=============================================================================
