---------------------------- MODULE MCDashboard -----------------------------
(* Instances of the dashboard for TLC. *)
EXTENDS Dashboard, TLC, SequencesExt

File(name) == [name |-> name, type |-> "file"]
Folder(name) == [name |-> name, type |-> "folder"]

\* Built-in listings of home and of a root the orchestrator does not have; on disk, two
\* directories with a file of one name.
MCTree(p) == IF p = <<"home">> THEN {Folder("demo"), File("profile")} ELSE {}
MCDisk(dir) ==
    IF dir = <<>> THEN {Folder("demo"), File("main.py")}
    ELSE IF dir = <<"detect">> THEN {File("main.py")} ELSE {}

\* resolveWorkspacePath: home is the workspace, some roots are directories of it.
MCResolve(p) ==
    IF p[1] = "home" THEN Tail(p) ELSE IF p = <<"workflows">> THEN <<"detect">> ELSE p

MCFound == {<<"c1", "c2", "c3">>, <<"c2", "c1">>, <<"c3">>}
MCRunning(c) == c # "c3"

MCServiceOf(f) == IF f % 2 = 0 THEN "cart" ELSE "ad"
MCAge(f) == IF f < 3 THEN 24 ELSE 1

Edges(n) == {e \in [source : 1..n, target : 1..n] : e.source # e.target}
InAnyOrder(edges) == {[i \in DOMAIN p |-> edges[p[i]]] : p \in Permutations(DOMAIN edges)}
Chain(names) == [i \in 1..(Len(names) - 1) |-> [source |-> names[i], target |-> names[i + 1]]]

\* Up to two calls among three services; and, in any order, a service called at once
\* and through another, a cycle of three, and a cycle with one above and one below it.
MCGraphs ==
    UNION {{s \in [1..k -> Edges(3)] : IsInjective(s)} : k \in 0..2}
        \cup InAnyOrder(Chain(<<1, 2, 4, 3>>) \o Chain(<<1, 4>>))
        \cup InAnyOrder(Chain(<<1, 2, 3, 1>>))
        \cup InAnyOrder(Chain(<<1, 2, 1>>) \o Chain(<<4, 2, 3>>))

MCViews == {[listed |-> {}, faulty |-> {}], [listed |-> {1, 2}, faulty |-> {4}]}
=============================================================================
