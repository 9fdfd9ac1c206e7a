------------------------------ MODULE Explorer ------------------------------
(***************************************************************************)
(* The file window of the dashboard: the path it is at, the trail of its   *)
(* back and forward buttons, the listings it asks the orchestrator for     *)
(* and the files it opens in the desktop's viewer.  The search box, the    *)
(* highlighted item and the choice of grid or list only change what part   *)
(* of the listing is shown and how, and are left out.                      *)
(***************************************************************************)
EXTENDS Integers, Sequences, FiniteSets, SequencesExt

CONSTANTS
    Roots,          \* the roots of the sidebar
    Tree(_),        \* the built-in listing of a path, empty where there is none
    Disk(_),        \* the orchestrator's listing of a directory, empty where there is none
    Resolve(_),     \* the workspace directory of a path
    None,
    MaxMoves        \* bound: moves from one path to another; files are read one by one

Home == <<"home">>

VARIABLES
    path,       \* the path the window is at, a sequence of names
    trail, at,  \* the paths visited and the place in them
    real,       \* the entries the orchestrator listed, or None
    asked,      \* the listings asked for and not answered, by number
    latest,     \* the number of the listing asked for last
    applied,    \* history: the number of the answer applied last
    reads,      \* the files being read
    viewer      \* the file the desktop shows, or None

vars == <<path, trail, at, real, asked, latest, applied, reads, viewer>>

\* The first render asks for the listing of home.  A file being read when the
\* window closes still opens in the desktop, which holds the viewer.
Fresh ==
    /\ path' = Home /\ trail' = <<Home>> /\ at' = 1
    /\ real' = None /\ asked' = {[n |-> 1, path |-> Home]} /\ latest' = 1 /\ applied' = 0

Init ==
    /\ path = Home /\ trail = <<Home>> /\ at = 1
    /\ real = None /\ asked = {[n |-> 1, path |-> Home]} /\ latest = 1 /\ applied = 0
    /\ reads = {} /\ viewer = None

-------------------------------------------------------------------------------
\* The effect on the path: it asks when the path has changed, and forgets nothing
\* asked before.
Ask(p) ==
    IF p = path
    THEN UNCHANGED <<asked, latest>>
    ELSE latest' = latest + 1 /\ asked' = asked \cup {[n |-> latest', path |-> p]}

\* The viewer covers the desktop: nothing behind it can be clicked.
Clickable == viewer = None

\* mutant: the trail keeps what lay ahead
navigateTo_Kept(p) ==
    /\ Clickable /\ Len(trail) <= MaxMoves
    /\ path' = p /\ trail' = Append(trail, p) /\ at' = at + 1
    /\ Ask(p)
    /\ UNCHANGED <<real, applied, reads, viewer>>

\* Home, a part of the path bar, a root of the sidebar or a folder of the listing:
\* what lay ahead on the trail is gone.
navigateTo(p) ==
    /\ Clickable /\ Len(trail) <= MaxMoves
    /\ path' = p /\ trail' = Append(SubSeq(trail, 1, at), p) /\ at' = at + 1
    /\ Ask(p)
    /\ UNCHANGED <<real, applied, reads, viewer>>
GoTo(i) ==
    /\ Clickable /\ latest <= MaxMoves
    /\ at' = i /\ path' = trail[i] /\ Ask(trail[i])
    /\ UNCHANGED <<trail, real, applied, reads, viewer>>

handleBack == at > 1 /\ GoTo(at - 1)
handleForward == at < Len(trail) /\ GoTo(at + 1)

OpenRoot == \E r \in Roots : navigateTo(<<r>>)
OpenAbove == \E i \in DOMAIN path : navigateTo(SubSeq(path, 1, i))

\* What the window lists: the orchestrator's entries, else the built-in ones of the
\* path, else those of home.
currentFiles ==
    IF real # None THEN real.entries ELSE IF Tree(path) # {} THEN Tree(path) ELSE Tree(Home)

OpenFolder == \E f \in currentFiles : f.type = "folder" /\ navigateTo(Append(path, f.name))

\* The file is read where the window is now, whatever the listing is of.
OpenFile ==
    \E f \in currentFiles :
        /\ f.type = "file" /\ Clickable /\ reads = {}
        /\ reads' = reads \cup {[name |-> f.name, dir |-> Resolve(path), builtin |-> real = None]}
        /\ UNCHANGED <<path, trail, at, real, asked, latest, applied, viewer>>

\* The orchestrator's content of the file; without it the built-in one, or none.
ReadAnswered ==
    \E r \in reads :
        /\ reads' = reads \ {r}
        /\ \/ /\ [name |-> r.name, type |-> "file"] \in Disk(r.dir)
              /\ viewer' = [name |-> r.name, content |-> r.dir]
           \/ viewer' = [name |-> r.name, content |-> IF r.builtin THEN "builtin" ELSE "default"]
        /\ UNCHANGED <<path, trail, at, real, asked, latest, applied>>

CloseViewer ==
    /\ viewer # None /\ viewer' = None
    /\ UNCHANGED <<path, trail, at, real, asked, latest, applied, reads>>

-------------------------------------------------------------------------------
\* mutant: a directory that cannot be listed leaves what was listed before
Listed_Kept(p, entries) == IF entries = {} THEN real ELSE [of |-> p, entries |-> entries]

Listed(p, entries) == IF entries = {} THEN None ELSE [of |-> p, entries |-> entries]

\* The entries, or an error, which counts as none.
ListAnswered ==
    \E r \in asked :
        /\ asked' = asked \ {r} /\ applied' = r.n
        /\ \E entries \in {Disk(Resolve(r.path)), {}} : real' = Listed(r.path, entries)
        /\ UNCHANGED <<path, trail, at, latest, reads, viewer>>

\* What goes on in the desktop when the window is closed.
Viewing == ReadAnswered \/ CloseViewer

Next == OpenRoot \/ OpenAbove \/ OpenFolder \/ handleBack \/ handleForward \/ OpenFile \/ ListAnswered

-------------------------------------------------------------------------------
(* The path, the trail and the listing agree: the window is at the place   *)
(* of the trail its buttons count from, and once the answer to the listing *)
(* asked for last has been applied, after every older one, the entries are *)
(* those of that path, or the built-in ones.  Nothing cancels an older     *)
(* listing (FileSystemWindow.tsx:371): one that comes after the last shows *)
(* under a path it is not of, which is why the property asks for the order *)
(* of the answers.                                                         *)
WindowAgrees ==
    /\ at \in DOMAIN trail /\ trail[at] = path
    /\ applied = latest => real = None \/ real.of = path
=============================================================================
