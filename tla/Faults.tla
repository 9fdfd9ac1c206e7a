-------------------------------- MODULE Faults --------------------------------
(***************************************************************************)
(* Fault injection: the flag file that flagd reads, the fault windows that *)
(* record what was injected, the orchestrator requests that change both    *)
(* (orchestrator/main.py, flags.py, db.py) and flagd-ui, the other writer  *)
(* of the file (flagd-ui/storage.ex).  Requests run on a thread pool.      *)
(***************************************************************************)
EXTENDS Naturals, Sequences

CONSTANTS
    Requests,       \* request threads of the orchestrator
    Flags,          \* the flags in the file
    Keys,           \* the flag keys clients name, known or not
    VariantsOf,     \* the variants each flag has
    Requested,      \* the variants clients ask for, known to the flag or not
    NoOne,          \* the lock is free
    MaxWindows,     \* bound: fault windows
    MaxUiWrites,    \* bound: writes of flagd-ui
    MaxFailures     \* bound: failed writes, failed transactions and crashes

ASSUME FlagsAssumption == Flags \subseteq Keys /\ \A f \in Flags : "off" \in VariantsOf[f]
ASSUME NoOneAssumption == NoOne \notin Requests
ASSUME BoundAssumption ==
    MaxWindows \in Nat /\ MaxUiWrites \in Nat /\ MaxFailures \in Nat

VARIABLES
    file,           \* the flag file: each flag's defaultVariant
    uiState,        \* flagd-ui's copy of the file, read once when it starts
    lock,           \* flags._lock: the request that holds it
    pc,             \* where each request is
    target,         \* the flag and variant it works on, and for which endpoint
    doc,            \* the document it has loaded
    windows,        \* table fault_windows, in insertion order
    audit,          \* the fault.start and fault.stop rows of audit_log
    uiWrites, failures

reqVars == <<lock, pc, target, doc>>
dbVars == <<windows, audit>>
vars == <<file, uiState, reqVars, dbVars, uiWrites, failures>>

AnyVariant == UNION {VariantsOf[f] : f \in Flags}
Files == {d \in [Flags -> AnyVariant] : \A f \in Flags : d[f] \in VariantsOf[f]}
NoDoc == [f \in Flags |-> "off"]
NoTarget == [kind |-> "none", flag |-> CHOOSE f \in Flags : TRUE, variant |-> "off"]
Failure == failures < MaxFailures /\ failures' = failures + 1

\* request r answers its client
Answer(r) == pc' = [pc EXCEPT ![r] = "idle"]
Goto(r, where) == pc' = [pc EXCEPT ![r] = where]

-------------------------------------------------------------------------------

Init ==
    /\ file = NoDoc /\ uiState = NoDoc
    /\ lock = NoOne
    /\ pc = [r \in Requests |-> "idle"]
    /\ target = [r \in Requests |-> NoTarget]
    /\ doc = [r \in Requests |-> NoDoc]
    /\ windows = <<>> /\ audit = <<>>
    /\ uiWrites = 0 /\ failures = 0

(***************************************************************************)
(* set_variant: load, change and replace the file under the lock.          *)
(***************************************************************************)

\* the flag exists and has the variant
Known(t) == t.flag \in Flags /\ t.variant \in VariantsOf[t.flag]

\* mutant: the file is read before the lock is taken
Load_Unlocked(r) ==
    /\ pc[r] = "load"
    /\ IF Known(target[r])
       THEN /\ lock' = r
            /\ doc' = [doc EXCEPT ![r] = file]
            /\ Goto(r, "save")
       ELSE /\ Answer(r)
            /\ UNCHANGED <<lock, doc>>
    /\ UNCHANGED <<file, uiState, target, dbVars, uiWrites, failures>>

\* The lock is taken and the file read.  An unknown flag or variant raises
\* FlagError, which start answers with 400 and stop only logs.
Load(r) ==
    /\ pc[r] = "load"
    /\ lock = NoOne
    /\ IF Known(target[r])
       THEN /\ lock' = r
            /\ doc' = [doc EXCEPT ![r] = file]
            /\ Goto(r, "save")
       ELSE /\ Answer(r)
            /\ UNCHANGED <<lock, doc>>
    /\ UNCHANGED <<file, uiState, target, dbVars, uiWrites, failures>>

\* os.replace puts the new document in place in one step
Save(r) ==
    /\ pc[r] = "save"
    /\ file' = [doc[r] EXCEPT ![target[r].flag] = target[r].variant]
    /\ lock' = NoOne
    /\ doc' = [doc EXCEPT ![r] = NoDoc]
    /\ IF target[r].kind = "start" THEN Goto(r, "record") ELSE Answer(r)
    /\ UNCHANGED <<uiState, target, dbVars, uiWrites, failures>>

\* mutant: an exception of _save leaves the lock taken
SaveFails_Locked(r) ==
    /\ pc[r] = "save"
    /\ Failure
    /\ doc' = [doc EXCEPT ![r] = NoDoc]
    /\ Answer(r)
    /\ UNCHANGED <<file, uiState, lock, target, dbVars, uiWrites>>

\* The file cannot be written: the old one stays, the lock is released and
\* the error answers the request.
SaveFails(r) ==
    /\ pc[r] = "save"
    /\ Failure
    /\ lock' = NoOne
    /\ doc' = [doc EXCEPT ![r] = NoDoc]
    /\ Answer(r)
    /\ UNCHANGED <<file, uiState, target, dbVars, uiWrites>>

(***************************************************************************)
(* POST /api/faults/start: the flag first, then the window.                *)
(***************************************************************************)

Start(r, f, v, apply) ==
    /\ pc[r] = "idle"
    /\ Len(windows) < MaxWindows
    /\ target' = [target EXCEPT ![r] = [kind |-> "start", flag |-> f, variant |-> v]]
    /\ Goto(r, IF apply THEN "load" ELSE "record")
    /\ UNCHANGED <<file, uiState, lock, doc, dbVars, uiWrites, failures>>

\* the window and its audit row, in one transaction
Insert(r) ==
    /\ windows' = Append(windows, [flag |-> target[r].flag, ended |-> FALSE])
    /\ audit' = Append(audit, [action |-> "fault.start", window |-> Len(windows) + 1])

Record(r) ==
    /\ pc[r] = "record"
    /\ Insert(r)
    /\ Answer(r)
    /\ UNCHANGED <<file, uiState, lock, target, doc, uiWrites, failures>>

\* the transaction fails and is rolled back, or commits without an answer
RecordFails(r) ==
    /\ pc[r] = "record"
    /\ Failure
    /\ Insert(r) \/ UNCHANGED dbVars
    /\ Answer(r)
    /\ UNCHANGED <<file, uiState, lock, target, doc, uiWrites>>

(***************************************************************************)
(* POST /api/faults/{window_id}/stop: the window first, then the flag.     *)
(***************************************************************************)

\* mutant: the UPDATE does not look at ended_at
End_Again(w) ==
    /\ w \in DOMAIN windows
    /\ windows' = [windows EXCEPT ![w].ended = TRUE]
    /\ audit' = Append(audit, [action |-> "fault.stop", window |-> w])

\* UPDATE ... WHERE ended_at IS NULL, with its audit row
End(w) ==
    /\ w \in DOMAIN windows
    /\ ~windows[w].ended
    /\ windows' = [windows EXCEPT ![w].ended = TRUE]
    /\ audit' = Append(audit, [action |-> "fault.stop", window |-> w])

\* no row means 404 and changes nothing
Stop(r, w) ==
    /\ pc[r] = "idle"
    /\ End(w)
    /\ target' = [target EXCEPT ![r] = [kind |-> "stop", flag |-> windows[w].flag, variant |-> "off"]]
    /\ Goto(r, "load")
    /\ UNCHANGED <<file, uiState, lock, doc, uiWrites, failures>>

\* the transaction commits, its answer is lost and the flag is not touched
StopFails(r, w) ==
    /\ pc[r] = "idle"
    /\ Failure
    /\ End(w)
    /\ UNCHANGED <<file, uiState, reqVars, uiWrites>>

(***************************************************************************)
(* The rest of the world.                                                  *)
(***************************************************************************)

\* the orchestrator dies: its requests and its lock are gone
Crash ==
    /\ Failure
    /\ lock' = NoOne
    /\ pc' = [r \in Requests |-> "idle"]
    /\ doc' = [r \in Requests |-> NoDoc]
    /\ UNCHANGED <<file, uiState, target, dbVars, uiWrites>>

\* flagd-ui changes one flag of its own copy and writes the whole copy
UiWrite(f, v) ==
    /\ uiWrites < MaxUiWrites
    /\ v \in VariantsOf[f]
    /\ uiState' = [uiState EXCEPT ![f] = v]
    /\ file' = uiState'
    /\ uiWrites' = uiWrites + 1
    /\ UNCHANGED <<reqVars, dbVars, failures>>

\* it reads the file only when it starts
UiRestart ==
    /\ uiState' = file
    /\ UNCHANGED <<file, reqVars, dbVars, uiWrites, failures>>

-------------------------------------------------------------------------------

RequestStep(r) == Load(r) \/ Save(r) \/ Record(r)

Next ==
    \/ \E r \in Requests :
        \/ RequestStep(r) \/ SaveFails(r) \/ RecordFails(r)
        \/ \E f \in Keys, v \in Requested, apply \in BOOLEAN : Start(r, f, v, apply)
        \/ \E w \in DOMAIN windows : Stop(r, w) \/ StopFails(r, w)
    \/ Crash
    \/ \E f \in Flags, v \in AnyVariant : UiWrite(f, v)
    \/ UiRestart

Spec == Init /\ [][Next]_vars

\* the thread pool runs every request it has accepted
FairSpec == Spec /\ \A r \in Requests : WF_vars(RequestStep(r))

-------------------------------------------------------------------------------

Quiet == \A r \in Requests : pc[r] = "idle"
HasOpenWindow(f) == \E w \in DOMAIN windows : windows[w].flag = f /\ ~windows[w].ended

\* A step of the orchestrator changes one flag and undoes nobody's change:
\* requests that interleave do not write back a document loaded too early.  It
\* is about the orchestrator alone: flagd-ui does not take its lock.
OneFlagPerWrite ==
    [][uiWrites' = 0 =>
        \A f, g \in Flags : file'[f] # file[f] /\ file'[g] # file[g] => f = g]_vars

\* However many requests race to stop a window, it ends once, and the audit
\* log has one fault.stop row for it, after its one fault.start row.
WindowEndsOnce ==
    \A w \in DOMAIN windows :
        LET rows(action) ==
                {i \in DOMAIN audit : audit[i] = [action |-> action, window |-> w]}
        IN  /\ \A i, j \in rows("fault.stop") : i = j
            /\ windows[w].ended <=> rows("fault.stop") # {}
            /\ \A i \in rows("fault.stop") : \E j \in rows("fault.start") : j < i

\* "Every toggle should be recorded in the fault_windows table" (README.md):
\* when no request is under way, a flag that is on has an open window.
ToggleIsRecorded ==
    Quiet => \A f \in Flags : file[f] # "off" => HasOpenWindow(f)

\* Every request is answered: set_variant releases its lock on each way out.
RequestsAreAnswered ==
    \A r \in Requests : pc[r] # "idle" ~> pc[r] = "idle"
===============================================================================
