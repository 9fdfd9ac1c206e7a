------------------------------ MODULE Security ------------------------------
(***************************************************************************)
(* The security window of the dashboard: the key that every request of the *)
(* session carries, kept by the browser, and the status, alerts and audit  *)
(* entries loaded together; for each of them that is not answered the      *)
(* window makes something up.                                              *)
(***************************************************************************)
EXTENDS Integers, FiniteSets

CONSTANTS
    None,
    Keys,           \* keys an operator may enter
    ServerKey,      \* the orchestrator's EIOS_API_KEY, or None
    MaxKeys,        \* bound: keys saved or cleared
    MaxChecks       \* bound: loads begun

VARIABLES
    session,        \* the key in the session storage
    apiKey,         \* the key as the window knows it
    keys,           \* how many were saved or cleared
    checks,         \* the loads on their way: the key their callback knows, the key they carry
    checked,        \* how many have begun
    checking,       \* loading
    posture,        \* what is shown: its load, what of it was answered, whether security is on
    overtaken       \* auxiliary: an older load was answered after a newer one

vars == <<session, apiKey, keys, checks, checked, checking, posture, overtaken>>

Unknown == [n |-> 0, real |-> {}, enabled |-> FALSE]

Check(n, known, carried) == [n |-> n, known |-> known, carried |-> carried]

Init ==
    /\ session = None /\ apiKey = None /\ keys = 0
    /\ checks = {Check(1, None, None)} /\ checked = 1 /\ checking = TRUE
    /\ posture = Unknown /\ overtaken = FALSE

\* The window as it opens: the key is the session's; it loads at once.
Fresh ==
    /\ apiKey' = session
    /\ checks' = {Check(1, session, session)} /\ checked' = 1 /\ checking' = TRUE
    /\ posture' = Unknown /\ overtaken' = FALSE
    /\ UNCHANGED <<session, keys>>

-------------------------------------------------------------------------------
\* Refresh: nothing disables it while one is on its way.
loadSecurityData ==
    /\ checked < MaxChecks
    /\ checked' = checked + 1 /\ checking' = TRUE
    /\ checks' = checks \cup {Check(checked', apiKey, session)}
    /\ UNCHANGED <<session, apiKey, keys, posture, overtaken>>

\* mutant: the effect does not depend on the key
Effect_Once(begun, key) == {}

\* Another key makes another callback, and the effect calls it.
Effect(begun, key) == IF key = apiKey THEN {} ELSE {Check(checked + begun + 1, key, key)}

\* The key entered, or none: stored at once, and loaded with by the callback that still
\* knows the key of before.
handleSaveApiKey ==
    /\ keys < MaxKeys /\ checked + 2 <= MaxChecks
    /\ \E key \in Keys \cup {None} :
        /\ session' = key /\ apiKey' = key
        /\ checks' = checks \cup {Check(checked + 1, apiKey, key)} \cup Effect(1, key)
        /\ checked' = checked + 1 + Cardinality(Effect(1, key))
    /\ keys' = keys + 1 /\ checking' = TRUE
    /\ UNCHANGED <<posture, overtaken>>

\* "Clear Key"
clearApiKey ==
    /\ apiKey # None /\ keys < MaxKeys /\ checked < MaxChecks
    /\ session' = None /\ apiKey' = None /\ keys' = keys + 1
    /\ checks' = checks \cup Effect(0, None)
    /\ checked' = checked + Cardinality(Effect(0, None))
    /\ checking' = TRUE
    /\ UNCHANGED <<posture, overtaken>>

\* The status is open to everyone, the rest only to the key.
Opened(carried) == IF ServerKey \in {None, carried} THEN {"status", "alerts", "audit"} ELSE {"status"}

\* Each call may fail by itself; a status that was not answered is made up of the key.
Arrive ==
    \E c \in checks : \E real \in SUBSET Opened(c.carried) :
        /\ checks' = checks \ {c} /\ checking' = FALSE
        /\ posture' = [n |-> c.n, real |-> real,
                       enabled |-> IF "status" \in real THEN ServerKey # None ELSE c.known # None]
        /\ overtaken' = (overtaken \/ c.n < posture.n)
        /\ UNCHANGED <<session, apiKey, keys, checked>>

Next == loadSecurityData \/ handleSaveApiKey \/ clearApiKey \/ Arrive

-------------------------------------------------------------------------------
(* When every load has ended, and none after a later one, what is shown    *)
(* is of the key in use: alerts and audit entries are real only under a    *)
(* key that opens them, a status made up says whether there is a key, and  *)
(* the key shown is the one requests carry.  A key is saved with two       *)
(* loads, of which the first still knows the key of before                 *)
(* (SecurityCenterWindow.tsx:199).                                         *)
PostureIsOfTheKey ==
    /\ apiKey = session
    /\ checks = {} /\ ~overtaken =>
        /\ posture.real \subseteq Opened(apiKey)
        /\ "status" \notin posture.real => posture.enabled = (apiKey # None)
=============================================================================
