---------------------------- MODULE Faults_proofs ----------------------------
(***************************************************************************)
(* Proofs about Faults, for any number of request threads, flags, windows  *)
(* and failures: the lock of the flag file makes set_variant atomic, and   *)
(* the audit log tells the life of every fault window.                     *)
(***************************************************************************)
EXTENDS Faults, TLAPS

Points == {"idle", "load", "save", "record"}
Named == Keys \cup {NoTarget.flag}
Targets == [kind : {"none", "start", "stop"}, flag : Named, variant : Requested \cup {"off"}]
Windows == [flag : Named, ended : BOOLEAN]
Rows == [action : {"fault.start", "fault.stop"}, window : Nat]

TypeOK ==
    /\ file \in Files /\ uiState \in Files
    /\ lock \in Requests \cup {NoOne}
    /\ pc \in [Requests -> Points]
    /\ target \in [Requests -> Targets]
    /\ doc \in [Requests -> Files]
    /\ windows \in Seq(Windows)
    /\ audit \in Seq(Rows)
    /\ uiWrites \in Nat

\* A request between load and replace holds the lock and a document that, but
\* for flagd-ui, is still the file; what it will write is a variant of its flag.
LockInv ==
    \A r \in Requests : pc[r] = "save" =>
        /\ lock = r
        /\ Known(target[r])
        /\ uiWrites = 0 => doc[r] = file

StartRow(w) == [action |-> "fault.start", window |-> w]
StopRow(w) == [action |-> "fault.stop", window |-> w]

\* The audit log names only windows there are, has the start of each of them, and
\* a stop for exactly those that have ended: one, after the start.
AuditInv ==
    /\ \A i \in DOMAIN audit : audit[i].window \in DOMAIN windows
    /\ \A w \in DOMAIN windows :
        /\ \E i \in DOMAIN audit : audit[i] = StartRow(w)
        /\ \A i, j \in DOMAIN audit : audit[i] = StopRow(w) /\ audit[j] = StopRow(w) => i = j
        /\ windows[w].ended <=> \E i \in DOMAIN audit : audit[i] = StopRow(w)
        /\ \A i \in DOMAIN audit : audit[i] = StopRow(w) =>
            \E j \in DOMAIN audit : j < i /\ audit[j] = StartRow(w)

IInv == TypeOK /\ LockInv /\ AuditInv

-------------------------------------------------------------------------------
(***************************************************************************)
(* Documents and targets.                                                  *)
(***************************************************************************)

\* A document in which one flag gets one of its variants is a document again, and
\* differs from it in no other flag.
LEMMA SetFlag ==
    ASSUME NEW d \in Files, NEW f \in Flags, NEW v \in VariantsOf[f]
    PROVE  /\ [d EXCEPT ![f] = v] \in Files
           /\ \A g \in Flags : [d EXCEPT ![f] = v][g] # d[g] => g = f
<1>1. v \in AnyVariant
  BY DEF AnyVariant
<1>2. d \in [Flags -> AnyVariant] /\ \A g \in Flags : d[g] \in VariantsOf[g]
  BY DEF Files
<1> DEFINE e == [d EXCEPT ![f] = v]
<1>3. e \in [Flags -> AnyVariant]
  BY <1>1, <1>2
<1>4. \A g \in Flags : e[g] = IF g = f THEN v ELSE d[g]
  BY <1>2
<1> HIDE DEF e
<1>5. e \in Files /\ \A g \in Flags : e[g] # d[g] => g = f
  BY <1>2, <1>3, <1>4 DEF Files
<1>6. QED BY <1>5 DEF e

\* Every flag can be off.
LEMMA AllOff == NoDoc \in Files
<1>1. \A f \in Flags : "off" \in VariantsOf[f]
  BY FlagsAssumption
<1>2. Flags # {} => "off" \in AnyVariant
  BY <1>1 DEF AnyVariant
<1>3. NoDoc \in [Flags -> AnyVariant]
  BY <1>2 DEF NoDoc
<1>4. \A f \in Flags : NoDoc[f] = "off"
  BY DEF NoDoc
<1>5. QED BY <1>1, <1>3, <1>4 DEF Files

\* The targets that the endpoints set are typed.
LEMMA TargetsTyped ==
    /\ NoTarget \in Targets
    /\ \A kind \in {"start", "stop"}, f \in Named, v \in Requested \cup {"off"} :
         [kind |-> kind, flag |-> f, variant |-> v] \in Targets
  BY DEF NoTarget, Targets, Named

-------------------------------------------------------------------------------
(***************************************************************************)
(* The file and its lock.                                                  *)
(***************************************************************************)

\* What a request writes is the document it has loaded with one flag changed.
LEMMA SaveWrites ==
    ASSUME TypeOK, LockInv, NEW r \in Requests, Save(r)
    PROVE  /\ target[r].flag \in Flags
           /\ file' = [doc[r] EXCEPT ![target[r].flag] = target[r].variant]
           /\ file' \in Files
           /\ \A g \in Flags : file'[g] # doc[r][g] => g = target[r].flag
<1>1. target[r].flag \in Flags /\ target[r].variant \in VariantsOf[target[r].flag]
  BY DEF Save, LockInv, Known
<1>2. doc[r] \in Files
  BY DEF TypeOK
<1>3. file' = [doc[r] EXCEPT ![target[r].flag] = target[r].variant]
  BY DEF Save
<1>4. /\ [doc[r] EXCEPT ![target[r].flag] = target[r].variant] \in Files
      /\ \A g \in Flags :
           [doc[r] EXCEPT ![target[r].flag] = target[r].variant][g] # doc[r][g]
             => g = target[r].flag
  BY <1>1, <1>2, SetFlag
<1>5. QED BY ONLY <1>1, <1>3, <1>4

\* The file, the lock and the requests keep their types.
LEMMA RequestsTyped ==
    ASSUME TypeOK, LockInv, [Next]_vars
    PROVE  /\ file' \in Files /\ uiState' \in Files
           /\ lock' \in Requests \cup {NoOne}
           /\ pc' \in [Requests -> Points]
           /\ target' \in [Requests -> Targets]
           /\ doc' \in [Requests -> Files]
           /\ uiWrites' \in Nat
<1> DEFINE Goal == /\ file' \in Files /\ uiState' \in Files
                   /\ lock' \in Requests \cup {NoOne}
                   /\ pc' \in [Requests -> Points]
                   /\ target' \in [Requests -> Targets]
                   /\ doc' \in [Requests -> Files]
                   /\ uiWrites' \in Nat
<1> SUFFICES Goal
  OBVIOUS
<1> USE AllOff DEF TypeOK, Points
<1>1. ASSUME NEW r \in Requests, Load(r) PROVE Goal
  BY <1>1 DEF Load, Answer, Goto
<1>2. ASSUME NEW r \in Requests, Save(r) PROVE Goal
  <2>1. file' \in Files
    BY <1>2, SaveWrites
  <2>2. QED BY <1>2, <2>1 DEF Save, Answer, Goto
<1>3. ASSUME NEW r \in Requests, Record(r) \/ RecordFails(r) PROVE Goal
  BY <1>3 DEF Record, RecordFails, Answer
<1>4. ASSUME NEW r \in Requests, SaveFails(r) PROVE Goal
  BY <1>4 DEF SaveFails, Answer
<1>5. ASSUME NEW r \in Requests, NEW f \in Keys, NEW v \in Requested, NEW apply \in BOOLEAN,
             Start(r, f, v, apply)
      PROVE  Goal
  <2>1. [kind |-> "start", flag |-> f, variant |-> v] \in Targets
    BY TargetsTyped DEF Named
  <2>2. QED BY <1>5, <2>1 DEF Start, Goto
<1>6. ASSUME NEW r \in Requests, NEW w \in DOMAIN windows, Stop(r, w) PROVE Goal
  <2>1. windows[w] \in Windows
    OBVIOUS
  <2>2. [kind |-> "stop", flag |-> windows[w].flag, variant |-> "off"] \in Targets
    BY <2>1, TargetsTyped DEF Windows
  <2>3. QED BY <1>6, <2>2 DEF Stop, Goto
<1>7. ASSUME NEW r \in Requests, NEW w \in DOMAIN windows, StopFails(r, w) PROVE Goal
  BY <1>7 DEF StopFails, reqVars
<1>8. CASE Crash
  BY <1>8 DEF Crash
<1>9. ASSUME NEW f \in Flags, NEW v \in AnyVariant, UiWrite(f, v) PROVE Goal
  <2>1. [uiState EXCEPT ![f] = v] \in Files
    BY <1>9, SetFlag DEF UiWrite
  <2>2. QED BY <1>9, <2>1 DEF UiWrite, reqVars
<1>10. CASE UiRestart
  BY <1>10 DEF UiRestart, reqVars
<1>11. CASE UNCHANGED vars
  BY <1>11 DEF vars, reqVars
<1> HIDE DEF Goal
<1>12. QED
  BY <1>1, <1>2, <1>3, <1>4, <1>5, <1>6, <1>7, <1>8, <1>9, <1>10, <1>11 DEF Next, RequestStep

\* Whoever is about to write holds the lock, and nobody has written since it read.
LEMMA LockStep ==
    ASSUME TypeOK, LockInv, [Next]_vars
    PROVE  LockInv'
<1> USE NoOneAssumption DEF TypeOK, LockInv
<1>1. ASSUME NEW r \in Requests, Load(r) PROVE LockInv'
  <2>1. \A q \in Requests : pc[q] # "save"
    BY <1>1 DEF Load
  <2>2. QED BY <1>1, <2>1 DEF Load, Answer, Goto, Known
<1>2. ASSUME NEW r \in Requests, Save(r) \/ SaveFails(r) PROVE LockInv'
  <2>1. \A q \in Requests : q # r => pc[q] # "save"
    BY <1>2 DEF Save, SaveFails
  <2>2. QED BY <1>2, <2>1 DEF Save, SaveFails, Answer, Goto
<1>3. ASSUME NEW r \in Requests, Record(r) \/ RecordFails(r) PROVE LockInv'
  BY <1>3 DEF Record, RecordFails, Answer, Known
<1>4. ASSUME NEW r \in Requests, NEW f \in Keys, NEW v \in Requested, NEW apply \in BOOLEAN,
             Start(r, f, v, apply)
      PROVE  LockInv'
  BY <1>4 DEF Start, Goto, Known
<1>5. ASSUME NEW r \in Requests, NEW w \in DOMAIN windows, Stop(r, w) PROVE LockInv'
  BY <1>5 DEF Stop, Goto, Known
<1>6. CASE Crash
  BY <1>6 DEF Crash
<1>7. ASSUME NEW f \in Flags, NEW v \in AnyVariant, UiWrite(f, v) PROVE LockInv'
  BY <1>7 DEF UiWrite, reqVars, Known
<1>8. CASE UNCHANGED <<file, reqVars, uiWrites>>
  BY <1>8 DEF reqVars, Known
<1>9. QED
  BY <1>1, <1>2, <1>3, <1>4, <1>5, <1>6, <1>7, <1>8
     DEF Next, RequestStep, StopFails, UiRestart, vars, reqVars

-------------------------------------------------------------------------------
(***************************************************************************)
(* The windows and their audit rows.                                       *)
(***************************************************************************)

\* The transaction of start adds a window and its fault.start row.
LEMMA InsertKeepsAudit ==
    ASSUME TypeOK, AuditInv, NEW r \in Requests, Insert(r)
    PROVE  windows' \in Seq(Windows) /\ audit' \in Seq(Rows) /\ AuditInv'
<1> DEFINE n == Len(windows) + 1
           m == Len(audit) + 1
<1>1. n \in Nat \ {0} /\ m \in Nat \ {0} /\ DOMAIN windows = 1..n - 1 /\ DOMAIN audit = 1..m - 1
  BY DEF TypeOK
<1>2. target[r].flag \in Named
  BY DEF TypeOK, Targets
<1>3. /\ windows' \in Seq(Windows)
      /\ DOMAIN windows' = 1..n
      /\ \A w \in 1..n - 1 : windows'[w] = windows[w]
      /\ windows'[n].ended = FALSE
  BY <1>2 DEF Insert, TypeOK, Windows
<1>4. /\ audit' \in Seq(Rows)
      /\ DOMAIN audit' = 1..m
      /\ \A i \in 1..m - 1 : audit'[i] = audit[i]
      /\ audit'[m] = StartRow(n)
  BY <1>1 DEF Insert, TypeOK, Rows, StartRow
<1>5. \A w : StopRow(w) # StartRow(n) /\ StopRow(w).window = w /\ StartRow(n).window = n
  BY DEF StopRow, StartRow
<1> HIDE DEF n, m
<1>6. \A i \in 1..m, w \in 1..n : audit'[i] = StopRow(w) <=> i < m /\ w < n /\ audit[i] = StopRow(w)
  BY <1>1, <1>4, <1>5 DEF AuditInv
<1>7. \A i \in DOMAIN audit' : audit'[i].window \in DOMAIN windows'
  BY <1>1, <1>3, <1>4, <1>5 DEF AuditInv
<1>8. ASSUME NEW w \in DOMAIN windows'
      PROVE  \E i \in DOMAIN audit' : audit'[i] = StartRow(w)
  <2>1. CASE w = n
    BY <2>1, <1>1, <1>4
  <2>2. CASE w # n
    <3>1. w \in DOMAIN windows
      BY <2>2, <1>1, <1>3
    <3>2. PICK i \in DOMAIN audit : audit[i] = StartRow(w)
      BY <3>1 DEF AuditInv
    <3>3. i \in DOMAIN audit' /\ audit'[i] = audit[i]
      BY <1>1, <1>4
    <3>4. QED BY <3>2, <3>3
  <2>3. QED BY <2>1, <2>2
<1>9. ASSUME NEW w \in DOMAIN windows', NEW i \in DOMAIN audit', NEW j \in DOMAIN audit',
             audit'[i] = StopRow(w), audit'[j] = StopRow(w)
      PROVE  i = j
  <2>1. w \in 1..n /\ i \in 1..m /\ j \in 1..m
    BY <1>3, <1>4
  <2>2. w < n /\ i < m /\ j < m /\ audit[i] = StopRow(w) /\ audit[j] = StopRow(w)
    BY <1>6, <1>9, <2>1
  <2>3. w \in DOMAIN windows /\ i \in DOMAIN audit /\ j \in DOMAIN audit
    BY <1>1, <2>1, <2>2
  <2>4. QED BY <2>2, <2>3 DEF AuditInv
<1>10. \A w \in DOMAIN windows' :
         windows'[w].ended <=> \E i \in DOMAIN audit' : audit'[i] = StopRow(w)
  <2> TAKE w \in DOMAIN windows'
  <2>1. CASE w = n
    BY <2>1, <1>1, <1>3, <1>4, <1>6
  <2>2. CASE w # n
    <3>1. windows[w].ended <=> \E i \in DOMAIN audit : audit[i] = StopRow(w)
      BY <2>2, <1>1, <1>3 DEF AuditInv
    <3>2. w \in 1..n - 1 /\ windows'[w] = windows[w]
      BY <2>2, <1>1, <1>3
    <3>3. (\E i \in DOMAIN audit' : audit'[i] = StopRow(w))
            <=> \E i \in DOMAIN audit : audit[i] = StopRow(w)
      BY <3>2, <1>1, <1>4, <1>6
    <3>4. QED BY <3>1, <3>2, <3>3
  <2>3. QED BY <2>1, <2>2
<1>11. \A w \in DOMAIN windows' : \A i \in DOMAIN audit' : audit'[i] = StopRow(w) =>
         \E j \in DOMAIN audit' : j < i /\ audit'[j] = StartRow(w)
  <2> TAKE w \in DOMAIN windows'
  <2> TAKE i \in DOMAIN audit'
  <2> HAVE audit'[i] = StopRow(w)
  <2>1. w \in DOMAIN windows /\ i \in DOMAIN audit /\ audit[i] = StopRow(w)
    BY <1>1, <1>3, <1>4, <1>6
  <2>2. PICK j \in DOMAIN audit : j < i /\ audit[j] = StartRow(w)
    BY <2>1 DEF AuditInv
  <2>3. QED BY <2>2, <1>1, <1>4
<1>12. QED BY <1>3, <1>4, <1>7, <1>8, <1>9, <1>10, <1>11 DEF AuditInv, StartRow, StopRow

\* The transaction of stop ends a window that is open and adds its only fault.stop
\* row: nobody who reads ended_at IS NULL after it gets the row.
LEMMA EndKeepsAudit ==
    ASSUME TypeOK, AuditInv, NEW w \in DOMAIN windows, End(w)
    PROVE  windows' \in Seq(Windows) /\ audit' \in Seq(Rows) /\ AuditInv'
<1> DEFINE n == Len(windows)
           m == Len(audit) + 1
<1>1. n \in Nat /\ m \in Nat \ {0} /\ DOMAIN windows = 1..n /\ DOMAIN audit = 1..m - 1
  BY DEF TypeOK
<1>2. windows[w] \in Windows /\ w \in 1..n
  BY <1>1 DEF TypeOK
<1>3. /\ windows' \in Seq(Windows)
      /\ DOMAIN windows' = 1..n
      /\ \A v \in 1..n : v # w => windows'[v] = windows[v]
      /\ windows'[w].ended = TRUE
  <2> DEFINE ended == [windows[w] EXCEPT !.ended = TRUE]
  <2>1. ended \in Windows /\ ended.ended = TRUE
    BY <1>2 DEF Windows
  <2>2. windows' = [windows EXCEPT ![w] = ended]
    BY DEF End
  <2> HIDE DEF ended
  <2>3. QED BY <1>1, <1>2, <2>1, <2>2 DEF TypeOK
<1>4. /\ audit' \in Seq(Rows)
      /\ DOMAIN audit' = 1..m
      /\ \A i \in 1..m - 1 : audit'[i] = audit[i]
      /\ audit'[m] = StopRow(w)
  BY <1>1, <1>2 DEF End, TypeOK, Rows, StopRow
<1>5. \A v : StartRow(v) # StopRow(w) /\ StopRow(v).window = v
  BY DEF StopRow, StartRow
<1>6. \A i \in DOMAIN audit : audit[i] # StopRow(w)
  BY DEF AuditInv, End
<1> HIDE DEF n, m
<1>7. \A i \in 1..m, v \in 1..n :
        audit'[i] = StopRow(v) <=> IF i = m THEN v = w ELSE v # w /\ audit[i] = StopRow(v)
  BY <1>1, <1>4, <1>5, <1>6
<1>8. \A i \in DOMAIN audit' : audit'[i].window \in DOMAIN windows'
  BY <1>1, <1>2, <1>3, <1>4, <1>5 DEF AuditInv
<1>9. \A v \in DOMAIN windows' : \E i \in DOMAIN audit' : i < m /\ audit'[i] = StartRow(v)
  BY <1>1, <1>3, <1>4 DEF AuditInv
<1>10. \A v \in DOMAIN windows' : \A i, j \in DOMAIN audit' :
         audit'[i] = StopRow(v) /\ audit'[j] = StopRow(v) => i = j
  BY <1>1, <1>3, <1>4, <1>7 DEF AuditInv
<1>11. \A v \in DOMAIN windows' :
         windows'[v].ended <=> \E i \in DOMAIN audit' : audit'[i] = StopRow(v)
  <2> TAKE v \in DOMAIN windows'
  <2>1. CASE v = w
    BY <2>1, <1>1, <1>3, <1>4
  <2>2. CASE v # w
    <3>1. windows[v].ended <=> \E i \in DOMAIN audit : audit[i] = StopRow(v)
      BY <1>1, <1>3 DEF AuditInv
    <3>2. v \in 1..n /\ windows'[v] = windows[v]
      BY <2>2, <1>3
    <3>3. (\E i \in DOMAIN audit' : audit'[i] = StopRow(v))
            <=> \E i \in DOMAIN audit : audit[i] = StopRow(v)
      BY <2>2, <3>2, <1>1, <1>4, <1>7
    <3>4. QED BY <3>1, <3>2, <3>3
  <2>3. QED BY <2>1, <2>2
<1>12. \A v \in DOMAIN windows' : \A i \in DOMAIN audit' : audit'[i] = StopRow(v) =>
         \E j \in DOMAIN audit' : j < i /\ audit'[j] = StartRow(v)
  <2> TAKE v \in DOMAIN windows'
  <2> TAKE i \in DOMAIN audit'
  <2> HAVE audit'[i] = StopRow(v)
  <2>1. CASE i = m
    BY <2>1, <1>1, <1>9
  <2>2. CASE i # m
    <3>1. v \in DOMAIN windows /\ i \in DOMAIN audit /\ audit[i] = StopRow(v)
      BY <2>2, <1>1, <1>3, <1>4, <1>7
    <3>2. PICK j \in DOMAIN audit : j < i /\ audit[j] = StartRow(v)
      BY <3>1 DEF AuditInv
    <3>3. QED BY <3>2, <1>1, <1>4
  <2>3. QED BY <2>1, <2>2
<1>13. QED BY <1>3, <1>4, <1>8, <1>9, <1>10, <1>11, <1>12 DEF AuditInv, StartRow, StopRow

\* No step leaves the audit log and the windows at odds.
LEMMA AuditStep ==
    ASSUME TypeOK, AuditInv, [Next]_vars
    PROVE  windows' \in Seq(Windows) /\ audit' \in Seq(Rows) /\ AuditInv'
<1> DEFINE Goal == windows' \in Seq(Windows) /\ audit' \in Seq(Rows) /\ AuditInv'
<1> SUFFICES Goal
  OBVIOUS
<1>1. CASE UNCHANGED dbVars
  BY <1>1 DEF dbVars, AuditInv, TypeOK, StartRow, StopRow
<1>2. ASSUME NEW r \in Requests, Insert(r) PROVE Goal
  BY <1>2, InsertKeepsAudit
<1>3. ASSUME NEW w \in DOMAIN windows, End(w) PROVE Goal
  BY <1>3, EndKeepsAudit
<1> HIDE DEF Goal
<1>4. QED
  BY <1>1, <1>2, <1>3
     DEF Next, RequestStep, Load, Save, SaveFails, Record, RecordFails, Start, Stop, StopFails,
         Crash, UiWrite, UiRestart, vars

-------------------------------------------------------------------------------
(***************************************************************************)
(* The theorems.                                                           *)
(***************************************************************************)

\* The first state: everything off, no window, nobody in the lock.
LEMMA Initial ==
    ASSUME Init
    PROVE  IInv
<1>1. TypeOK
  BY AllOff, TargetsTyped DEF Init, TypeOK, Points
<1>2. LockInv
  BY DEF Init, LockInv
<1>3. AuditInv
  BY DEF Init, AuditInv
<1>4. QED BY <1>1, <1>2, <1>3 DEF IInv

\* Every step of a request, of a crash or of flagd-ui keeps all three parts.
LEMMA StepKeepsInvariant ==
    ASSUME IInv, [Next]_vars
    PROVE  IInv'
<1>1. TypeOK'
  BY RequestsTyped, AuditStep DEF IInv, TypeOK
<1>2. QED BY <1>1, LockStep, AuditStep DEF IInv

\* IInv holds in every reachable state, for any number of threads and windows.
THEOREM InductiveInvariant == Spec => []IInv
<1>1. QED BY Initial, StepKeepsInvariant, PTL DEF Spec

\* The variables of fault injection keep their types.
THEOREM TypeCorrect == Spec => []TypeOK
<1>1. IInv => TypeOK
  BY DEF IInv
<1>2. QED BY <1>1, InductiveInvariant, PTL

\* set_variant: requests that interleave never write back a document loaded before
\* somebody else's write; each write of the orchestrator changes one flag.
THEOREM AtomicToggle == Spec => OneFlagPerWrite
<1> DEFINE OneFlag == uiWrites' = 0 =>
             \A f, g \in Flags : file'[f] # file[f] /\ file'[g] # file[g] => f = g
<1>1. ASSUME IInv, [Next]_vars PROVE [OneFlag]_vars
  <2> SUFFICES ASSUME uiWrites' = 0, file' # file PROVE OneFlag
    OBVIOUS
  <2> USE <1>1 DEF IInv
  <2>1. uiWrites \in Nat
    BY DEF TypeOK
  <2>2. \A f \in Flags, v \in AnyVariant : ~UiWrite(f, v)
    BY <2>1 DEF UiWrite
  <2>3. PICK r \in Requests : Save(r)
    BY <2>2 DEF Next, RequestStep, Load, SaveFails, Record, RecordFails, Start, Stop, StopFails,
                Crash, UiRestart, vars
  <2>4. doc[r] = file
    BY <2>3 DEF Save, LockInv
  <2>5. \A g \in Flags : file'[g] # file[g] => g = target[r].flag
    BY <2>3, <2>4, SaveWrites
  <2>6. QED BY <2>5
<1>2. QED BY <1>1, InductiveInvariant, PTL DEF Spec, OneFlagPerWrite

\* Racing stops end a window once, and its one fault.stop row follows its fault.start.
THEOREM EndsOnce == Spec => []WindowEndsOnce
<1>1. IInv => WindowEndsOnce
  BY DEF IInv, AuditInv, WindowEndsOnce, StartRow, StopRow
<1>2. QED BY <1>1, InductiveInvariant, PTL
===============================================================================
