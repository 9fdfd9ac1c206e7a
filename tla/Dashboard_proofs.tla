-------------------------- MODULE Dashboard_proofs --------------------------
(***************************************************************************)
(* Proofs about the windows of the dashboard, for any listings, findings,  *)
(* services, keys and bounds, and whatever windows are opened, closed and  *)
(* locked away: each shows an answer only where it belongs, and draws a    *)
(* service right of those that call it.                                    *)
(***************************************************************************)
EXTENDS Dashboard, FiniteSetTheorems, WellFoundedInduction, TLAPS

(***************************************************************************)
(* What holds of each window.                                              *)
(***************************************************************************)
Entries == [n : Nat, out : {"shown", "pending"}]

\* Terminal: only the command that runs is without its answer, and it is the last.
TInv ==
    /\ transcript \in Seq(Entries) /\ since \in Seq(Nat) /\ sent \in Nat
    /\ Len(since) = Len(transcript) /\ \A i \in DOMAIN transcript : transcript[i].n = since[i]
    /\ ~running => execs = {}
    /\ running => execs \subseteq {sent} /\ Len(transcript) > 0 /\ since[Len(transcript)] = sent
    /\ \A i \in DOMAIN transcript : transcript[i].out = "pending" => running /\ i = Len(transcript)

\* Explorer: the listing asked for last is of the path.
EInv ==
    /\ trail \in Seq(Range(trail))
    /\ at \in DOMAIN trail /\ trail[at] = path
    /\ latest \in Nat /\ applied \in Nat /\ applied <= latest
    /\ \A r \in asked : r.n \in Nat /\ r.n <= latest /\ (r.n = latest => r.path = path)
    /\ applied = latest => real = None \/ real.of = path

\* Onboarding: a timeout waits where the last stage was reached.
OInv ==
    /\ O!WizardGoesOn
    /\ stage \in 0..LastStage /\ timeouts \in Nat
    /\ timeouts > 0 => stage = LastStage

Selections == [service : Services \cup {All}, hours : Periods]
Statuses == {"new", "confirmed", "dismissed"}
Lists == UNION {[D -> Statuses] : D \in SUBSET Findings}

\* A status but "new" is one that was given.
Truthful(list) == \A f \in DOMAIN list : list[f] = "new" \/ <<f, list[f]>> \in given

\* Reports: a load of the running effect is of the selection, a chart on its way or
\* shown is of the service that follows, and every list is truthful.
StoredOk == stored \in Lists /\ Truthful(stored)
ReportOk ==
    report # None =>
        /\ report \in [of : Selections, findings : Lists]
        /\ report.of = selection /\ Truthful(report.findings)
LoadOk(l) ==
    /\ DOMAIN l = {"effect", "of", "served"}
    /\ l.of \in Selections /\ l.effect \in Nat /\ l.effect <= effect
    /\ l.effect = effect => l.of = selection
    /\ l.served # None => l.served \in Lists /\ Truthful(l.served)
Chart == [service |-> R!chartService, hours |-> selection.hours]
ChartsOk == (\A c \in charts : c = Chart) /\ (chart # None => chart = Chart)
VerdictOk(w) ==
    /\ DOMAIN w = {"id", "verdict", "stored", "shown"}
    /\ w.verdict \in {"confirmed", "dismissed"} /\ <<w.id, w.verdict>> \in given

RInv ==
    /\ selection \in Selections /\ effect \in Nat
    /\ StoredOk /\ ReportOk /\ ChartsOk
    /\ \A l \in loads : LoadOk(l)
    /\ \A w \in verdicts : VerdictOk(w)

\* Services: a detail whose effect lives is of the service selected.
SInv ==
    /\ S!DetailIsOfTheSelected
    /\ \A d \in details : DOMAIN d = {"n", "name", "live"} /\ (d.live => d.name = picked)

EdgeLists == Seq([source : Nat, target : Nat])

\* The call graph shown is one that Jaeger may list.
GInv == graph # None => graph \in EdgeLists

\* What is shown fits a key.
Fits(key) ==
    /\ posture.real \subseteq C!Opened(key)
    /\ "status" \notin posture.real => posture.enabled = (key # None)

\* Security: the last load knows and carries the key, and is on its way, or shown.
CInv ==
    /\ apiKey = session
    /\ checked \in Nat /\ posture.n \in Nat /\ posture.n <= checked
    /\ \A c \in checks : c.n \in Nat /\ c.n <= checked
    /\ \A c \in checks : c.n = checked => c.known = apiKey /\ c.carried = apiKey
    /\ posture.n = checked => Fits(apiKey)
    /\ ~overtaken => posture.n = checked \/ \E c \in checks : c.n = checked

IInv == TInv /\ EInv /\ OInv /\ RInv /\ SInv /\ GInv /\ CInv
-------------------------------------------------------------------------------
(***************************************************************************)
(* Terminal.                                                               *)
(***************************************************************************)

\* A new entry under the others.
LEMMA Said ==
    ASSUME NEW n \in Nat, NEW out \in {"shown", "pending"}
    PROVE  T!Entry(n, out) \in Entries /\ T!Entry(n, out).n = n /\ T!Entry(n, out).out = out
  BY DEF T!Entry, Entries

\* Command n enters the transcript, and the time it was entered the other list.
Shown(t, s, n, out) == t = Append(transcript, T!Entry(n, out)) /\ s = Append(since, n)

\* Both lists grow by the command.
LEMMA BothGrow ==
    ASSUME TInv, NEW n \in Nat, NEW out \in {"shown", "pending"},
           NEW t, NEW s, Shown(t, s, n, out)
    PROVE  /\ t \in Seq(Entries) /\ s \in Seq(Nat) /\ Len(s) = Len(t) /\ Len(t) > 0 /\ s[Len(t)] = n
           /\ \A i \in DOMAIN t : t[i].n = s[i]
           /\ \A i \in DOMAIN t : t[i].out = "pending" =>
                 (i \in DOMAIN transcript /\ transcript[i].out = "pending") \/ (i = Len(t) /\ out = "pending")
<1>1. /\ transcript \in Seq(Entries) /\ since \in Seq(Nat) /\ Len(since) = Len(transcript)
      /\ \A i \in DOMAIN transcript : transcript[i].n = since[i]
  BY DEF TInv
<1> DEFINE e == T!Entry(n, out)
<1>2. e \in Entries /\ e.n = n /\ e.out = out
  BY Said
<1> HIDE DEF e
<1>3. t = Append(transcript, e) /\ s = Append(since, n)
  BY DEF e, Shown
<1>4. /\ t \in Seq(Entries) /\ Len(t) = Len(transcript) + 1 /\ t[Len(t)] = e
      /\ \A i \in DOMAIN transcript : t[i] = transcript[i]
      /\ DOMAIN t = 1..Len(t) /\ DOMAIN transcript = 1..Len(transcript) /\ Len(transcript) \in Nat
  BY <1>1, <1>2, <1>3
<1>5. /\ s \in Seq(Nat) /\ Len(s) = Len(since) + 1 /\ s[Len(s)] = n
      /\ \A i \in 1..Len(since) : s[i] = since[i]
  BY <1>1, <1>3
<1>6. \A i \in DOMAIN t : i = Len(t) \/ i \in DOMAIN transcript
  BY <1>4
<1>7. \A i \in DOMAIN t : t[i].n = s[i]
  BY <1>1, <1>2, <1>4, <1>5, <1>6
<1>8. \A i \in DOMAIN t : t[i].out = "pending" =>
                 (i \in DOMAIN transcript /\ transcript[i].out = "pending") \/ (i = Len(t) /\ out = "pending")
  BY <1>2, <1>4, <1>6
<1>9. QED BY <1>1, <1>4, <1>5, <1>7, <1>8

\* An empty transcript.
LEMMA ClearedKeeps ==
    ASSUME transcript' = <<>>, since' = <<>>, running' = FALSE, execs' = {}, sent' \in Nat
    PROVE  TInv'
<1>1. /\ transcript' \in Seq(Entries) /\ since' \in Seq(Nat) /\ Len(since') = Len(transcript')
      /\ DOMAIN transcript' = {}
  OBVIOUS
<1>2. ~running'
  OBVIOUS
<1>3. QED BY <1>1, <1>2 DEF TInv

\* The prompt: nothing runs.
LEMMA PromptKeeps ==
    ASSUME TInv, T!ClearLocally \/ T!RunEco \/ T!Send
    PROVE  TInv'
<1>1. ~running /\ execs = {} /\ sent \in Nat /\ \A i \in DOMAIN transcript : transcript[i].out # "pending"
  BY DEF TInv, T!ClearLocally, T!RunEco, T!Send, T!Idle
<1>2. sent' = sent + 1 /\ sent' \in Nat
  BY <1>1 DEF T!ClearLocally, T!RunEco, T!Send
<1>3. CASE T!ClearLocally
  <2>1. transcript' = <<>> /\ since' = <<>> /\ running' = running /\ execs' = {}
    BY <1>1, <1>3 DEF T!ClearLocally
  <2>2. running' = FALSE \/ ~running'
    BY <1>1, <2>1
  <2>3. DOMAIN transcript' = {} /\ transcript' \in Seq(Entries) /\ since' \in Seq(Nat) /\ Len(since') = Len(transcript')
    BY <2>1
  <2>4. QED BY <1>1, <1>2, <2>1, <2>3 DEF TInv
<1>4. CASE T!RunEco
  <2>1. PICK t, s, k : /\ t = transcript' /\ s = since' /\ k = sent'
                       /\ t = Append(transcript, T!Entry(k, "shown")) /\ s = Append(since, k)
                       /\ UNCHANGED <<running, execs>>
    BY <1>4 DEF T!RunEco
  <2>2. k \in Nat
    BY <1>2, <2>1
  <2>g. Shown(t, s, k, "shown")
    BY <2>1 DEF Shown
  <2>3. t \in Seq(Entries) /\ s \in Seq(Nat) /\ Len(s) = Len(t)
    <3>1. t \in Seq(Entries)
      BY <2>2, <2>g, BothGrow
    <3>2. s \in Seq(Nat)
      BY <2>2, <2>g, BothGrow
    <3>3. Len(s) = Len(t)
      BY <2>2, <2>g, BothGrow
    <3>4. QED BY <3>1, <3>2, <3>3
  <2>4. \A i \in DOMAIN t : t[i].n = s[i]
    BY <2>2, <2>g, BothGrow
  <2>5. \A i \in DOMAIN t : t[i].out # "pending"
    BY <1>1, <2>2, <2>g, BothGrow
  <2>6. QED BY <1>1, <1>2, <2>1, <2>3, <2>4, <2>5 DEF TInv
<1>5. CASE T!Send
  <2>1. PICK t, s, k : /\ t = transcript' /\ s = since' /\ k = sent'
                       /\ t = Append(transcript, T!Entry(k, "pending")) /\ s = Append(since, k)
                       /\ running' = TRUE /\ execs' = execs \cup {k}
    BY <1>5 DEF T!Send
  <2>2. k \in Nat
    BY <1>2, <2>1
  <2>g. Shown(t, s, k, "pending")
    BY <2>1 DEF Shown
  <2>3. t \in Seq(Entries) /\ s \in Seq(Nat) /\ Len(s) = Len(t) /\ Len(t) > 0 /\ s[Len(t)] = k
    <3>1. t \in Seq(Entries)
      BY <2>2, <2>g, BothGrow
    <3>2. s \in Seq(Nat)
      BY <2>2, <2>g, BothGrow
    <3>3. Len(s) = Len(t) /\ Len(t) > 0 /\ s[Len(t)] = k
      BY <2>2, <2>g, BothGrow
    <3>4. QED BY <3>1, <3>2, <3>3
  <2>4. \A i \in DOMAIN t : t[i].n = s[i]
    BY <2>2, <2>g, BothGrow
  <2>5. \A i \in DOMAIN t : t[i].out = "pending" => i = Len(t)
    BY <1>1, <2>2, <2>g, BothGrow
  <2>6. running' /\ execs' \subseteq {k}
    BY <1>1, <2>1
  <2>7. QED BY <2>1, <2>2, <2>3, <2>4, <2>5, <2>6 DEF TInv
<1>6. QED BY <1>3, <1>4, <1>5

\* The answer of the command that runs goes into the last entry, which is its own.
LEMMA AnswerKeeps ==
    ASSUME TInv, NEW n \in execs, T!Answered(n) \/ T!AnsweredClear(n)
    PROVE  TInv'
<1>1. /\ running /\ n = sent /\ execs = {n} /\ n \in Nat
      /\ transcript \in Seq(Entries) /\ since \in Seq(Nat) /\ Len(since) = Len(transcript)
      /\ Len(transcript) > 0 /\ since[Len(transcript)] = n
      /\ \A i \in DOMAIN transcript : transcript[i].n = since[i]
                                      /\ (transcript[i].out = "pending" => i = Len(transcript))
  BY DEF TInv
<1>2. running' = FALSE /\ execs' = {} /\ sent' \in Nat
  BY <1>1 DEF T!Answered, T!AnsweredClear
<1>3. CASE T!AnsweredClear(n)
  <2>1. transcript' = <<>> /\ since' = <<>>
    BY <1>3 DEF T!AnsweredClear
  <2>2. QED BY <1>2, <2>1, ClearedKeeps
<1>4. CASE T!Answered(n)
  <2> DEFINE e == T!Entry(n, "shown")
  <2>1. PICK t : t = transcript' /\ t = [transcript EXCEPT ![Len(transcript)] = e]
    BY <1>4 DEF T!Answered, T!Replaced
  <2>2. e \in Entries /\ e.n = n /\ e.out = "shown"
    BY <1>1, Said
  <2> HIDE DEF e
  <2>3. /\ Len(transcript) \in DOMAIN transcript /\ DOMAIN t = DOMAIN transcript /\ t[Len(transcript)] = e
        /\ \A i \in DOMAIN transcript : i # Len(transcript) => t[i] = transcript[i]
    BY <1>1, <2>1
  <2>4. t \in Seq(Entries) /\ Len(t) = Len(transcript)
    BY <1>1, <2>1, <2>2
  <2>5. \A i \in DOMAIN t : t[i].n = since[i] /\ t[i].out # "pending"
    <3>1. ASSUME NEW i \in DOMAIN t
          PROVE  t[i].n = since[i] /\ t[i].out # "pending"
      <4>1. CASE i = Len(transcript)
        BY <1>1, <2>2, <2>3, <4>1
      <4>2. CASE i # Len(transcript)
        BY <1>1, <2>3, <4>2
      <4>3. QED BY <4>1, <4>2
    <3>2. QED BY <3>1
  <2>6. since' = since
    BY <1>4 DEF T!Answered
  <2>7. ~running'
    BY <1>2
  <2>8. QED BY <1>1, <1>2, <2>1, <2>4, <2>5, <2>6, <2>7 DEF TInv
<1>5. QED BY <1>3, <1>4

\* The window as it is mounted.
LEMMA TerminalFresh ==
    /\ T!Init => TInv
    /\ T!Fresh => TInv'
<1> DEFINE e == T!Entry(0, "shown")
<1>1. e \in Entries /\ e.n = 0 /\ e.out = "shown"
  BY Said
<1> HIDE DEF e
<1>2. <<e>> \in Seq(Entries) /\ <<0>> \in Seq(Nat) /\ Len(<<e>>) = Len(<<0>>) /\ DOMAIN <<e>> = {1}
      /\ <<e>>[1] = e /\ <<0>>[1] = 0
  BY <1>1
<1>3. \A i \in DOMAIN <<e>> : <<e>>[i].n = <<0>>[i] /\ <<e>>[i].out # "pending"
  BY <1>1, <1>2
<1>4. ASSUME T!Init PROVE TInv
  <2>1. transcript = <<e>> /\ since = <<0>> /\ sent = 0 /\ ~running /\ execs = {}
    BY <1>4 DEF T!Init, e
  <2>2. QED BY <1>2, <1>3, <2>1 DEF TInv
<1>5. ASSUME T!Fresh PROVE TInv'
  <2>1. transcript' = <<e>> /\ since' = <<0>> /\ sent' = 0 /\ ~running' /\ execs' = {}
    BY <1>5 DEF T!Fresh, e
  <2>2. QED BY <1>2, <1>3, <2>1 DEF TInv
<1>6. QED BY <1>4, <1>5

\* Every step of the terminal.
LEMMA TerminalKeeps ==
    ASSUME TInv, T!Next \/ T!Fresh \/ UNCHANGED terminalVars
    PROVE  TInv'
<1>1. CASE T!Next
  BY <1>1, PromptKeeps, AnswerKeeps DEF T!Next
<1>2. CASE UNCHANGED terminalVars
  BY <1>2 DEF TInv, terminalVars
<1>3. QED BY <1>1, <1>2, TerminalFresh
-------------------------------------------------------------------------------
(***************************************************************************)
(* Explorer.                                                               *)
(***************************************************************************)

\* The effect on the path: the listing asked for last is of the path it is at then.
LEMMA AskedOfPath ==
    ASSUME EInv, NEW p, E!Ask(p), path' = p, real' = real, applied' = applied
    PROVE  /\ latest' \in Nat /\ applied' \in Nat /\ applied' <= latest'
           /\ \A r \in asked' : r.n \in Nat /\ r.n <= latest' /\ (r.n = latest' => r.path = path')
           /\ applied' = latest' => real' = None \/ real'.of = path'
<1>1. CASE p = path
  BY <1>1 DEF EInv, E!Ask
<1>2. CASE p # path
  <2>1. latest' = latest + 1 /\ asked' = asked \cup {[n |-> latest', path |-> p]}
    BY <1>2 DEF E!Ask
  <2>2. QED BY <2>1 DEF EInv
<1>3. QED BY <1>1, <1>2

\* A place on the trail.
LEMMA WentKeeps ==
    ASSUME EInv, NEW p, E!Ask(p), path' = p, real' = real, applied' = applied,
           trail' \in Seq(Range(trail')), at' \in DOMAIN trail', trail'[at'] = p
    PROVE  EInv'
  BY AskedOfPath DEF EInv

\* What lay ahead is cut off, and the new place is the last.
LEMMA NavigateKeeps ==
    ASSUME EInv, NEW p, E!navigateTo(p)
    PROVE  EInv'
<1>1. trail \in Seq(Range(trail)) /\ at \in DOMAIN trail
  BY DEF EInv
<1>2. PICK t : t = trail' /\ t = Append(SubSeq(trail, 1, at), p)
  BY DEF E!navigateTo
<1>3. path' = p /\ at' = at + 1 /\ real' = real /\ applied' = applied /\ E!Ask(p)
  BY DEF E!navigateTo
<1> DEFINE Names == Range(trail) \cup {p}
           u == SubSeq(trail, 1, at)
<1>4. at \in 1..Len(trail) /\ Len(trail) \in Nat /\ trail \in Seq(Names) /\ p \in Names
  BY <1>1
<1> HIDE DEF Names
<1>5. u \in Seq(Names) /\ Len(u) = at
  BY <1>4
<1> HIDE DEF u
<1>6. t = Append(u, p)
  BY <1>2 DEF u
<1>7. t \in Seq(Names) /\ Len(t) = at + 1 /\ t[at + 1] = p /\ at + 1 \in DOMAIN t
  BY <1>4, <1>5, <1>6
<1>8. t \in Seq(Range(t))
  <2> DEFINE Q == Range(t)
             n == Len(t)
  <2>1. n \in Nat /\ t \in [1..n -> Names]
    BY <1>7
  <2>2. \A j \in 1..n : t[j] \in Q
    BY <2>1 DEF Range
  <2> HIDE DEF Q, n
  <2>3. t \in [1..n -> Q]
    BY <2>1, <2>2
  <2>4. t \in Seq(Q)
    BY <2>1, <2>3
  <2>5. QED BY <2>4 DEF Q
<1>9. QED BY <1>2, <1>3, <1>7, <1>8, WentKeeps

\* Back and forward.
LEMMA GoKeeps ==
    ASSUME EInv, E!handleBack \/ E!handleForward
    PROVE  EInv'
<1>1. trail \in Seq(Range(trail)) /\ at \in DOMAIN trail
  BY DEF EInv
<1>2. PICK i \in DOMAIN trail : E!GoTo(i)
  <2>1. CASE E!handleBack
    BY <1>1, <2>1 DEF E!handleBack
  <2>2. CASE E!handleForward
    BY <1>1, <2>2 DEF E!handleForward
  <2>3. QED BY <2>1, <2>2
<1>3. PICK p : /\ p = trail[i] /\ path' = p /\ at' = i /\ E!Ask(p)
               /\ UNCHANGED <<trail, real, applied>>
  BY <1>2 DEF E!GoTo
<1>4. trail' \in Seq(Range(trail')) /\ at' \in DOMAIN trail' /\ trail'[at'] = p
  BY <1>1, <1>3
<1>5. QED BY <1>3, <1>4, WentKeeps

\* A listing is answered, of whatever path.
LEMMA ListKeeps ==
    ASSUME EInv, E!ListAnswered
    PROVE  EInv'
<1>1. PICK r \in asked :
        /\ asked' = asked \ {r} /\ applied' = r.n
        /\ \E entries : real' = E!Listed(r.path, entries)
        /\ UNCHANGED <<path, trail, at, latest>>
  BY DEF E!ListAnswered
<1>2. real' = None \/ real'.of = r.path
  BY <1>1 DEF E!Listed
<1>3. QED BY <1>1, <1>2 DEF EInv

\* The window as it is mounted.
LEMMA ExplorerFresh ==
    /\ E!Init => EInv
    /\ E!Fresh => EInv'
<1>1. <<E!Home>> \in Seq(Range(<<E!Home>>)) /\ 1 \in DOMAIN <<E!Home>> /\ <<E!Home>>[1] = E!Home
  BY DEF Range
<1>2. E!Init => EInv
  BY <1>1 DEF E!Init, EInv
<1>3. E!Fresh => EInv'
  BY <1>1 DEF E!Fresh, EInv
<1>4. QED BY <1>2, <1>3

\* Every step of the explorer.
LEMMA ExplorerKeeps ==
    ASSUME EInv, E!Next \/ E!Viewing \/ E!Fresh \/ UNCHANGED explorerVars
    PROVE  EInv'
<1>1. CASE E!OpenRoot \/ E!OpenAbove \/ E!OpenFolder
  BY <1>1, NavigateKeeps DEF E!OpenRoot, E!OpenAbove, E!OpenFolder
<1>2. CASE E!OpenFile \/ E!Viewing \/ UNCHANGED explorerVars
  <2>1. UNCHANGED <<path, trail, at, real, asked, latest, applied>>
    BY <1>2 DEF E!OpenFile, E!Viewing, E!ReadAnswered, E!CloseViewer, explorerVars
  <2>2. QED BY <2>1 DEF EInv
<1>3. QED BY <1>1, <1>2, GoKeeps, ListKeeps, ExplorerFresh DEF E!Next
-------------------------------------------------------------------------------
(***************************************************************************)
(* Onboarding.                                                             *)
(***************************************************************************)

\* The buttons and the discoveries: no timer starts or ends.
LEMMA QuietWizard ==
    ASSUME OInv, O!Answer \/ O!Open \/ O!Close \/ O!Refresh \/ O!SelectWorkload \/ O!Back \/ O!Approve \/ O!Launch
    PROVE  OInv'
<1>1. UNCHANGED <<stage, ticking, timeouts>>
  BY DEF O!Answer, O!Open, O!Close, O!Refresh, O!SelectWorkload, O!Back, O!Approve, O!Launch, O!timers
<1>2. step' = step \/ (step # "pipeline" /\ step' \in {"discover", "approve"})
  BY DEF O!Answer, O!Open, O!Close, O!Refresh, O!SelectWorkload, O!Back, O!Approve, O!Launch
<1>3. (\E r \in rounds : r.n = begun) \/ ~dockerLoading
  BY DEF OInv, O!WizardGoesOn
<1>4. dockerLoading' => \E r \in rounds' : r.n = begun'
  <2>1. CASE UNCHANGED <<dockerLoading, rounds, begun>>
    BY <1>3, <2>1
  <2>2. CASE O!Discover
    <3>1. [n |-> begun', ids |-> None] \in rounds' /\ [n |-> begun', ids |-> None].n = begun'
      BY <2>2 DEF O!Discover
    <3>2. QED BY <3>1
  <2>3. CASE O!Answer
    <3>1. PICK r \in rounds : O!ListArrives(r) \/ O!ListFails(r) \/ O!StatsArrive(r) \/ O!StatsFail(r)
      BY <2>3 DEF O!Answer
    <3>2. CASE dockerLoading' = FALSE
      BY <3>2
    <3>3. CASE dockerLoading' # FALSE
      <4>1. O!ListArrives(r)
        BY <3>1, <3>3 DEF O!ListFails, O!StatsArrive, O!StatsFail, O!Finish
      <4>2. dockerLoading' = dockerLoading /\ begun' = begun
        BY <3>3, <4>1 DEF O!ListArrives, O!Finish
      <4>3. PICK found : rounds' = (rounds \ {r}) \cup {[n |-> r.n, ids |-> found]}
        BY <3>3, <4>1 DEF O!ListArrives, O!Finish
      <4>4. [n |-> r.n, ids |-> found].n = r.n /\ [n |-> r.n, ids |-> found] \in rounds'
        BY <4>3
      <4>5. CASE r.n = begun
        BY <4>2, <4>4, <4>5
      <4>6. CASE r.n # begun
        BY <1>3, <4>2, <4>3, <4>6
      <4>7. QED BY <4>5, <4>6
    <3>4. QED BY <3>2, <3>3
  <2>4. QED BY <2>1, <2>2, <2>3
          DEF O!Open, O!Close, O!Refresh, O!SelectWorkload, O!Back, O!Approve, O!Launch, O!lists
<1>5. QED BY <1>1, <1>2, <1>4 DEF OInv, O!WizardGoesOn

\* The timers and what starts them: no discovery begins or ends.
LEMMA TimersKeep ==
    ASSUME OInv, O!Connected \/ O!Tick \/ O!ShowReady
    PROVE  OInv'
<1>1. UNCHANGED <<dockerLoading, rounds, begun>>
  BY DEF O!Connected, O!Tick, O!ShowReady, O!lists
<1>2. dockerLoading' => \E r \in rounds' : r.n = begun'
  BY <1>1 DEF OInv, O!WizardGoesOn
<1>3. LastStage \in Nat
  BY StageAssumption
<1>4. /\ step = "pipeline" <=> (ticking \/ timeouts > 0)
      /\ ticking => timeouts = 0
      /\ timeouts \in {0, 1} /\ stage \in 0..LastStage
      /\ timeouts > 0 \/ step = "ready" => stage = LastStage
  BY DEF OInv, O!WizardGoesOn
<1>5. SUFFICES /\ step' = "pipeline" <=> (ticking' \/ timeouts' > 0)
               /\ ticking' => timeouts' = 0
               /\ timeouts' \in {0, 1} /\ stage' \in 0..LastStage
               /\ timeouts' > 0 \/ step' = "ready" => stage' = LastStage
  BY <1>2 DEF OInv, O!WizardGoesOn
<1>6. CASE O!Connected
  <2>1. /\ step' = "pipeline" /\ (ticking' <=> (ticking \/ step # "pipeline"))
        /\ stage' = stage /\ timeouts' = timeouts
    BY <1>6 DEF O!Connected
  <2>2. QED BY <1>4, <2>1
<1>7. CASE O!Tick
  <2>1. ticking /\ step' = step
    BY <1>7 DEF O!Tick
  <2>2. CASE stage < LastStage
    <3>1. stage' = stage + 1 /\ (ticking' <=> ticking) /\ timeouts' = timeouts
      BY <1>7, <2>2 DEF O!Tick
    <3>2. QED BY <1>3, <1>4, <2>1, <2>2, <3>1
  <2>3. CASE ~(stage < LastStage)
    <3>1. ~ticking' /\ timeouts' = timeouts + 1 /\ stage' = stage
      BY <1>7, <2>3 DEF O!Tick
    <3>2. QED BY <1>3, <1>4, <2>1, <2>3, <3>1
  <2>4. QED BY <2>2, <2>3
<1>8. CASE O!ShowReady
  <2>1. /\ timeouts > 0 /\ timeouts' = timeouts - 1 /\ step' = "ready" /\ ~ticking' /\ stage' = stage
    BY <1>8 DEF O!ShowReady
  <2>2. QED BY <1>4, <2>1
<1>9. QED BY <1>6, <1>7, <1>8

\* Every step of the wizard.
LEMMA WizardKeeps ==
    ASSUME OInv, O!Next \/ O!Fresh \/ UNCHANGED wizardVars
    PROVE  OInv'
<1>1. CASE O!Fresh
  <2>1. [n |-> 1, ids |-> None] \in rounds' /\ [n |-> 1, ids |-> None].n = begun'
    BY <1>1 DEF O!Fresh
  <2>2. \E r \in rounds' : r.n = begun'
    BY <2>1
  <2>3. QED BY <1>1, <2>2, StageAssumption DEF O!Fresh, OInv, O!WizardGoesOn
<1>2. CASE UNCHANGED wizardVars
  BY <1>2 DEF wizardVars, OInv, O!WizardGoesOn
<1>3. QED BY <1>1, <1>2, QuietWizard, TimersKeep DEF O!Next
-------------------------------------------------------------------------------
(***************************************************************************)
(* Services.                                                               *)
(***************************************************************************)

\* Another service is selected: no detail asked before lives.
LEMMA SelectKeeps ==
    ASSUME SInv, NEW name, S!Select(name)
    PROVE  SInv'
<1>1. CASE name = picked
  BY <1>1 DEF S!Select, S!detailVars, SInv, S!DetailIsOfTheSelected
<1>2. CASE name # picked
  <2>1. /\ picked' = name /\ detailLoading' = TRUE
        /\ details' = {[d EXCEPT !.live = FALSE] : d \in details} \cup {[n |-> picks', name |-> name, live |-> TRUE]}
    BY <1>2 DEF S!Select
  <2>2. ASSUME NEW e \in details'
        PROVE  DOMAIN e = {"n", "name", "live"} /\ (e.live => e.name = name)
    <3>1. CASE \E d \in details : e = [d EXCEPT !.live = FALSE]
      <4>1. PICK d \in details : e = [d EXCEPT !.live = FALSE]
        BY <3>1
      <4>2. DOMAIN d = {"n", "name", "live"}
        BY DEF SInv
      <4>3. QED BY <4>1, <4>2
    <3>2. CASE e = [n |-> picks', name |-> name, live |-> TRUE]
      BY <3>2
    <3>3. QED BY <2>1, <2>2, <3>1, <3>2
  <2>3. detailLoading'
    BY <2>1
  <2>4. QED BY <2>1, <2>2, <2>3 DEF SInv, S!DetailIsOfTheSelected
<1>3. QED BY <1>1, <1>2

\* Every step of the process monitor.
LEMMA ProcessesKeep ==
    ASSUME SInv, S!Next \/ S!Fresh \/ UNCHANGED processVars
    PROVE  SInv'
<1>1. CASE S!Poll \/ S!Refresh \/ S!Refreshed \/ S!RefreshFails \/ UNCHANGED processVars
  <2>1. UNCHANGED <<picked, detail, detailLoading, details>>
    BY <1>1 DEF S!Poll, S!Refresh, S!refresh, S!Refreshed, S!RefreshFails, S!detailVars, processVars
  <2>2. QED BY <2>1 DEF SInv, S!DetailIsOfTheSelected
<1>2. CASE S!SelectRow \/ S!SelectFault \/ S!SelectNode \/ S!SelectNeighbour
  BY <1>2, SelectKeeps DEF S!SelectRow, S!SelectFault, S!SelectNode, S!SelectNeighbour
<1>3. CASE S!DetailArrives
  <2>1. PICK d \in details :
          /\ details' = details \ {d} /\ picked' = picked
          /\ IF d.live THEN detail' \in {d.name, None} /\ detailLoading' = FALSE
             ELSE UNCHANGED <<detail, detailLoading>>
    BY <1>3 DEF S!DetailArrives, S!Current
  <2>2. QED BY <2>1 DEF SInv, S!DetailIsOfTheSelected
<1>4. CASE S!Fresh
  BY <1>4 DEF S!Fresh, SInv, S!DetailIsOfTheSelected
<1>5. QED BY <1>1, <1>2, <1>3, <1>4 DEF S!Next

\* The call graph comes with a refresh, and from nowhere else.
LEMMA GraphKeeps ==
    ASSUME GInv, S!Next \/ S!Fresh \/ UNCHANGED processVars
    PROVE  GInv'
<1>1. CASE S!Refreshed
  <2>1. graph' \in Graphs \cup {<<>>}
    BY <1>1 DEF S!Refreshed
  <2>2. CASE graph' \in Graphs
    BY <2>2, GraphAssumption DEF EdgeLists, GInv
  <2>3. CASE graph' = <<>>
    <3>1. <<>> \in EdgeLists
      BY DEF EdgeLists
    <3>2. QED BY <2>3, <3>1 DEF GInv
  <2>4. QED BY <2>1, <2>2, <2>3
<1>2. CASE S!Fresh
  BY <1>2 DEF S!Fresh, GInv
<1>3. CASE S!SelectRow \/ S!SelectFault \/ S!SelectNode \/ S!SelectNeighbour \/ S!DetailArrives
  <2>1. graph' = graph
    BY <1>3 DEF S!SelectRow, S!SelectFault, S!SelectNode, S!SelectNeighbour, S!Select, S!DetailArrives, S!tableVars
  <2>2. QED BY <2>1 DEF GInv
<1>4. CASE S!Poll \/ S!Refresh \/ S!RefreshFails \/ UNCHANGED processVars
  <2>1. graph' = graph
    BY <1>4 DEF S!Poll, S!Refresh, S!refresh, S!RefreshFails, processVars
  <2>2. QED BY <2>1 DEF GInv
<1>5. QED BY <1>1, <1>2, <1>3, <1>4 DEF S!Next
-------------------------------------------------------------------------------
(***************************************************************************)
(* Security.                                                               *)
(***************************************************************************)

\* A load knows what it was made of.
LEMMA CheckIs ==
    ASSUME NEW n, NEW known, NEW carried
    PROVE  /\ C!Check(n, known, carried).n = n /\ C!Check(n, known, carried).known = known
           /\ C!Check(n, known, carried).carried = carried
  BY DEF C!Check

\* The instance counts as this module does.
LEMMA SameCardinality == \A P : C!Cardinality(P) = Cardinality(P)
  BY DEF C!Cardinality, Cardinality

\* A load is begun that knows and carries the key: whatever went before is older.
LEMMA BegunKeeps ==
    ASSUME CInv, NEW last, last \in checks', checked' \in Nat, checked < checked',
           last.n = checked', last.known = apiKey', last.carried = apiKey', apiKey' = session',
           \A c \in checks' : c \in checks \/ c = last \/ (c.n \in Nat /\ c.n < checked'),
           UNCHANGED <<posture, overtaken>>
    PROVE  CInv'
  BY DEF CInv

\* Every step of the security window.
LEMMA SecurityKeeps ==
    ASSUME CInv, C!Next \/ C!Fresh \/ UNCHANGED securityVars
    PROVE  CInv'
<1>1. checked \in Nat /\ apiKey = session
  BY DEF CInv
<1>2. CASE C!loadSecurityData
  <2>1. PICK last : last = C!Check(checked + 1, apiKey, session)
    OBVIOUS
  <2>2. /\ checked' = checked + 1 /\ checks' = checks \cup {last}
        /\ UNCHANGED <<session, apiKey, posture, overtaken>>
    BY <1>2, <2>1 DEF C!loadSecurityData
  <2>3. last.n = checked + 1 /\ last.known = apiKey /\ last.carried = session
    BY <2>1, CheckIs
  <2>4. QED BY <1>1, <2>2, <2>3, BegunKeeps
<1>3. CASE C!handleSaveApiKey
  <2>1. PICK key \in Keys \cup {None} :
          /\ session' = key /\ apiKey' = key
          /\ checks' = checks \cup {C!Check(checked + 1, apiKey, key)} \cup C!Effect(1, key)
          /\ checked' = checked + 1 + Cardinality(C!Effect(1, key))
    BY <1>3, SameCardinality DEF C!handleSaveApiKey
  <2>2. UNCHANGED <<posture, overtaken>>
    BY <1>3 DEF C!handleSaveApiKey
  <2>3. PICK first : first = C!Check(checked + 1, apiKey, key)
    OBVIOUS
  <2>4. first.n = checked + 1 /\ first.known = apiKey /\ first.carried = key
    BY <2>3, CheckIs
  <2>5. CASE key = apiKey
    <3>1. C!Effect(1, key) = {}
      BY <2>5 DEF C!Effect
    <3>2. Cardinality(C!Effect(1, key)) = 0
      BY <3>1, FS_EmptySet
    <3>3. checked' = checked + 1 /\ checks' = checks \cup {first}
      BY <1>1, <2>1, <2>3, <3>1, <3>2
    <3>4. QED BY <1>1, <2>1, <2>2, <2>4, <2>5, <3>3, BegunKeeps
  <2>6. CASE key # apiKey
    <3>1. PICK last : last = C!Check(checked + 1 + 1, key, key)
      OBVIOUS
    <3>2. C!Effect(1, key) = {last}
      BY <2>6, <3>1 DEF C!Effect
    <3>3. Cardinality(C!Effect(1, key)) = 1
      BY <3>2, FS_Singleton
    <3>4. checked' = checked + 2 /\ checks' = checks \cup {first} \cup {last}
      BY <1>1, <2>1, <2>3, <3>2, <3>3
    <3>5. last.n = checked + 2 /\ last.known = key /\ last.carried = key
      BY <1>1, <3>1, CheckIs
    <3>6. QED BY <1>1, <2>1, <2>2, <2>4, <3>4, <3>5, BegunKeeps
  <2>7. QED BY <2>5, <2>6
<1>4. CASE C!clearApiKey
  <2>1. PICK last : last = C!Check(checked + 0 + 1, None, None)
    OBVIOUS
  <2>2. C!Effect(0, None) = {last}
    BY <1>4, <2>1 DEF C!Effect, C!clearApiKey
  <2>3. Cardinality(C!Effect(0, None)) = 1
    BY <2>2, FS_Singleton
  <2>4. session' = None /\ apiKey' = None /\ UNCHANGED <<posture, overtaken>>
    BY <1>4 DEF C!clearApiKey
  <2>7. checks' = checks \cup C!Effect(0, None) /\ checked' = checked + Cardinality(C!Effect(0, None))
    BY <1>4, SameCardinality DEF C!clearApiKey
  <2>8. checks' = checks \cup {last} /\ checked' = checked + 1
    BY <2>2, <2>3, <2>7
  <2>5. last.n = checked + 1 /\ last.known = None /\ last.carried = None
    BY <1>1, <2>1, CheckIs
  <2>6. QED BY <1>1, <2>4, <2>5, <2>8, BegunKeeps
<1>5. CASE C!Arrive
  <2>a. PICK c \in checks : \E got \in SUBSET C!Opened(c.carried) :
          /\ checks' = checks \ {c}
          /\ posture' = [n |-> c.n, real |-> got,
                         enabled |-> IF "status" \in got THEN ServerKey # None ELSE c.known # None]
          /\ overtaken' = (overtaken \/ c.n < posture.n)
          /\ UNCHANGED <<session, apiKey, checked>>
    BY <1>5 DEF C!Arrive
  <2>1. PICK got \in SUBSET C!Opened(c.carried) :
          /\ checks' = checks \ {c}
          /\ posture' = [n |-> c.n, real |-> got,
                         enabled |-> IF "status" \in got THEN ServerKey # None ELSE c.known # None]
          /\ overtaken' = (overtaken \/ c.n < posture.n)
          /\ UNCHANGED <<session, apiKey, checked>>
    BY <2>a
  <2>2. c.n \in Nat /\ c.n <= checked /\ (c.n = checked => c.known = apiKey /\ c.carried = apiKey)
    BY DEF CInv
  <2>3. posture'.n = c.n /\ posture'.real = got
        /\ ("status" \notin got => posture'.enabled = (c.known # None))
    BY <2>1
  <2>4. posture'.n = checked' => Fits(apiKey)'
    BY <2>1, <2>2, <2>3 DEF Fits, C!Opened
  <2>5. ~overtaken' => ~overtaken /\ ~(c.n < posture.n)
    BY <2>1
  <2>6. ~overtaken' => posture'.n = checked' \/ \E d \in checks' : d.n = checked'
    BY <2>1, <2>2, <2>3, <2>5 DEF CInv
  <2>7. QED BY <2>1, <2>2, <2>3, <2>4, <2>6 DEF CInv
<1>6. CASE C!Fresh
  <2>1. PICK last : last = C!Check(1, session, session)
    OBVIOUS
  <2>2. /\ apiKey' = session /\ session' = session /\ checks' = {last} /\ checked' = 1
        /\ posture' = [n |-> 0, real |-> {}, enabled |-> FALSE]
    BY <1>6, <2>1 DEF C!Fresh, C!Unknown
  <2>3. last.n = 1 /\ last.known = session /\ last.carried = session
    BY <2>1, CheckIs
  <2>4. QED BY <2>2, <2>3 DEF CInv
<1>7. CASE UNCHANGED securityVars
  BY <1>7 DEF CInv, securityVars, Fits, C!Opened
<1>8. QED BY <1>2, <1>3, <1>4, <1>5, <1>6, <1>7 DEF C!Next
-------------------------------------------------------------------------------
(***************************************************************************)
(* Reports.                                                                *)
(***************************************************************************)

\* A list of some of the findings.
LEMMA ListIs ==
    ASSUME NEW D \in SUBSET Findings, NEW list \in [D -> Statuses]
    PROVE  list \in Lists
  BY DEF Lists

\* Its findings and what is said of them.
LEMMA ListHas ==
    ASSUME NEW list \in Lists
    PROVE  DOMAIN list \subseteq Findings /\ list \in [DOMAIN list -> Statuses]
  BY DEF Lists

\* What was given stays given.
LEMMA TruthStays ==
    ASSUME NEW list, Truthful(list), given \subseteq given'
    PROVE  Truthful(list)'
  BY DEF Truthful

\* A load stays what it is while the selection and the effect do.
LEMMA LoadStays ==
    ASSUME NEW l, LoadOk(l), UNCHANGED <<selection, effect>>, given \subseteq given'
    PROVE  LoadOk(l)'
  BY TruthStays DEF LoadOk

\* A load of an effect that is over is of no interest.
LEMMA LoadLeft ==
    ASSUME NEW l, LoadOk(l), effect \in Nat, effect' = effect + 1, UNCHANGED given
    PROVE  LoadOk(l)'
  BY TruthStays DEF LoadOk

\* A new load is of the selection.
LEMMA LoadNew ==
    ASSUME NEW l, l = R!Load, selection' \in Selections, effect' \in Nat
    PROVE  LoadOk(l)'
<1>1. /\ DOMAIN l = {"effect", "of", "served"}
      /\ l.effect = effect' /\ l.of = selection' /\ l.served = None
  BY DEF R!Load
<1>2. QED BY <1>1 DEF LoadOk

\* A verdict stays given.
LEMMA VerdictStays ==
    ASSUME NEW w, VerdictOk(w), given \subseteq given'
    PROVE  VerdictOk(w)'
  BY DEF VerdictOk

\* What is stored stays truthful while it is not changed.
LEMMA StoredStays ==
    ASSUME StoredOk, UNCHANGED stored, given \subseteq given'
    PROVE  StoredOk'
<1>1. PICK list : list = stored
  OBVIOUS
<1>2. Truthful(list)'
  BY <1>1, TruthStays DEF StoredOk
<1>3. list \in Lists /\ stored' = list
  BY <1>1 DEF StoredOk
<1>4. QED BY <1>2, <1>3 DEF StoredOk

\* So does the report.
LEMMA ReportStays ==
    ASSUME ReportOk, UNCHANGED <<report, selection>>, given \subseteq given'
    PROVE  ReportOk'
<1>1. CASE report = None
  BY <1>1 DEF ReportOk
<1>2. CASE report # None
  <2>1. PICK list : list = report.findings
    OBVIOUS
  <2>2. Truthful(list)'
    BY <1>2, <2>1, TruthStays DEF ReportOk
  <2>3. report' = report /\ report'.findings = list
    BY <2>1
  <2>4. Truthful(report.findings)'
    BY <2>2, <2>3 DEF Truthful
  <2>5. QED BY <1>2, <2>4 DEF ReportOk
<1>3. QED BY <1>1, <1>2

\* The chart is of the service that follows, whatever the step does.
LEMMA ChartsFollow ==
    ASSUME ChartsOk, R!Rechart
    PROVE  ChartsOk'
<1>1. CASE R!chartService' = R!chartService /\ selection'.hours = selection.hours /\ UNCHANGED <<charts, chart>>
  BY <1>1 DEF ChartsOk, Chart
<1>2. CASE /\ chart' = None
           /\ charts' = IF R!chartService' = None THEN {}
                        ELSE {[service |-> R!chartService', hours |-> selection'.hours]}
  BY <1>2 DEF ChartsOk, Chart
<1>3. QED BY <1>1, <1>2 DEF R!Rechart, R!chartVars

\* The service of the chart is what it was: the report has the same findings.
LEMMA ServiceStays ==
    ASSUME UNCHANGED <<selection, chosen>>, R!Ids(report') = R!Ids(report), report' = None <=> report = None
    PROVE  R!chartService' = R!chartService
  BY DEF R!chartService, R!ChartServiceOf, R!SelectedOf, R!First

\* And so the charts stay right.
LEMMA ChartsStay ==
    ASSUME ChartsOk, UNCHANGED <<selection, chosen, charts, chart>>,
           R!Ids(report') = R!Ids(report), report' = None <=> report = None
    PROVE  ChartsOk'
  BY ServiceStays DEF ChartsOk, Chart
\* The loads are those there were.
LEMMA LoadsStay ==
    ASSUME \A l \in loads : LoadOk(l), UNCHANGED <<selection, effect>>, given \subseteq given'
    PROVE  \A l \in loads : LoadOk(l)'
  BY LoadStays

\* An effect of another selection, or of the same once more: nothing is shown.
LEMMA ReloadKeeps ==
    ASSUME RInv, selection' \in Selections, R!Reload
    PROVE  RInv'
<1>1. /\ effect \in Nat /\ effect' = effect + 1 /\ report' = None
      /\ UNCHANGED <<stored, verdicts, given>> /\ R!Rechart
  BY DEF RInv, R!Reload
<1>2. PICK new : new = R!Load
  OBVIOUS
<1>3. loads' = loads \cup {new}
  BY <1>2 DEF R!Reload
<1>4. \A l \in loads' : LoadOk(l)'
  <2>1. TAKE l \in loads'
  <2>2. CASE l \in loads
    BY <1>1, <2>2, LoadLeft DEF RInv
  <2>3. CASE l = new
    BY <1>1, <1>2, <2>3, LoadNew
  <2>4. QED BY <1>3, <2>2, <2>3
<1>5. StoredOk'
  BY <1>1, StoredStays DEF RInv
<1>6. ReportOk'
  BY <1>1 DEF ReportOk
<1>7. ChartsOk'
  BY <1>1, ChartsFollow DEF RInv
<1>8. \A w \in verdicts' : VerdictOk(w)'
  BY <1>1, VerdictStays DEF RInv
<1>9. effect' \in Nat
  BY <1>1
<1>10. QED BY <1>4, <1>5, <1>6, <1>7, <1>8, <1>9 DEF RInv

\* The window as it opens.
LEMMA ReportsOpen ==
    ASSUME RInv, R!Fresh
    PROVE  RInv'
<1>1. /\ effect \in Nat /\ effect' = effect + 1 /\ report' = None /\ charts' = {} /\ chart' = None
      /\ UNCHANGED <<stored, given>> /\ verdicts' = {[w EXCEPT !.shown = FALSE] : w \in verdicts}
  BY DEF RInv, R!Fresh
<1>2. selection' \in Selections
  <2>1. R!Max(Periods) \in Periods
    BY PeriodAssumption DEF R!Max, Max
  <2>2. selection' = [service |-> All, hours |-> R!Max(Periods)]
    BY DEF R!Fresh
  <2>3. QED BY <2>1, <2>2 DEF Selections
<1>3. PICK new : new = R!Load
  OBVIOUS
<1>4. loads' = {new}
  BY <1>3 DEF R!Fresh
<1>5. \A l \in loads' : LoadOk(l)'
  BY <1>1, <1>2, <1>3, <1>4, LoadNew
<1>6. StoredOk'
  BY <1>1, StoredStays DEF RInv
<1>7. ReportOk' /\ ChartsOk'
  BY <1>1 DEF ReportOk, ChartsOk
<1>8. ASSUME NEW w \in verdicts
      PROVE  VerdictOk([w EXCEPT !.shown = FALSE])'
  <2>1. PICK v : v = [w EXCEPT !.shown = FALSE]
    OBVIOUS
  <2>2. VerdictOk(w)
    BY DEF RInv
  <2>3. DOMAIN v = DOMAIN w /\ v.id = w.id /\ v.verdict = w.verdict
    BY <2>1, <2>2 DEF VerdictOk
  <2>4. VerdictOk(v)
    BY <2>2, <2>3 DEF VerdictOk
  <2>5. VerdictOk(v)'
    BY <1>1, <2>4, VerdictStays
  <2>6. QED BY <2>1, <2>5
<1>9. \A w \in verdicts' : VerdictOk(w)'
  BY <1>1, <1>8
<1>10. effect' \in Nat
  BY <1>1
<1>11. QED BY <1>2, <1>5, <1>6, <1>7, <1>9, <1>10 DEF RInv

\* A list the server answers with is of what is stored.
LEMMA InsightsAre ==
    ASSUME StoredOk, NEW sel, NEW list, list = R!Insights(sel)
    PROVE  list \in Lists /\ Truthful(list)
<1>1. stored \in [DOMAIN stored -> Statuses] /\ DOMAIN stored \subseteq Findings
  BY ListHas DEF StoredOk
<1>2. /\ DOMAIN list \subseteq DOMAIN stored /\ \A f \in DOMAIN list : list[f] = stored[f]
      /\ list = [f \in DOMAIN list |-> list[f]]
  BY DEF R!Insights
<1>3. list \in [DOMAIN list -> Statuses]
  BY <1>1, <1>2
<1>4. list \in Lists
  BY <1>1, <1>2, <1>3, ListIs
<1>5. Truthful(list)
  BY <1>2 DEF StoredOk, Truthful
<1>6. QED BY <1>4, <1>5

\* A poll of the timer, a load that is answered, or not.
LEMMA LoadsKeep ==
    ASSUME RInv, R!Poll \/ R!Serve \/ R!LoadFails
    PROVE  RInv'
<1>1. UNCHANGED <<selection, effect, stored, report, chosen, charts, chart, verdicts, given>>
  BY DEF R!Poll, R!Serve, R!LoadFails, R!chartVars, R!feedbackVars
<1>2. StoredOk' /\ ReportOk' /\ \A w \in verdicts' : VerdictOk(w)'
  BY <1>1, StoredStays, ReportStays, VerdictStays DEF RInv
<1>3. R!Ids(report') = R!Ids(report)
  BY <1>1
<1>4. ChartsOk'
  BY <1>1, <1>3, ChartsStay DEF RInv
<1>5. \A l \in loads : LoadOk(l) /\ LoadOk(l)'
  BY <1>1, LoadsStay DEF RInv
<1>6. \A l \in loads' : LoadOk(l)'
  <2>1. CASE R!Poll
    <3>1. PICK new : new = R!Load
      OBVIOUS
    <3>2. loads' = loads \cup {new}
      BY <2>1, <3>1 DEF R!Poll
    <3>3. LoadOk(new)'
      BY <1>1, <3>1, LoadNew DEF RInv
    <3>4. QED BY <1>5, <3>2, <3>3
  <2>2. CASE R!Serve
    <3>1. PICK l \in loads : loads' = (loads \ {l}) \cup {[l EXCEPT !.served = R!Insights(l.of)]}
      BY <2>2 DEF R!Serve
    <3>2. PICK list : list = R!Insights(l.of)
      OBVIOUS
    <3>3. list \in Lists /\ Truthful(list)
      BY <3>2, InsightsAre DEF RInv
    <3>4. PICK served : served = [l EXCEPT !.served = list]
      OBVIOUS
    <3>5. /\ DOMAIN served = DOMAIN l /\ served.effect = l.effect /\ served.of = l.of
          /\ served.served = list
      BY <1>5, <3>4 DEF LoadOk
    <3>6. LoadOk(served)
      BY <1>5, <3>3, <3>5 DEF LoadOk
    <3>7. LoadOk(served)'
      BY <1>1, <3>6, LoadStays
    <3>8. loads' = (loads \ {l}) \cup {served}
      BY <3>1, <3>2, <3>4
    <3>9. QED BY <1>5, <3>7, <3>8
  <2>3. CASE R!LoadFails
    <3>1. loads' \subseteq loads
      BY <2>3 DEF R!LoadFails
    <3>2. QED BY <1>5, <3>1
  <2>4. QED BY <2>1, <2>2, <2>3
<1>7. selection' \in Selections /\ effect' \in Nat
  BY <1>1 DEF RInv
<1>8. QED BY <1>2, <1>4, <1>6, <1>7 DEF RInv
\* An answer is shown only while its effect runs.
LEMMA ReportArrives ==
    ASSUME RInv, R!Arrive
    PROVE  RInv'
<1>1. PICK l \in loads :
        /\ l.served # None /\ loads' = loads \ {l}
        /\ IF l.effect = effect THEN report' = [of |-> l.of, findings |-> l.served]
           ELSE UNCHANGED report
        /\ UNCHANGED <<stored, selection, effect>> /\ R!Rechart
    BY DEF R!Arrive, R!Current
<1>2. UNCHANGED <<given, verdicts>>
    BY DEF R!Arrive, R!feedbackVars
<1>3. LoadOk(l) /\ ReportOk
    BY DEF RInv
<1>4. ReportOk'
  <2>1. CASE l.effect = effect
    <3>1. l.of = selection /\ l.of \in Selections /\ l.served \in Lists /\ Truthful(l.served)
      BY <1>1, <1>3, <2>1 DEF LoadOk
    <3>2. PICK list : list = l.served
      OBVIOUS
    <3>3. Truthful(list)'
      BY <1>2, <3>1, <3>2, TruthStays
    <3>4. report' = [of |-> selection, findings |-> list]
      BY <1>1, <2>1, <3>1, <3>2
    <3>5. report'.findings = list /\ report'.of = selection'
      BY <1>1, <3>4
    <3>6. Truthful(report.findings)'
      BY <3>3, <3>5 DEF Truthful
    <3>7. report' \in [of : Selections, findings : Lists]
      BY <3>1, <3>2, <3>4
    <3>8. QED BY <3>5, <3>6, <3>7 DEF ReportOk
  <2>2. CASE l.effect # effect
    BY <1>1, <1>2, <1>3, <2>2, ReportStays
  <2>3. QED BY <2>1, <2>2
<1>5. \A k \in loads' : LoadOk(k)'
  BY <1>1, <1>2, LoadsStay DEF RInv
<1>6. StoredOk' /\ \A w \in verdicts' : VerdictOk(w)'
  BY <1>1, <1>2, StoredStays, VerdictStays DEF RInv
<1>7. ChartsOk'
  BY <1>1, ChartsFollow DEF RInv
<1>8. selection' \in Selections /\ effect' \in Nat
  BY <1>1 DEF RInv
<1>9. QED BY <1>4, <1>5, <1>6, <1>7, <1>8 DEF RInv

\* A finding is chosen, a history arrives.
LEMMA ChoiceKeeps ==
    ASSUME RInv, R!Choose \/ R!ChartArrives
    PROVE  RInv'
<1>1. UNCHANGED <<selection, effect, stored, report, loads, verdicts, given>>
  BY DEF R!Choose, R!ChartArrives, R!reportVars, R!feedbackVars
<1>2. StoredOk' /\ ReportOk' /\ \A w \in verdicts' : VerdictOk(w)'
  BY <1>1, StoredStays, ReportStays, VerdictStays DEF RInv
<1>3. \A l \in loads' : LoadOk(l)'
  BY <1>1, LoadsStay DEF RInv
<1>4. CASE R!Choose
  <2>1. ChartsOk'
    BY <1>4, ChartsFollow DEF R!Choose, RInv
  <2>2. QED BY <1>1, <1>2, <1>3, <2>1 DEF RInv
<1>5. CASE R!ChartArrives
  <2>1. PICK c \in charts : charts' = {} /\ chart' \in {c, None}
    BY <1>5 DEF R!ChartArrives
  <2>2. c = Chart
    BY DEF RInv, ChartsOk
  <2>3. UNCHANGED chosen /\ R!Ids(report') = R!Ids(report)
    BY <1>1, <1>5 DEF R!ChartArrives, R!reportVars
  <2>4. R!chartService' = R!chartService
    BY <1>1, <2>3, ServiceStays
  <2>5. Chart' = Chart
    BY <1>1, <2>4 DEF Chart
  <2>6. ChartsOk'
    BY <2>1, <2>2, <2>5 DEF ChartsOk
  <2>7. QED BY <1>1, <1>2, <1>3, <2>6 DEF RInv
<1>6. QED BY <1>4, <1>5

\* A verdict is given, or stored, or a finding is: nothing shown changes.
LEMMA FeedbackKeeps ==
    ASSUME RInv, R!submitFeedback \/ R!Server
    PROVE  RInv'
<1>1. /\ UNCHANGED <<selection, effect, report, loads, chosen, charts, chart>>
      /\ given \subseteq given'
  BY DEF R!submitFeedback, R!Server, R!StoreVerdict, R!StoreFinding, R!reportVars, R!chartVars, R!feedbackVars
<1>2. ReportOk' /\ \A l \in loads' : LoadOk(l)'
  BY <1>1, ReportStays, LoadsStay DEF RInv
<1>3. R!Ids(report') = R!Ids(report)
  BY <1>1
<1>4. ChartsOk'
  BY <1>1, <1>3, ChartsStay DEF RInv
<1>5. selection' \in Selections /\ effect' \in Nat
  BY <1>1 DEF RInv
<1>6. \A w \in verdicts : VerdictOk(w) /\ VerdictOk(w)'
  BY <1>1, VerdictStays DEF RInv
<1>7. CASE R!submitFeedback
  <2>1. PICK v \in {"confirmed", "dismissed"} :
          /\ verdicts' = verdicts \cup {[id |-> R!selected, verdict |-> v, stored |-> FALSE, shown |-> TRUE]}
          /\ given' = given \cup {<<R!selected, v>>}
          /\ UNCHANGED stored
    BY <1>7 DEF R!submitFeedback
  <2>2. PICK new : new = [id |-> R!selected, verdict |-> v, stored |-> FALSE, shown |-> TRUE]
    OBVIOUS
  <2>3. DOMAIN new = {"id", "verdict", "stored", "shown"} /\ new.id = R!selected /\ new.verdict = v
    BY <2>2
  <2>4. VerdictOk(new)'
    BY <2>1, <2>3 DEF VerdictOk
  <2>5. \A w \in verdicts' : VerdictOk(w)'
    BY <1>6, <2>1, <2>2, <2>4
  <2>6. StoredOk'
    BY <1>1, <2>1, StoredStays DEF RInv
  <2>7. QED BY <1>2, <1>4, <1>5, <2>5, <2>6 DEF RInv
<1>8. /\ stored \in Lists /\ stored \in [DOMAIN stored -> Statuses] /\ DOMAIN stored \subseteq Findings
      /\ Truthful(stored)
  BY ListHas DEF RInv, StoredOk
<1>9. CASE R!StoreVerdict
  <2>1. PICK w \in verdicts :
          /\ stored' = [stored EXCEPT ![w.id] = w.verdict]
          /\ verdicts' = (verdicts \ {w}) \cup {[w EXCEPT !.stored = TRUE]}
          /\ UNCHANGED given
    BY <1>9 DEF R!StoreVerdict
  <2>2. PICK new : new = [w EXCEPT !.stored = TRUE]
    OBVIOUS
  <2>3. VerdictOk(w)
    BY <1>6
  <2>4. DOMAIN new = DOMAIN w /\ new.id = w.id /\ new.verdict = w.verdict
    BY <2>2, <2>3 DEF VerdictOk
  <2>5. VerdictOk(new)'
    BY <2>1, <2>3, <2>4 DEF VerdictOk
  <2>6. \A x \in verdicts' : VerdictOk(x)'
    BY <1>6, <2>1, <2>2, <2>5
  <2>7. PICK list : list = stored' /\ list = [stored EXCEPT ![w.id] = w.verdict]
    BY <2>1
  <2>8. /\ DOMAIN list = DOMAIN stored /\ list \in [DOMAIN stored -> Statuses]
        /\ \A f \in DOMAIN list : list[f] = IF f = w.id THEN w.verdict ELSE stored[f]
    BY <1>8, <2>3, <2>7 DEF VerdictOk, Statuses
  <2>9. list \in Lists
    BY <1>8, <2>8, ListIs
  <2>10. Truthful(list)
    BY <1>8, <2>3, <2>8 DEF VerdictOk, Truthful
  <2>11. Truthful(list)'
    BY <1>1, <2>10, TruthStays
  <2>12. StoredOk'
    BY <2>7, <2>9, <2>11 DEF StoredOk
  <2>13. QED BY <1>2, <1>4, <1>5, <2>6, <2>12 DEF RInv
<1>10. CASE R!StoreFinding
  <2>1. PICK f \in Findings \ DOMAIN stored :
          stored' = [g \in DOMAIN stored \cup {f} |-> IF g = f THEN "new" ELSE stored[g]]
    BY <1>10 DEF R!StoreFinding
  <2>2. UNCHANGED <<verdicts, given>>
    BY <1>10 DEF R!StoreFinding, R!feedbackVars
  <2>3. PICK list : list = stored' /\ list = [g \in DOMAIN stored \cup {f} |-> IF g = f THEN "new" ELSE stored[g]]
    BY <2>1
  <2>4. DOMAIN list \in SUBSET Findings /\ list \in [DOMAIN list -> Statuses]
    BY <1>8, <2>3 DEF Statuses
  <2>5. list \in Lists
    BY <2>4, ListIs
  <2>6. Truthful(list)
    BY <1>8, <2>3 DEF Truthful
  <2>7. Truthful(list)'
    BY <1>1, <2>6, TruthStays
  <2>8. StoredOk'
    BY <2>3, <2>5, <2>7 DEF StoredOk
  <2>9. QED BY <1>2, <1>4, <1>5, <1>6, <2>2, <2>8 DEF RInv
<1>11. QED BY <1>7, <1>9, <1>10 DEF R!Server
\* A verdict marks its finding, and lists the same ones.
LEMMA MarkedIs ==
    ASSUME ReportOk, report # None, NEW w, VerdictOk(w), NEW m, m = R!Marked(w)
    PROVE  /\ m \in [of : Selections, findings : Lists] /\ m.of = report.of /\ Truthful(m.findings)
           /\ DOMAIN m.findings = DOMAIN report.findings /\ m # None
<1>1. report \in [of : Selections, findings : Lists] /\ Truthful(report.findings)
  BY DEF ReportOk
<1>2. PICK old : old = report.findings
  OBVIOUS
<1>3. DOMAIN old \in SUBSET Findings /\ old \in [DOMAIN old -> Statuses]
  BY <1>1, <1>2, ListHas
<1>4. PICK list : list = [f \in DOMAIN old |-> IF f = w.id THEN w.verdict ELSE old[f]]
  OBVIOUS
<1>5. m = [report EXCEPT !.findings = list]
  BY <1>2, <1>4 DEF R!Marked
<1>6. list \in [DOMAIN old -> Statuses] /\ DOMAIN list = DOMAIN old
  BY <1>3, <1>4 DEF VerdictOk, Statuses
<1>7. list \in Lists
  BY <1>3, <1>6, ListIs
<1>8. m \in [of : Selections, findings : Lists] /\ m.of = report.of /\ m.findings = list
  BY <1>1, <1>5, <1>7
<1>9. Truthful(list)
  BY <1>1, <1>2, <1>4 DEF Truthful, VerdictOk
<1>10. m \in [of : Selections, findings : [DOMAIN old -> Statuses]]
  BY <1>1, <1>5, <1>6
<1>11. m # None
  BY <1>3, <1>10, NoneAssumption DEF Selections, Statuses
<1>12. QED BY <1>2, <1>6, <1>8, <1>9, <1>11

\* The answer to a verdict marks the finding the verdict is on, if any.
LEMMA AnswerMarks ==
    ASSUME RInv, R!FeedbackArrives
    PROVE  RInv'
<1>1. PICK w \in verdicts : verdicts' = verdicts \ {w} /\ report' \in {report, R!Marked(w)}
  BY DEF R!FeedbackArrives
<1>2. UNCHANGED <<selection, effect, stored, loads, chosen, charts, chart, given>>
  BY DEF R!FeedbackArrives, R!chartVars
<1>3. StoredOk' /\ \A x \in verdicts' : VerdictOk(x)'
  BY <1>1, <1>2, StoredStays, VerdictStays DEF RInv
<1>4. \A l \in loads' : LoadOk(l)'
  BY <1>2, LoadsStay DEF RInv
<1>5. selection' \in Selections /\ effect' \in Nat
  BY <1>2 DEF RInv
<1>6. ReportOk /\ VerdictOk(w)
  BY DEF RInv
<1>7. CASE report' = report
  <2>1. R!Ids(report') = R!Ids(report)
    BY <1>7
  <2>2. ReportOk' /\ ChartsOk'
    BY <1>2, <1>7, <2>1, ReportStays, ChartsStay DEF RInv
  <2>3. QED BY <1>3, <1>4, <1>5, <2>2 DEF RInv
<1>8. CASE report' = R!Marked(w) /\ report = None
  BY <1>7, <1>8 DEF R!Marked
<1>9. CASE report' = R!Marked(w) /\ report # None
  <2>1. PICK m : m = R!Marked(w)
    OBVIOUS
  <2>2. /\ m \in [of : Selections, findings : Lists] /\ m.of = report.of /\ Truthful(m.findings)
        /\ DOMAIN m.findings = DOMAIN report.findings /\ m # None
    BY <1>6, <1>9, <2>1, MarkedIs
  <2>3. PICK list : list = m.findings
    OBVIOUS
  <2>4. Truthful(list)'
    BY <1>2, <2>2, <2>3, TruthStays
  <2>5. report' = m /\ report'.findings = list /\ report.of = selection
    BY <1>6, <1>9, <2>1, <2>3 DEF ReportOk
  <2>6. Truthful(report.findings)'
    BY <2>4, <2>5 DEF Truthful
  <2>7. ReportOk'
    BY <1>2, <2>2, <2>5, <2>6 DEF ReportOk
  <2>8. R!Ids(report') = R!Ids(report)
    BY <1>9, <2>2, <2>5 DEF R!Ids
  <2>9. ChartsOk'
    BY <1>2, <1>9, <2>2, <2>5, <2>8, ChartsStay DEF RInv
  <2>10. QED BY <1>3, <1>4, <1>5, <2>7, <2>9 DEF RInv
<1>10. QED BY <1>1, <1>7, <1>8, <1>9

\* Every step of the reports window, and of the server for it.
LEMMA ReportsKeep ==
    ASSUME RInv, R!Next \/ R!Server \/ R!Fresh \/ UNCHANGED reportsVars
    PROVE  RInv'
<1>1. CASE R!Select
  BY <1>1, ReloadKeeps DEF R!Select, Selections
<1>2. CASE R!Refresh
  <2>1. selection' \in Selections
    BY <1>2 DEF R!Refresh, RInv
  <2>2. QED BY <1>2, <2>1, ReloadKeeps DEF R!Refresh
<1>3. CASE UNCHANGED reportsVars
  <2>1. UNCHANGED <<selection, effect, stored, report, loads, verdicts, chosen, charts, chart, given>>
    BY <1>3 DEF reportsVars
  <2>2. R!Ids(report') = R!Ids(report)
    BY <2>1
  <2>3. StoredOk' /\ ReportOk' /\ ChartsOk'
    BY <2>1, <2>2, StoredStays, ReportStays, ChartsStay DEF RInv
  <2>4. /\ \A l \in loads' : LoadOk(l)'
        /\ \A w \in verdicts' : VerdictOk(w)'
    BY <2>1, LoadsStay, VerdictStays DEF RInv
  <2>5. QED BY <2>1, <2>3, <2>4 DEF RInv
<1>4. QED
  BY <1>1, <1>2, <1>3, ReportsOpen, LoadsKeep, ReportArrives, ChoiceKeeps, FeedbackKeeps, AnswerMarks
  DEF R!Next
-------------------------------------------------------------------------------
(***************************************************************************)
(* The desktop: a step is a step of a window, mounts it anew, or leaves it *)
(* alone.                                                                  *)
(***************************************************************************)
WindowsMove ==
    /\ T!Next \/ T!Fresh \/ UNCHANGED terminalVars
    /\ E!Next \/ E!Viewing \/ E!Fresh \/ UNCHANGED explorerVars
    /\ O!Next \/ O!Fresh \/ UNCHANGED wizardVars
    /\ R!Next \/ R!Server \/ R!Fresh \/ UNCHANGED reportsVars
    /\ S!Next \/ S!Fresh \/ UNCHANGED processVars
    /\ C!Next \/ C!Fresh \/ UNCHANGED securityVars

\* A window that is dropped is as at first, and the others keep still.
LEMMA DroppedMoves ==
    ASSUME Dropped
    PROVE  WindowsMove
  BY DEF Dropped, OthersKeepStill, WindowsMove

\* Every step of the desktop.
LEMMA EveryStepMoves ==
    ASSUME [Next]_vars
    PROVE  WindowsMove
<1>1. CASE UNCHANGED windowVars
  BY <1>1 DEF windowVars, WindowsMove
<1>2. CASE BootComplete \/ SignIn \/ SignedIn \/ handleToggleWindow \/ UNCHANGED vars
  <2>1. UNCHANGED windowVars
    BY <1>2 DEF BootComplete, SignIn, SignedIn, handleToggleWindow, vars
  <2>2. QED BY <1>1, <2>1
<1>3. CASE Leave
  <2>1. CASE watched = "filesystem"
    BY <1>3, <2>1 DEF Leave, DesktopDropped, OthersKeepStill, WindowsMove
  <2>2. CASE watched # "filesystem"
    BY <1>3, <2>2, DroppedMoves DEF Leave, DesktopDropped
  <2>3. QED BY <2>1, <2>2
<1>4. CASE handleCloseWindow
  BY <1>4, DroppedMoves DEF handleCloseWindow
<1>5. CASE WindowStep
  BY <1>5 DEF WindowStep, TerminalStep, ExplorerStep, WizardStep, ReportsStep, ProcessesStep, SecurityStep,
              OthersKeepStill, WindowsMove
<1>6. CASE Elsewhere
  BY <1>6 DEF Elsewhere, OthersKeepStill, WindowsMove
<1>7. QED BY <1>2, <1>3, <1>4, <1>5, <1>6 DEF Next

\* The windows as they are at first.
LEMMA FirstWindows ==
    ASSUME Init
    PROVE  IInv
<1>1. TInv /\ EInv
  BY TerminalFresh, ExplorerFresh DEF Init
<1>2. OInv
  <2>1. [n |-> 1, ids |-> None] \in rounds /\ [n |-> 1, ids |-> None].n = begun
    BY DEF Init, O!Init
  <2>2. \E r \in rounds : r.n = begun
    BY <2>1
  <2>3. QED BY <2>2, StageAssumption DEF Init, O!Init, OInv, O!WizardGoesOn
<1>3. SInv /\ GInv
  BY DEF Init, S!Init, SInv, GInv, S!DetailIsOfTheSelected
<1>4. CInv
  <2>1. PICK first : first = C!Check(1, None, None)
    OBVIOUS
  <2>2. /\ session = None /\ apiKey = None /\ checks = {first} /\ checked = 1 /\ ~overtaken
        /\ posture = [n |-> 0, real |-> {}, enabled |-> FALSE]
    BY <2>1 DEF Init, C!Init, C!Unknown
  <2>3. first.n = 1 /\ first.known = None /\ first.carried = None
    BY <2>1, CheckIs
  <2>4. QED BY <2>2, <2>3 DEF CInv
<1>5. RInv
  <2>1. /\ stored = [f \in {} |-> "new"] /\ selection = [service |-> All, hours |-> R!Max(Periods)]
        /\ effect = 1 /\ report = None /\ charts = {} /\ chart = None /\ verdicts = {}
        /\ loads = {[effect |-> 1, of |-> selection, served |-> None]}
    BY DEF Init, R!Init
  <2>2. R!Max(Periods) \in Periods
    BY PeriodAssumption DEF R!Max, Max
  <2>3. selection \in Selections
    BY <2>1, <2>2 DEF Selections
  <2>4. stored \in [{} -> Statuses] /\ DOMAIN stored = {}
    BY <2>1
  <2>5. stored \in Lists
    BY <2>4, ListIs
  <2>6. StoredOk
    BY <2>4, <2>5 DEF StoredOk, Truthful
  <2>7. ReportOk /\ ChartsOk
    BY <2>1 DEF ReportOk, ChartsOk
  <2>8. PICK l : l = [effect |-> 1, of |-> selection, served |-> None]
    OBVIOUS
  <2>9. DOMAIN l = {"effect", "of", "served"} /\ l.effect = 1 /\ l.of = selection /\ l.served = None
    BY <2>8
  <2>10. LoadOk(l)
    BY <2>1, <2>3, <2>9 DEF LoadOk
  <2>11. QED BY <2>1, <2>3, <2>6, <2>7, <2>8, <2>10 DEF RInv
<1>6. QED BY <1>1, <1>2, <1>3, <1>4, <1>5 DEF IInv

\* Whatever the step, each window keeps what holds of it.
LEMMA WindowsKeep ==
    ASSUME IInv, [Next]_vars
    PROVE  IInv'
<1>1. WindowsMove
  BY EveryStepMoves
<1>2. TInv' /\ EInv' /\ OInv'
  BY <1>1, TerminalKeeps, ExplorerKeeps, WizardKeeps DEF IInv, WindowsMove
<1>3. RInv' /\ SInv' /\ GInv' /\ CInv'
  BY <1>1, ReportsKeep, ProcessesKeep, GraphKeeps, SecurityKeeps DEF IInv, WindowsMove
<1>4. QED BY <1>2, <1>3 DEF IInv
-------------------------------------------------------------------------------
(***************************************************************************)
(* The call graph: induction, greatest elements, and folds that take out   *)
(* the greatest element first.                                             *)
(***************************************************************************)

\* Every set of natural numbers has a least element.
LEMMA Minimum ==
    ASSUME NEW Q \in SUBSET Nat, Q # {}
    PROVE  \E x \in Q : \A y \in Q : x <= y
<1> DEFINE L == OpToRel(<, Nat)
<1>1. IsWellFoundedOn(L, Nat)
  BY NatLessThanWellFounded
<1>2. \A x, y \in Nat : y < x => <<y, x>> \in L
  BY DEF OpToRel
<1> HIDE DEF L
<1>3. PICK x \in Q : \A y \in Q : ~ (<<y, x>> \in L)
  BY <1>1, WFMin
<1>4. \A y \in Q : ~(y < x)
  BY <1>2, <1>3
<1>5. QED BY <1>4

\* A set of numbers that has zero and every next number has them all.
LEMMA Climb ==
    ASSUME NEW Q, 0 \in Q, \A n \in Nat : n \in Q => n + 1 \in Q
    PROVE  Nat \subseteq Q
<1> DEFINE W == Nat \ Q
<1>1. SUFFICES ASSUME W # {} PROVE FALSE
  OBVIOUS
<1>2. W \in SUBSET Nat
  OBVIOUS
<1> HIDE DEF W
<1>3. PICK m \in W : \A k \in W : m <= k
  BY <1>1, <1>2, Minimum
<1>4. m \in Nat /\ m \notin Q /\ m # 0
  BY <1>3 DEF W
<1>5. m - 1 \in Nat /\ m - 1 \notin W
  BY <1>3, <1>4
<1>6. m - 1 \in Q
  BY <1>5 DEF W
<1>7. m - 1 + 1 \in Q
  BY <1>5, <1>6
<1>8. QED BY <1>4, <1>7

\* Induction over the subsets of a finite set.
LEMMA SetInduction ==
    ASSUME NEW I, IsFiniteSet(I), NEW Q, {} \in Q,
           \A s \in SUBSET I : s # {} /\ (\A x \in s : s \ {x} \in Q) => s \in Q
    PROVE  SUBSET I \subseteq Q
<1> DEFINE M == {n \in Nat : \A s \in SUBSET I : Cardinality(s) = n => s \in Q}
<1>0. Cardinality({}) = 0
  BY FS_EmptySet
<1>1. \A s \in SUBSET I : IsFiniteSet(s) /\ Cardinality(s) \in Nat
  BY FS_Subset, FS_CardinalityType
<1>2. 0 \in M
  BY <1>1, FS_EmptySet
<1>3. ASSUME NEW n \in Nat, n \in M
      PROVE  n + 1 \in M
  <2>1. ASSUME NEW s \in SUBSET I, Cardinality(s) = n + 1
        PROVE  s \in Q
    <3>1. s # {}
      BY <1>0, <2>1
    <3>2. ASSUME NEW x \in s
          PROVE  s \ {x} \in Q
      <4>1. Cardinality(s \ {x}) = n /\ s \ {x} \in SUBSET I
        BY <1>1, <2>1, FS_RemoveElement
      <4>2. QED BY <1>3, <4>1
    <3>3. QED BY <3>1, <3>2
  <2>2. QED BY <2>1
<1>4. Nat \subseteq M
  <2> HIDE DEF M
  <2>1. QED BY <1>2, <1>3, Climb
<1>5. QED BY <1>1, <1>4

\* What is greatest is the maximum.
LEMMA MaxIs ==
    ASSUME NEW Q \in SUBSET Int, NEW m \in Q, \A y \in Q : m >= y
    PROVE  S!Max(Q) = m
<1>1. S!Max(Q) \in Q /\ \A y \in Q : S!Max(Q) >= y
  BY DEF S!Max
<1>2. S!Max(Q) \in Int /\ m \in Int /\ S!Max(Q) >= m /\ m >= S!Max(Q)
  BY <1>1
<1>3. QED BY ONLY <1>2

\* A finite set of numbers has a bound.
LEMMA Bounded ==
    ASSUME NEW I \in SUBSET Nat, IsFiniteSet(I)
    PROVE  \E b \in Nat : \A x \in I : x <= b
<1> DEFINE Q == {s \in SUBSET I : \E b \in Nat : \A x \in s : x <= b}
<1>1. {} \in Q
  OBVIOUS
<1>2. ASSUME NEW s \in SUBSET I, s # {}, \A x \in s : s \ {x} \in Q
      PROVE  s \in Q
  <2>1. PICK x : x \in s
    BY <1>2
  <2>2. PICK b \in Nat : \A y \in s \ {x} : y <= b
    BY <1>2, <2>1
  <2>3. PICK c \in Nat : c >= b /\ c >= x
    <3>1. CASE x <= b
      BY <2>1, <3>1
    <3>2. CASE x > b
      BY <2>1, <3>2
    <3>3. QED BY <2>1, <3>1, <3>2
  <2>4. \A y \in s : y <= c
    BY <2>1, <2>2, <2>3
  <2>5. QED BY <2>3, <2>4
<1>3. SUBSET I \subseteq Q
  <2> HIDE DEF Q
  <2>1. QED BY <1>1, <1>2, SetInduction
<1>4. QED BY <1>3

\* A set of numbers that is bounded and not empty has its maximum.
LEMMA MaxOfBounded ==
    ASSUME NEW I \in SUBSET Nat, I # {}, NEW b \in Nat, \A x \in I : x <= b
    PROVE  S!Max(I) \in I /\ \A y \in I : S!Max(I) >= y
<1> DEFINE Q == {k \in Nat : \A x \in I : x <= k}
<1>1. Q \in SUBSET Nat /\ Q # {}
  OBVIOUS
<1>2. PICK m \in Q : \A k \in Q : m <= k
  <2> HIDE DEF Q
  <2>1. QED BY <1>1, Minimum
<1>3. m \in I
  <2>1. SUFFICES ASSUME m \notin I PROVE FALSE
    OBVIOUS
  <2>2. PICK x : x \in I
    OBVIOUS
  <2>3. m \in Nat /\ \A y \in I : y \in Nat /\ y <= m /\ y # m
    BY <1>2, <2>1
  <2>4. m - 1 \in Nat /\ \A y \in I : y <= m - 1
    BY <2>2, <2>3
  <2>5. m - 1 \in Q
    BY <2>4
  <2>6. QED BY <1>2, <2>3, <2>5
<1>4. \A y \in I : m >= y
  BY <1>2
<1>5. QED BY <1>3, <1>4, MaxIs

\* So has a finite one.
LEMMA MaxIsIn ==
    ASSUME NEW I \in SUBSET Nat, IsFiniteSet(I), I # {}
    PROVE  S!Max(I) \in I /\ \A y \in I : S!Max(I) >= y
<1>1. PICK b \in Nat : \A x \in I : x <= b
  BY Bounded
<1>2. QED BY <1>1, MaxOfBounded

\* What is left of a set without its maximum.
Rest(s) == s \ {S!Max(s)}

\* A fold h over the subsets of I by the steps of op, from base, with its values in V.
FoldsTo(h, I, V, base, op) ==
    /\ DOMAIN h = SUBSET I /\ h[{}] = base
    /\ \A s \in SUBSET I : s # {} /\ h[Rest(s)] \in V => h[s] = op[<<S!Max(s), h[Rest(s)]>>]

\* Its values are in V, and there is only one.
LEMMA FoldIs ==
    ASSUME NEW I \in SUBSET Nat, IsFiniteSet(I), NEW V, NEW base \in V, NEW op \in [I \X V -> V],
           NEW h, FoldsTo(h, I, V, base, op), NEW k, FoldsTo(k, I, V, base, op)
    PROVE  \A s \in SUBSET I : h[s] \in V /\ h[s] = k[s]
<1> DEFINE Q == {s \in SUBSET I : h[s] \in V /\ h[s] = k[s]}
<1>1. {} \in Q
  BY DEF FoldsTo
<1>2. ASSUME NEW s \in SUBSET I, s # {}, \A x \in s : s \ {x} \in Q
      PROVE  s \in Q
  <2>1. S!Max(s) \in s
    BY <1>2, MaxIsIn, FS_Subset
  <2>2. Rest(s) \in Q
    BY <1>2, <2>1 DEF Rest
  <2>3. h[s] = op[<<S!Max(s), h[Rest(s)]>>] /\ k[s] = op[<<S!Max(s), k[Rest(s)]>>]
    BY <1>2, <2>2 DEF FoldsTo
  <2>4. QED BY <2>1, <2>2, <2>3
<1>3. SUBSET I \subseteq Q
  <2> HIDE DEF Q
  <2>1. QED BY <1>1, <1>2, SetInduction
<1>4. QED BY <1>3

IsFold(h, I, base, op) ==
    h = [s \in SUBSET I |-> IF s = {} THEN base ELSE op[<<S!Max(s), h[Rest(s)]>>]]

\* There is one, by induction over the size of its sets.
LEMMA FoldExists ==
    ASSUME NEW I \in SUBSET Nat, IsFiniteSet(I), NEW V, NEW base \in V, NEW op \in [I \X V -> V]
    PROVE  \E h \in [SUBSET I -> V] : IsFold(h, I, base, op)
<1> DEFINE Upto(g, n) == \A s \in SUBSET I : Cardinality(s) <= n =>
                g[s] = IF s = {} THEN base ELSE op[<<S!Max(s), g[Rest(s)]>>]
           M == {n \in Nat : \E g \in [SUBSET I -> V] : Upto(g, n)}
<1>1. \A s \in SUBSET I : IsFiniteSet(s) /\ Cardinality(s) \in Nat
  BY FS_Subset, FS_CardinalityType
<1>2. 0 \in M
  <2> DEFINE g == [s \in SUBSET I |-> base]
  <2>1. g \in [SUBSET I -> V]
    OBVIOUS
  <2>2. Upto(g, 0)
    <3>1. \A s \in SUBSET I : Cardinality(s) <= 0 => s = {}
      BY <1>1, FS_EmptySet
    <3>2. QED BY <3>1
  <2> HIDE DEF g
  <2>3. QED BY <2>1, <2>2
<1>3. ASSUME NEW n \in Nat, n \in M
      PROVE  n + 1 \in M
  <2>1. PICK g \in [SUBSET I -> V] : Upto(g, n)
    BY <1>3
  <2> DEFINE f == [s \in SUBSET I |-> IF s = {} THEN base ELSE op[<<S!Max(s), g[Rest(s)]>>]]
  <2>2. \A s \in SUBSET I : s # {} => /\ S!Max(s) \in I /\ Rest(s) \in SUBSET I
                                      /\ Cardinality(Rest(s)) = Cardinality(s) - 1
    BY <1>1, MaxIsIn, FS_RemoveElement DEF Rest
  <2>3. f \in [SUBSET I -> V]
    BY <2>2
  <2>4. \A s \in SUBSET I : Cardinality(s) <= n => f[s] = g[s]
    BY <2>1
  <2>5. \A s \in SUBSET I : f[s] = IF s = {} THEN base ELSE op[<<S!Max(s), g[Rest(s)]>>]
    OBVIOUS
  <2> HIDE DEF f
  <2>6. Upto(f, n + 1)
    <3> TAKE s \in SUBSET I
    <3> HAVE Cardinality(s) <= n + 1
    <3>1. CASE s = {}
      BY <2>5, <3>1
    <3>2. CASE s # {}
      <4>1. Rest(s) \in SUBSET I /\ Cardinality(Rest(s)) <= n
        BY <1>1, <2>2, <3>2
      <4>2. f[Rest(s)] = g[Rest(s)]
        BY <2>4, <4>1
      <4>3. QED BY <2>5, <3>2, <4>2
    <3>3. QED BY <3>1, <3>2
  <2> HIDE DEF Upto
  <2>7. QED BY <2>3, <2>6
<1>4. Nat \subseteq M
  <2> HIDE DEF M
  <2>1. QED BY <1>2, <1>3, Climb
<1>5. Cardinality(I) \in Nat
  BY <1>1
<1>6. PICK g \in [SUBSET I -> V] : Upto(g, Cardinality(I))
  BY <1>4, <1>5
<1>7. \A s \in SUBSET I : Cardinality(s) <= Cardinality(I)
  BY FS_Subset
<1>8. \A s \in SUBSET I : g[s] = IF s = {} THEN base ELSE op[<<S!Max(s), g[Rest(s)]>>]
  BY <1>6, <1>7
<1>9. QED BY <1>8 DEF IsFold
-------------------------------------------------------------------------------
(***************************************************************************)
(* The walk: there is a function depthOf, and what it gives.               *)
(***************************************************************************)
\* Depths of some of the services, and what has been found of the callers of one.
Placings(edges) == [S!Nodes(edges) -> Nat \cup {-1}]
Founds(edges) == [depths : Placings(edges), depth : Nat]

\* What is in a sequence.
LEMMA Element ==
    ASSUME NEW A, NEW s \in Seq(A), NEW i \in DOMAIN s
    PROVE  s[i] \in A
  OBVIOUS

\* The values of a function on a finite set are finitely many.
LEMMA ImageIsFinite ==
    ASSUME NEW I, IsFiniteSet(I), NEW f, DOMAIN f = I
    PROVE  IsFiniteSet({f[x] : x \in I})
<1> DEFINE J == {f[x] : x \in I}
           g == [x \in I |-> f[x]]
<1>1. g \in Surjection(I, J)
  BY DEF Surjection
<1>2. IsFiniteSet(J)
  <2> HIDE DEF g, J
  <2>1. QED BY <1>1, FS_Surjection
<1>3. QED BY <1>2

\* Services are finitely many numbers, and so are the calls of one.
LEMMA Graph ==
    ASSUME NEW edges \in EdgeLists, NEW name
    PROVE  /\ S!calls(edges, name) \in SUBSET Nat /\ IsFiniteSet(S!calls(edges, name))
           /\ \A i \in S!calls(edges, name) : edges[i].source \in S!Nodes(edges)
           /\ S!callers(edges, name) = {edges[i].source : i \in S!calls(edges, name)}
           /\ S!callers(edges, name) \subseteq S!Nodes(edges)
           /\ S!Nodes(edges) \in SUBSET Nat /\ IsFiniteSet(S!Nodes(edges))
<1>1. Len(edges) \in Nat /\ DOMAIN edges = 1..Len(edges)
  BY DEF EdgeLists
<1>2. \A i \in DOMAIN edges : edges[i].source \in Nat /\ edges[i].target \in Nat
  <2>1. ASSUME NEW i \in DOMAIN edges
        PROVE  edges[i] \in [source : Nat, target : Nat]
    BY Element DEF EdgeLists
  <2>2. QED BY <2>1
<1>3. IsFiniteSet(DOMAIN edges) /\ DOMAIN edges \in SUBSET Nat
  BY <1>1, FS_Interval
<1>4. S!calls(edges, name) \in SUBSET DOMAIN edges
  BY DEF S!calls
<1>5. \A i \in DOMAIN edges : edges[i].source \in S!Nodes(edges)
  BY DEF S!Nodes, S!Range
<1>6. S!Nodes(edges) \in SUBSET Nat
  BY <1>2 DEF S!Nodes, S!Range
<1>7. IsFiniteSet(S!Nodes(edges))
  <2> DEFINE f == [i \in DOMAIN edges |-> edges[i].source]
             g == [i \in DOMAIN edges |-> edges[i].target]
  <2>1. IsFiniteSet({f[i] : i \in DOMAIN edges}) /\ IsFiniteSet({g[i] : i \in DOMAIN edges})
    <3>1. DOMAIN f = DOMAIN edges /\ DOMAIN g = DOMAIN edges
      OBVIOUS
    <3> HIDE DEF f, g
    <3>2. QED BY <1>3, <3>1, ImageIsFinite
  <2>2. S!Nodes(edges) = {f[i] : i \in DOMAIN edges} \cup {g[i] : i \in DOMAIN edges}
    BY DEF S!Nodes, S!Range
  <2> HIDE DEF f, g
  <2>3. QED BY <2>1, <2>2, FS_Union
<1>8. QED BY <1>3, <1>4, <1>5, <1>6, <1>7, FS_Subset DEF S!callers

\* Math.max of two depths.
LEMMA DeepestIs ==
    ASSUME NEW a \in Nat, NEW b \in Nat
    PROVE  /\ S!Deepest(a, b) \in Nat /\ S!Deepest(a, b) >= a /\ S!Deepest(a, b) >= b
           /\ S!Deepest(a, b) = a \/ S!Deepest(a, b) = b
<1>1. CASE a >= b
  <2>1. S!Max({a, b}) = a
    BY <1>1, MaxIs
  <2>2. QED BY <1>1, <2>1 DEF S!Deepest
<1>2. CASE b > a
  <2>1. S!Max({a, b}) = b
    BY <1>2, MaxIs
  <2>2. QED BY <1>2, <2>1 DEF S!Deepest
<1>3. QED BY <1>1, <1>2

\* The visit of the caller that call i comes from, and what it adds.
Into(edges, v, i, d) == [depths |-> d, name |-> edges[i].source, path |-> v.path \cup {v.name}]
Deepened(acc, u) == [depths |-> u.depths, depth |-> S!Deepest(acc.depth, u.depth + 1)]
Parent(edges, g, v, i, acc) == Deepened(acc, g[Into(edges, v, i, acc.depths)])
Begin(v) == [depths |-> v.depths, depth |-> 0]

\* What is found after each set of calls, and after all.
IsWalk(h, edges, g, v) ==
    h = [s \in SUBSET S!calls(edges, v.name) |->
           IF s = {} THEN Begin(v) ELSE Parent(edges, g, v, S!Max(s), h[Rest(s)])]
Total(edges, g, v) == (CHOOSE h : IsWalk(h, edges, g, v))[S!calls(edges, v.name)]

\* A visit that ends at once: the service is placed, or on the path.
Cut(v) == v.depths[v.name] # S!Unplaced \/ v.name \in v.path

\* depthOf for one visit, when g is what it is for the visits of the callers.
Body(edges, g, v) ==
    IF v.depths[v.name] # S!Unplaced THEN [depths |-> v.depths, depth |-> v.depths[v.name]]
    ELSE IF v.name \in v.path THEN Begin(v)
    ELSE [depths |-> [Total(edges, g, v).depths EXCEPT ![v.name] = Total(edges, g, v).depth],
          depth |-> Total(edges, g, v).depth]

LEMMA DepthOfIs ==
    ASSUME NEW edges
    PROVE  S!depthOf(edges) = CHOOSE f : f = [v \in S!Visits(edges) |-> Body(edges, f, v)]
  BY DEF S!depthOf, Body, Total, IsWalk, S!MapThenFoldSet, Parent, Deepened, Into, Begin, Rest

\* The visits of the callers have their results.
Under(edges, g, v) ==
    \A i \in S!calls(edges, v.name), d \in Placings(edges) : g[Into(edges, v, i, d)] \in Founds(edges)

\* The steps of a walk.
Steps(edges, g, v) ==
    [x \in S!calls(edges, v.name) \X Founds(edges) |-> Parent(edges, g, v, x[1], x[2])]

LEMMA StepsAre ==
    ASSUME NEW edges \in EdgeLists, NEW v \in S!Visits(edges), NEW g, Under(edges, g, v)
    PROVE  /\ Steps(edges, g, v) \in [S!calls(edges, v.name) \X Founds(edges) -> Founds(edges)]
           /\ Begin(v) \in Founds(edges)
<1>1. ASSUME NEW i \in S!calls(edges, v.name), NEW acc \in Founds(edges)
      PROVE  Parent(edges, g, v, i, acc) \in Founds(edges)
  <2>1. PICK u \in Founds(edges) : u = g[Into(edges, v, i, acc.depths)]
    BY DEF Under, Founds
  <2>2. u.depth \in Nat /\ acc.depth \in Nat /\ u.depths \in Placings(edges)
    BY DEF Founds
  <2>3. S!Deepest(acc.depth, u.depth + 1) \in Nat
    <3>1. PICK a \in Nat, b \in Nat : a = acc.depth /\ b = u.depth + 1
      BY <2>2
    <3>2. S!Deepest(a, b) \in Nat
      BY DeepestIs
    <3>3. QED BY <3>1, <3>2
  <2>4. QED BY <2>1, <2>2, <2>3 DEF Parent, Deepened, Founds
<1>2. Begin(v) \in Founds(edges)
  BY DEF Begin, Founds, Placings, S!Visits, S!Unplaced
<1>3. QED BY <1>1, <1>2 DEF Steps

\* A walk is the fold of its steps.
LEMMA WalkFolds ==
    ASSUME NEW edges \in EdgeLists, NEW v \in S!Visits(edges), NEW g, Under(edges, g, v),
           NEW h, IsWalk(h, edges, g, v)
    PROVE  FoldsTo(h, S!calls(edges, v.name), Founds(edges), Begin(v), Steps(edges, g, v))
<1> DEFINE I == S!calls(edges, v.name)
<1>1. DOMAIN h = SUBSET I /\ h[{}] = Begin(v)
  BY DEF IsWalk
<1>2. ASSUME NEW s \in SUBSET I, s # {}, h[Rest(s)] \in Founds(edges)
      PROVE  h[s] = Steps(edges, g, v)[<<S!Max(s), h[Rest(s)]>>]
  <2>1. h[s] = Parent(edges, g, v, S!Max(s), h[Rest(s)])
    BY <1>2 DEF IsWalk
  <2>2. S!Max(s) \in I
    BY <1>2, Graph, MaxIsIn, FS_Subset
  <2>3. QED BY <1>2, <2>1, <2>2 DEF Steps
<1>3. QED BY <1>1, <1>2 DEF FoldsTo

\* There is a walk, it is what depthOf takes, and its values are depths.
LEMMA WalkIs ==
    ASSUME NEW edges \in EdgeLists, NEW v \in S!Visits(edges), NEW g, Under(edges, g, v)
    PROVE  \E h \in [SUBSET S!calls(edges, v.name) -> Founds(edges)] :
              IsWalk(h, edges, g, v) /\ Total(edges, g, v) = h[S!calls(edges, v.name)]
<1> DEFINE I == S!calls(edges, v.name)
           V == Founds(edges)
<1>1. I \in SUBSET Nat /\ IsFiniteSet(I)
  BY Graph
<1>2. Begin(v) \in V /\ Steps(edges, g, v) \in [I \X V -> V]
  BY StepsAre
<1>3. PICK k \in [SUBSET I -> V] : IsFold(k, I, Begin(v), Steps(edges, g, v))
  <2> HIDE DEF I, V
  <2>1. QED BY <1>1, <1>2, FoldExists
<1>4. IsWalk(k, edges, g, v)
  <2>1. ASSUME NEW s \in SUBSET I, s # {}
        PROVE  k[s] = Parent(edges, g, v, S!Max(s), k[Rest(s)])
    <3>1. S!Max(s) \in I /\ Rest(s) \in SUBSET I
      BY <1>1, <2>1, MaxIsIn, FS_Subset DEF Rest
    <3>2. k[Rest(s)] \in V
      BY <3>1
    <3>3. k[s] = Steps(edges, g, v)[<<S!Max(s), k[Rest(s)]>>]
      BY <1>3, <2>1 DEF IsFold
    <3>4. QED BY <3>1, <3>2, <3>3 DEF Steps
  <2>2. k[{}] = Begin(v)
    BY <1>3 DEF IsFold
  <2>3. k = [s \in SUBSET I |-> k[s]]
    OBVIOUS
  <2>4. QED BY <2>1, <2>2, <2>3 DEF IsWalk
<1>5. PICK h : IsWalk(h, edges, g, v) /\ Total(edges, g, v) = h[I]
  <2>1. IsWalk(CHOOSE h : IsWalk(h, edges, g, v), edges, g, v)
    BY <1>4, Zenon
  <2>2. QED BY <2>1, Zenon DEF Total
<1>6. FoldsTo(h, I, V, Begin(v), Steps(edges, g, v))
  BY <1>5, WalkFolds
<1>7. \A s \in SUBSET I : h[s] \in V
  <2> HIDE DEF I, V
  <2>1. QED BY <1>1, <1>2, <1>6, FoldIs
<1>8. h \in [SUBSET I -> V]
  <2>1. DOMAIN h = SUBSET I /\ h = [s \in SUBSET I |-> h[s]]
    BY <1>5 DEF IsWalk
  <2>2. QED BY <1>7, <2>1
<1>9. QED BY <1>5, <1>8

\* Two functions agree on what a visit needs of them.
Agree(edges, f, g, v) ==
    \A i \in S!calls(edges, v.name), d \in Placings(edges) : f[Into(edges, v, i, d)] = g[Into(edges, v, i, d)]

LEMMA WalkSame ==
    ASSUME NEW edges \in EdgeLists, NEW v \in S!Visits(edges), NEW f, NEW g,
           Under(edges, f, v), Under(edges, g, v), Agree(edges, f, g, v)
    PROVE  Total(edges, f, v) = Total(edges, g, v)
<1> DEFINE I == S!calls(edges, v.name)
           V == Founds(edges)
<1>1. PICK h : IsWalk(h, edges, f, v) /\ Total(edges, f, v) = h[I]
  BY WalkIs
<1>2. PICK k : IsWalk(k, edges, g, v) /\ Total(edges, g, v) = k[I]
  BY WalkIs
<1>3. Steps(edges, f, v) = Steps(edges, g, v)
  <2>1. ASSUME NEW i \in I, NEW acc \in V
        PROVE  Parent(edges, f, v, i, acc) = Parent(edges, g, v, i, acc)
    BY DEF Parent, Agree, Founds
  <2>2. QED BY <2>1 DEF Steps
<1>4. I \in SUBSET Nat /\ IsFiniteSet(I) /\ I \in SUBSET I
  BY Graph
<1>5. Begin(v) \in V /\ Steps(edges, f, v) \in [I \X V -> V]
  BY StepsAre
<1>6. FoldsTo(h, I, V, Begin(v), Steps(edges, f, v)) /\ FoldsTo(k, I, V, Begin(v), Steps(edges, f, v))
  BY <1>1, <1>2, <1>3, WalkFolds
<1>7. h[I] = k[I]
  <2> HIDE DEF I, V
  <2>1. \A s \in SUBSET I : h[s] \in V /\ h[s] = k[s]
    BY <1>4, <1>5, <1>6, FoldIs
  <2>2. QED BY <2>1
<1>8. QED BY <1>1, <1>2, <1>7

\* What a visit gives is depths.
LEMMA BodyIs ==
    ASSUME NEW edges \in EdgeLists, NEW v \in S!Visits(edges), NEW g, Cut(v) \/ Under(edges, g, v)
    PROVE  Body(edges, g, v) \in Founds(edges)
<1>1. v.depths \in Placings(edges) /\ v.name \in S!Nodes(edges)
  BY DEF S!Visits, Placings, S!Unplaced
<1>2. CASE Cut(v)
  BY <1>1, <1>2 DEF Body, Cut, Founds, Placings, Begin, S!Unplaced
<1>3. CASE ~Cut(v) /\ Under(edges, g, v)
  <2>1. PICK all \in Founds(edges) : all = Total(edges, g, v)
    <3>1. PICK h \in [SUBSET S!calls(edges, v.name) -> Founds(edges)] :
             Total(edges, g, v) = h[S!calls(edges, v.name)]
      BY <1>3, WalkIs
    <3>2. QED BY <3>1
  <2>2. Body(edges, g, v) = [depths |-> [all.depths EXCEPT ![v.name] = all.depth], depth |-> all.depth]
    BY <1>3, <2>1 DEF Body, Cut
  <2>3. QED BY <1>1, <2>2 DEF Founds, Placings
<1>4. QED BY <1>2, <1>3

\* How many services are not on the path.
Level(edges, v) == Cardinality(S!Nodes(edges) \ v.path)

\* The path of the visits of the callers is longer.
LEMMA Deeper ==
    ASSUME NEW edges \in EdgeLists, NEW v \in S!Visits(edges), ~Cut(v)
    PROVE  /\ Level(edges, v) \in Nat
           /\ \A i \in S!calls(edges, v.name), d \in Placings(edges) :
                 Into(edges, v, i, d) \in S!Visits(edges) /\ Level(edges, Into(edges, v, i, d)) < Level(edges, v)
<1>1. v.name \in S!Nodes(edges) /\ v.name \notin v.path /\ v.path \subseteq S!Nodes(edges)
  BY DEF S!Visits, Cut
<1>2. IsFiniteSet(S!Nodes(edges) \ v.path) /\ Level(edges, v) \in Nat
  BY Graph, FS_Subset, FS_CardinalityType DEF Level
<1>3. ASSUME NEW i \in S!calls(edges, v.name), NEW d \in Placings(edges)
      PROVE  Into(edges, v, i, d) \in S!Visits(edges) /\ Level(edges, Into(edges, v, i, d)) < Level(edges, v)
  <2>1. Into(edges, v, i, d) \in S!Visits(edges)
    BY <1>1, Graph DEF Into, S!Visits, Placings, S!Unplaced
  <2>2. S!Nodes(edges) \ Into(edges, v, i, d).path = (S!Nodes(edges) \ v.path) \ {v.name}
    BY DEF Into
  <2>3. Cardinality((S!Nodes(edges) \ v.path) \ {v.name}) = Cardinality(S!Nodes(edges) \ v.path) - 1
    BY <1>1, <1>2, FS_RemoveElement
  <2>4. QED BY <1>2, <2>1, <2>2, <2>3 DEF Level
<1>4. QED BY <1>2, <1>3

\* g is depthOf on the visits of fewer than n levels.
IsDepthOf(g, edges, n) ==
    \A v \in S!Visits(edges) : Level(edges, v) < n => g[v] \in Founds(edges) /\ g[v] = Body(edges, g, v)

LEMMA LevelIs ==
    ASSUME NEW edges \in EdgeLists, NEW v \in S!Visits(edges)
    PROVE  Level(edges, v) \in Nat /\ Level(edges, v) <= Cardinality(S!Nodes(edges))
  BY Graph, FS_Subset, FS_CardinalityType DEF Level

\* What is depthOf of fewer levels than a visit's gives its callers' results.
LEMMA UnderIs ==
    ASSUME NEW edges \in EdgeLists, NEW n \in Nat, NEW g, IsDepthOf(g, edges, n),
           NEW v \in S!Visits(edges), Level(edges, v) <= n, ~Cut(v)
    PROVE  Under(edges, g, v)
<1>1. ASSUME NEW i \in S!calls(edges, v.name), NEW d \in Placings(edges)
      PROVE  g[Into(edges, v, i, d)] \in Founds(edges)
  <2>1. Into(edges, v, i, d) \in S!Visits(edges) /\ Level(edges, Into(edges, v, i, d)) < Level(edges, v)
    BY Deeper
  <2>2. Level(edges, Into(edges, v, i, d)) < n
    BY <2>1, LevelIs
  <2>3. QED BY <2>1, <2>2 DEF IsDepthOf
<1>2. QED BY <1>1 DEF Under

\* Two such functions are the same on these visits.
LEMMA BodySame ==
    ASSUME NEW edges \in EdgeLists, NEW v \in S!Visits(edges), NEW f, NEW g,
           ~Cut(v) => Under(edges, f, v) /\ Under(edges, g, v) /\ Agree(edges, f, g, v)
    PROVE  Body(edges, f, v) = Body(edges, g, v)
<1>1. CASE Cut(v)
  BY <1>1 DEF Body, Cut
<1>2. CASE ~Cut(v)
  BY <1>2, WalkSame DEF Body
<1>3. QED BY <1>1, <1>2

\* There is a function that is depthOf everywhere.
LEMMA VisitExists ==
    ASSUME NEW edges \in EdgeLists
    PROVE  \E g : g = [v \in S!Visits(edges) |-> Body(edges, g, v)]
<1> DEFINE M == {n \in Nat : \E g : IsDepthOf(g, edges, n)}
<1>1. 0 \in M
  <2>1. IsDepthOf([v \in {} |-> 0], edges, 0)
    BY LevelIs DEF IsDepthOf
  <2>2. QED BY <2>1
<1>2. ASSUME NEW n \in Nat, n \in M
      PROVE  n + 1 \in M
  <2>1. PICK g : IsDepthOf(g, edges, n)
    BY <1>2
  <2>2. PICK f : f = [v \in S!Visits(edges) |-> Body(edges, g, v)]
    OBVIOUS
  <2>3. ASSUME NEW v \in S!Visits(edges), Level(edges, v) < n
        PROVE  f[v] = g[v]
    BY <2>1, <2>2, <2>3 DEF IsDepthOf
  <2>4. ASSUME NEW v \in S!Visits(edges), Level(edges, v) < n + 1
        PROVE  f[v] \in Founds(edges) /\ f[v] = Body(edges, f, v)
    <3>1. Level(edges, v) <= n
      BY <2>4, LevelIs
    <3>2. f[v] = Body(edges, g, v)
      BY <2>2
    <3>3. ~Cut(v) => Under(edges, g, v)
      BY <2>1, <3>1, UnderIs
    <3>4. ASSUME ~Cut(v)
          PROVE  Agree(edges, f, g, v)
      <4>1. ASSUME NEW i \in S!calls(edges, v.name), NEW d \in Placings(edges)
            PROVE  f[Into(edges, v, i, d)] = g[Into(edges, v, i, d)]
        <5>1. Into(edges, v, i, d) \in S!Visits(edges) /\ Level(edges, Into(edges, v, i, d)) < n
          BY <3>1, <3>4, Deeper, LevelIs
        <5>2. QED BY <2>3, <5>1
      <4>2. QED BY <4>1 DEF Agree
    <3>5. ~Cut(v) => Under(edges, f, v)
      BY <3>3, <3>4 DEF Under, Agree
    <3>6. Body(edges, f, v) = Body(edges, g, v)
      BY <3>3, <3>4, <3>5, BodySame
    <3>7. Body(edges, g, v) \in Founds(edges)
      BY <3>3, BodyIs
    <3>8. QED BY <3>2, <3>6, <3>7
  <2>5. IsDepthOf(f, edges, n + 1)
    BY <2>4 DEF IsDepthOf
  <2>6. QED BY <2>5
<1>3. Nat \subseteq M
  <2> HIDE DEF M
  <2>1. QED BY <1>1, <1>2, Climb
<1>4. Cardinality(S!Nodes(edges)) + 1 \in Nat
  BY Graph, FS_CardinalityType
<1>5. PICK g : IsDepthOf(g, edges, Cardinality(S!Nodes(edges)) + 1)
  BY <1>3, <1>4
<1>6. \A v \in S!Visits(edges) : Level(edges, v) < Cardinality(S!Nodes(edges)) + 1
  <2>1. \A v \in S!Visits(edges) : Level(edges, v) \in Nat /\ Level(edges, v) <= Cardinality(S!Nodes(edges))
    BY LevelIs
  <2>2. Cardinality(S!Nodes(edges)) \in Nat
    BY Graph, FS_CardinalityType
  <2>3. QED BY <2>1, <2>2
<1>7. PICK f : f = [v \in S!Visits(edges) |-> g[v]]
  OBVIOUS
<1>8. \A v \in S!Visits(edges) : f[v] \in Founds(edges) /\ f[v] = g[v]
  BY <1>5, <1>6, <1>7 DEF IsDepthOf
<1>9. ASSUME NEW v \in S!Visits(edges)
      PROVE  f[v] = Body(edges, f, v)
  <2>1. ~Cut(v) => Under(edges, g, v)
    BY <1>4, <1>5, <1>6, UnderIs, LevelIs
  <2>2. ~Cut(v) => Agree(edges, f, g, v)
    BY <1>8, Deeper DEF Agree
  <2>3. ~Cut(v) => Under(edges, f, v)
    BY <2>1, <2>2 DEF Under, Agree
  <2>4. Body(edges, f, v) = Body(edges, g, v)
    BY <2>1, <2>2, <2>3, BodySame
  <2>5. QED BY <1>5, <1>6, <1>8, <2>4 DEF IsDepthOf
<1>10. f = [v \in S!Visits(edges) |-> Body(edges, f, v)]
  BY <1>7, <1>9
<1>11. QED BY <1>10

\* depthOf is that function, and gives depths.
LEMMA VisitIs ==
    ASSUME NEW edges \in EdgeLists, NEW v \in S!Visits(edges)
    PROVE  /\ S!depthOf(edges)[v] \in Founds(edges)
           /\ S!depthOf(edges)[v] = Body(edges, S!depthOf(edges), v)
           /\ ~Cut(v) => Under(edges, S!depthOf(edges), v)
<1> DEFINE IsIt(g) == g = [w \in S!Visits(edges) |-> Body(edges, g, w)]
<1>1. \E g : IsIt(g)
  BY VisitExists
<1>2. PICK f : f = S!depthOf(edges) /\ IsIt(f)
  <2>1. S!depthOf(edges) = CHOOSE g : IsIt(g)
    BY DepthOfIs
  <2> HIDE DEF IsIt
  <2>2. IsIt(CHOOSE g : IsIt(g))
    BY <1>1, Zenon
  <2>3. QED BY <2>1, <2>2, Zenon
<1>3. \A w \in S!Visits(edges) : f[w] = Body(edges, f, w)
  BY <1>2
<1> DEFINE M == {n \in Nat : IsDepthOf(f, edges, n)}
<1> HIDE DEF IsIt
<1>4. 0 \in M
  BY LevelIs DEF IsDepthOf
<1>5. ASSUME NEW n \in Nat, n \in M
      PROVE  n + 1 \in M
  <2>1. ASSUME NEW w \in S!Visits(edges), Level(edges, w) < n + 1
        PROVE  f[w] \in Founds(edges)
    <3>1. Level(edges, w) <= n
      BY <2>1, LevelIs
    <3>2. Cut(w) \/ Under(edges, f, w)
      BY <1>5, <3>1, UnderIs
    <3>3. QED BY <1>3, <3>2, BodyIs
  <2>2. QED BY <1>3, <2>1 DEF IsDepthOf
<1>6. Nat \subseteq M
  <2> HIDE DEF M
  <2>1. QED BY <1>4, <1>5, Climb
<1>7. Level(edges, v) \in Nat /\ Level(edges, v) + 1 \in Nat /\ Level(edges, v) < Level(edges, v) + 1
  BY LevelIs
<1>8. IsDepthOf(f, edges, Level(edges, v) + 1) /\ IsDepthOf(f, edges, Level(edges, v))
  BY <1>6, <1>7
<1>9. f[v] \in Founds(edges) /\ f[v] = Body(edges, f, v)
  BY <1>7, <1>8 DEF IsDepthOf
<1>10. ~Cut(v) => Under(edges, f, v)
  BY <1>7, <1>8, UnderIs
<1>11. QED BY <1>2, <1>9, <1>10
-------------------------------------------------------------------------------
(***************************************************************************)
(* What a visit does.                                                      *)
(***************************************************************************)

\* Who is above a service: its callers, theirs, and all that is above one of them.
LEMMA AboveIs ==
    ASSUME NEW edges \in EdgeLists, NEW name
    PROVE  /\ S!callers(edges, name) \subseteq S!Above(edges, name)
           /\ \A m \in S!Above(edges, name) : /\ S!callers(edges, m) \subseteq S!Above(edges, name)
                                              /\ S!Above(edges, m) \subseteq S!Above(edges, name)
<1> DEFINE Closed(n) == {s \in SUBSET S!Nodes(edges) :
                           S!callers(edges, n) \subseteq s /\ \A m \in s : S!callers(edges, m) \subseteq s}
<1>1. \A n : S!Above(edges, n) = {m \in S!Nodes(edges) : \A s \in Closed(n) : m \in s}
  BY DEF S!Above
<1>2. \A n : S!callers(edges, n) \subseteq S!Nodes(edges)
  BY Graph
<1>3. ASSUME NEW m \in S!Above(edges, name)
      PROVE  S!callers(edges, m) \subseteq S!Above(edges, name) /\ S!Above(edges, m) \subseteq S!Above(edges, name)
  <2>1. ASSUME NEW s \in Closed(name)
        PROVE  S!callers(edges, m) \subseteq s /\ s \in Closed(m)
    BY <1>1, <1>3
  <2> HIDE DEF Closed
  <2>2. S!callers(edges, m) \subseteq S!Above(edges, name)
    BY <1>1, <1>2, <2>1
  <2>3. S!Above(edges, m) \subseteq S!Above(edges, name)
    BY <1>1, <2>1
  <2>4. QED BY <2>2, <2>3
<1>4. S!callers(edges, name) \subseteq S!Above(edges, name)
  BY <1>1, <1>2
<1>5. QED BY <1>3, <1>4

\* A service one column right of the deepest of its callers, all of them placed.
RightOf(edges, depths, n) ==
    /\ \A c \in S!callers(edges, n) : depths[c] # -1 /\ depths[n] >= depths[c] + 1
    /\ depths[n] = 0 \/ \E c \in S!callers(edges, n) : depths[n] = depths[c] + 1

\* So is every service that is placed and on no cycle.
Good(edges, depths) ==
    \A n \in S!Nodes(edges) : depths[n] # -1 /\ ~S!OnCycle(edges, n) => RightOf(edges, depths, n)

\* A placed service is never moved.
Stays(edges, from, to) == \A n \in S!Nodes(edges) : from[n] # -1 => to[n] = from[n]

\* The service visited is above all that are on the path.
Sound(edges, v) == Good(edges, v.depths) /\ \A p \in v.path : v.name \in S!Above(edges, p)

\* What the visit v makes of it.
Does(edges, v, r) ==
    /\ Stays(edges, v.depths, r.depths)
    /\ \A n \in v.path : r.depths[n] = v.depths[n]
    /\ v.name \notin v.path => r.depths[v.name] = r.depth
    /\ Sound(edges, v) => Good(edges, r.depths)

\* What has been done after the calls s.
SoFar(edges, v, s, acc) ==
    /\ Stays(edges, v.depths, acc.depths)
    /\ \A n \in v.path \cup {v.name} : acc.depths[n] = v.depths[n]
    /\ Sound(edges, v) => Good(edges, acc.depths)
    /\ Sound(edges, v) /\ ~S!OnCycle(edges, v.name) =>
         /\ \A i \in s : acc.depths[edges[i].source] # -1 /\ acc.depth >= acc.depths[edges[i].source] + 1
         /\ acc.depth = 0 \/ \E i \in s : acc.depth = acc.depths[edges[i].source] + 1

\* One more call.
LEMMA OneMore ==
    ASSUME NEW edges \in EdgeLists, NEW v \in S!Visits(edges), ~Cut(v),
           NEW i \in S!calls(edges, v.name), NEW s \in SUBSET S!calls(edges, v.name),
           NEW acc \in Founds(edges), SoFar(edges, v, s, acc),
           NEW u \in Founds(edges), Does(edges, Into(edges, v, i, acc.depths), u)
    PROVE  SoFar(edges, v, s \cup {i}, Deepened(acc, u))
<1>1. PICK src \in S!Nodes(edges) : src = edges[i].source /\ src \in S!callers(edges, v.name)
  BY Graph
<1>2. PICK w : /\ w = Into(edges, v, i, acc.depths) /\ w.depths = acc.depths /\ w.name = src
               /\ w.path = v.path \cup {v.name}
  BY <1>1 DEF Into
<1>3. v.name \in S!Nodes(edges) /\ v.path \subseteq S!Nodes(edges)
  BY DEF S!Visits
<1>4. Does(edges, w, u)
  BY <1>2
<1>5. Stays(edges, v.depths, u.depths)
  BY <1>2, <1>4 DEF SoFar, Does, Stays
<1>6. \A n \in v.path \cup {v.name} : u.depths[n] = v.depths[n]
  BY <1>2, <1>4 DEF SoFar, Does
<1>7. ASSUME Sound(edges, v)
      PROVE  Sound(edges, w)
  <2>1. Good(edges, w.depths)
    BY <1>2, <1>7 DEF SoFar
  <2>2. \A p \in v.path \cup {v.name} : src \in S!Above(edges, p)
    BY <1>1, <1>7, AboveIs DEF Sound
  <2>3. QED BY <1>2, <2>1, <2>2 DEF Sound
<1>8. Sound(edges, v) => Good(edges, u.depths)
  BY <1>4, <1>7 DEF Does
<1>9. ASSUME Sound(edges, v), ~S!OnCycle(edges, v.name)
      PROVE  u.depths[src] = u.depth
  <2>1. src \in S!Above(edges, v.name) /\ S!Above(edges, src) \subseteq S!Above(edges, v.name)
    BY <1>1, AboveIs
  <2>2. src \notin w.path
    BY <1>2, <1>9, <2>1 DEF Sound, S!OnCycle
  <2>3. QED BY <1>2, <1>4, <2>2 DEF Does
<1>10. PICK a \in Nat, b \in Nat : a = acc.depth /\ b = u.depth
  BY DEF Founds
<1>11. PICK d \in Nat : d = S!Deepest(a, b + 1) /\ d >= a /\ d >= b + 1 /\ (d = a \/ d = b + 1)
  <2>1. PICK e \in Nat : e = b + 1
    OBVIOUS
  <2>2. /\ S!Deepest(a, e) \in Nat /\ S!Deepest(a, e) >= a /\ S!Deepest(a, e) >= e
        /\ S!Deepest(a, e) = a \/ S!Deepest(a, e) = e
    BY DeepestIs
  <2>3. QED BY <2>1, <2>2
<1>12. ASSUME Sound(edges, v), ~S!OnCycle(edges, v.name)
       PROVE  /\ \A j \in s \cup {i} : u.depths[edges[j].source] # -1 /\ d >= u.depths[edges[j].source] + 1
              /\ d = 0 \/ \E j \in s \cup {i} : d = u.depths[edges[j].source] + 1
  <2>1. \A j \in s : edges[j].source \in S!Nodes(edges) /\ acc.depths[edges[j].source] \in Nat \cup {-1}
    BY Graph DEF Founds, Placings
  <2>2. \A j \in s : acc.depths[edges[j].source] # -1 /\ a >= acc.depths[edges[j].source] + 1
    BY <1>10, <1>12 DEF SoFar
  <2>3. \A j \in s : u.depths[edges[j].source] = acc.depths[edges[j].source]
    BY <1>2, <1>4, <2>1, <2>2 DEF Does, Stays
  <2>4. u.depths[edges[i].source] = b
    BY <1>1, <1>9, <1>10, <1>12
  <2>5. \A j \in s \cup {i} : u.depths[edges[j].source] # -1 /\ d >= u.depths[edges[j].source] + 1
    BY <1>11, <2>1, <2>2, <2>3, <2>4
  <2>6. a = 0 \/ \E j \in s : a = acc.depths[edges[j].source] + 1
    BY <1>10, <1>12 DEF SoFar
  <2>7. d = 0 \/ \E j \in s \cup {i} : d = u.depths[edges[j].source] + 1
    <3>1. CASE d = b + 1
      BY <2>4, <3>1
    <3>2. CASE d = a
      BY <2>3, <2>6, <3>2
    <3>3. QED BY <1>11, <3>1, <3>2
  <2>8. QED BY <2>5, <2>7
<1>13. PICK f : f = Deepened(acc, u)
  OBVIOUS
<1>14. f.depths = u.depths /\ f.depth = d
  BY <1>10, <1>11, <1>13 DEF Deepened
<1>15. SoFar(edges, v, s \cup {i}, f)
  BY <1>5, <1>6, <1>8, <1>12, <1>14 DEF SoFar
<1>16. QED BY <1>13, <1>15

\* The service itself is placed last.
LEMMA Place ==
    ASSUME NEW edges \in EdgeLists, NEW v \in S!Visits(edges), ~Cut(v), NEW acc \in Founds(edges),
           SoFar(edges, v, S!calls(edges, v.name), acc),
           NEW r, r = [depths |-> [acc.depths EXCEPT ![v.name] = acc.depth], depth |-> acc.depth]
    PROVE  Does(edges, v, r)
<1>1. /\ v.name \in S!Nodes(edges) /\ v.name \notin v.path /\ v.path \subseteq S!Nodes(edges)
      /\ v.depths[v.name] = -1
  BY DEF S!Visits, Cut, S!Unplaced
<1>2. /\ acc.depths \in Placings(edges) /\ acc.depth \in Nat /\ acc.depths[v.name] = -1
  BY <1>1 DEF Founds, SoFar
<1>3. PICK d : d = r.depths /\ d[v.name] = acc.depth /\ \A n \in S!Nodes(edges) \ {v.name} : d[n] = acc.depths[n]
  BY <1>1, <1>2 DEF Placings
<1>4. Stays(edges, v.depths, d)
  BY <1>1, <1>3 DEF SoFar, Stays
<1>5. \A n \in v.path : d[n] = v.depths[n]
  BY <1>1, <1>3 DEF SoFar
<1>6. ASSUME Sound(edges, v), NEW n \in S!Nodes(edges), d[n] # -1, ~S!OnCycle(edges, n)
      PROVE  RightOf(edges, d, n)
  <2>1. CASE n # v.name
    <3>1. RightOf(edges, acc.depths, n)
      BY <1>3, <1>6, <2>1 DEF SoFar, Good
    <3>2. \A c \in S!callers(edges, n) : acc.depths[c] # -1 /\ c # v.name /\ d[c] = acc.depths[c]
      BY <1>2, <1>3, <3>1, Graph DEF RightOf
    <3>3. d[n] = acc.depths[n]
      BY <1>3, <2>1
    <3>4. QED BY <3>1, <3>2, <3>3 DEF RightOf
  <2>2. CASE n = v.name
    <3>1. /\ \A i \in S!calls(edges, n) : /\ acc.depths[edges[i].source] # -1
                                          /\ acc.depth >= acc.depths[edges[i].source] + 1
          /\ acc.depth = 0 \/ \E i \in S!calls(edges, n) : acc.depth = acc.depths[edges[i].source] + 1
      BY <1>6, <2>2 DEF SoFar
    <3>2. /\ \A c \in S!callers(edges, n) : acc.depths[c] # -1 /\ acc.depth >= acc.depths[c] + 1
          /\ acc.depth = 0 \/ \E c \in S!callers(edges, n) : acc.depth = acc.depths[c] + 1
      BY <3>1, Graph
    <3>3. \A c \in S!callers(edges, n) : c # v.name /\ d[c] = acc.depths[c]
      BY <1>2, <1>3, <3>2, Graph
    <3>4. d[n] = acc.depth
      BY <1>3, <2>2
    <3>5. QED BY <3>2, <3>3, <3>4 DEF RightOf
  <2>3. QED BY <2>1, <2>2
<1>7. Sound(edges, v) => Good(edges, d)
  BY <1>6 DEF Good
<1>8. r.depth = acc.depth
  OBVIOUS
<1>9. QED BY <1>3, <1>4, <1>5, <1>7, <1>8 DEF Does

\* Every visit does what it should, by induction over the services that are not on its path.
LEMMA VisitDoes ==
    ASSUME NEW edges \in EdgeLists, NEW v \in S!Visits(edges)
    PROVE  Does(edges, v, S!depthOf(edges)[v])
<1> DEFINE f == S!depthOf(edges)
           M == {n \in Nat : \A w \in S!Visits(edges) : Level(edges, w) < n => Does(edges, w, f[w])}
<1>1. 0 \in M
  BY LevelIs
<1>2. ASSUME NEW n \in Nat, n \in M, NEW w \in S!Visits(edges), Level(edges, w) < n + 1
      PROVE  Does(edges, w, f[w])
  <2> HIDE DEF f
  <2>1. f[w] = Body(edges, f, w) /\ f[w] \in Founds(edges) /\ (~Cut(w) => Under(edges, f, w))
    BY VisitIs DEF f
  <2>2. CASE w.depths[w.name] # S!Unplaced
    <3>1. f[w].depths = w.depths /\ f[w].depth = w.depths[w.name]
      BY <2>1, <2>2 DEF Body
    <3>2. QED BY <3>1 DEF Does, Stays, Sound
  <2>3. CASE w.depths[w.name] = S!Unplaced /\ w.name \in w.path
    <3>1. f[w].depths = w.depths
      BY <2>1, <2>3 DEF Body, Begin
    <3>2. QED BY <2>3, <3>1 DEF Does, Stays, Sound
  <2>4. CASE ~Cut(w)
    <3> DEFINE I == S!calls(edges, w.name)
    <3>1. PICK h \in [SUBSET I -> Founds(edges)] : IsWalk(h, edges, f, w) /\ Total(edges, f, w) = h[I]
      BY <2>1, <2>4, WalkIs
    <3>2. I \in SUBSET Nat /\ IsFiniteSet(I)
      BY Graph
    <3> DEFINE Q == {s \in SUBSET I : SoFar(edges, w, s, h[s])}
    <3>3. {} \in Q
      <4>1. h[{}].depths = w.depths /\ h[{}].depth = 0
        BY <3>1 DEF IsWalk, Begin
      <4>2. QED BY <4>1 DEF SoFar, Stays, Sound
    <3>4. ASSUME NEW s \in SUBSET I, s # {}, \A x \in s : s \ {x} \in Q
          PROVE  s \in Q
      <4>1. PICK i \in I : i = S!Max(s) /\ i \in s
        BY <3>2, <3>4, MaxIsIn, FS_Subset
      <4>2. PICK t \in SUBSET I : t = Rest(s) /\ t \in Q /\ s = t \cup {i}
        <5>1. Rest(s) = s \ {i} /\ s \ {i} \in Q /\ s = (s \ {i}) \cup {i} /\ s \ {i} \in SUBSET I
          <6> HIDE DEF Q, I
          <6>1. QED BY <3>4, <4>1 DEF Rest
        <5> HIDE DEF Q, I
        <5>2. QED BY <5>1
      <4>3. PICK acc \in Founds(edges) : acc = h[t] /\ SoFar(edges, w, t, acc)
        BY <4>2
      <4>4. PICK x \in S!Visits(edges) : x = Into(edges, w, i, acc.depths) /\ Level(edges, x) < Level(edges, w)
        <5>1. acc.depths \in Placings(edges)
          BY DEF Founds
        <5>2. QED BY <2>4, <5>1, Deeper
      <4>5. Level(edges, x) < n
        BY <1>2, <4>4, LevelIs
      <4>6. Does(edges, x, f[x])
        BY <1>2, <4>5
      <4>7. f[x] \in Founds(edges)
        BY VisitIs DEF f
      <4>8. SoFar(edges, w, t \cup {i}, Deepened(acc, f[x]))
        BY <2>4, <4>3, <4>4, <4>6, <4>7, OneMore
      <4>9. h[s] = Parent(edges, f, w, i, h[t])
        BY <3>1, <3>4, <4>1, <4>2 DEF IsWalk
      <4>10. h[s] = Deepened(acc, f[x])
        BY <4>3, <4>4, <4>9 DEF Parent
      <4>11. QED BY <4>2, <4>8, <4>10
    <3>5. SUBSET I \subseteq Q
      <4> HIDE DEF Q, I
      <4>1. QED BY <3>2, <3>3, <3>4, SetInduction
    <3>6. PICK acc \in Founds(edges) : acc = h[I] /\ SoFar(edges, w, I, acc)
      BY <3>5
    <3>7. f[w] = [depths |-> [acc.depths EXCEPT ![w.name] = acc.depth], depth |-> acc.depth]
      BY <2>1, <2>4, <3>1, <3>6 DEF Body, Cut
    <3>8. QED BY <2>4, <3>6, <3>7, Place
  <2>5. QED BY <2>2, <2>3, <2>4 DEF Cut
<1>3. Nat \subseteq M
  <2>1. \A n \in Nat : n \in M => n + 1 \in M
    BY <1>2
  <2> HIDE DEF M
  <2>2. QED BY <1>1, <2>1, Climb
<1>4. Level(edges, v) + 1 \in Nat /\ Level(edges, v) < Level(edges, v) + 1
  BY LevelIs
<1>5. QED BY <1>3, <1>4

\* A visit from outside, with an empty path, and the depths after the services s.
Top(d, n) == [depths |-> d, name |-> n, path |-> {}]
Blank(edges) == [n \in S!Nodes(edges) |-> S!Unplaced]
IsVisited(h, edges) ==
    h = [s \in SUBSET S!Nodes(edges) |->
           IF s = {} THEN Blank(edges) ELSE S!depthOf(edges)[Top(h[Rest(s)], S!Max(s))].depths]

LEMMA DepthsAre ==
    ASSUME NEW edges
    PROVE  S!Depths(edges) = (CHOOSE h : IsVisited(h, edges))[S!Nodes(edges)]
  BY DEF S!Depths, S!MapThenFoldSet, IsVisited, Top, Blank, Rest

\* One service visited after another.
Visit(edges) ==
    [x \in S!Nodes(edges) \X Placings(edges) |-> S!depthOf(edges)[Top(x[2], x[1])].depths]

LEMMA VisitType ==
    ASSUME NEW edges \in EdgeLists
    PROVE  /\ Visit(edges) \in [S!Nodes(edges) \X Placings(edges) -> Placings(edges)]
           /\ Blank(edges) \in Placings(edges)
           /\ \A n \in S!Nodes(edges), d \in Placings(edges) : Top(d, n) \in S!Visits(edges)
<1>1. ASSUME NEW n \in S!Nodes(edges), NEW d \in Placings(edges)
      PROVE  Top(d, n) \in S!Visits(edges) /\ S!depthOf(edges)[Top(d, n)].depths \in Placings(edges)
  <2>1. Top(d, n) \in S!Visits(edges)
    BY DEF Top, S!Visits, Placings, S!Unplaced
  <2>2. S!depthOf(edges)[Top(d, n)] \in Founds(edges)
    BY <2>1, VisitIs
  <2>3. QED BY <2>1, <2>2 DEF Founds
<1>2. Blank(edges) \in Placings(edges)
  BY DEF Blank, Placings, S!Unplaced
<1>3. QED BY <1>1, <1>2 DEF Visit

LEMMA VisitedFolds ==
    ASSUME NEW edges \in EdgeLists, NEW h, IsVisited(h, edges)
    PROVE  FoldsTo(h, S!Nodes(edges), Placings(edges), Blank(edges), Visit(edges))
<1>1. DOMAIN h = SUBSET S!Nodes(edges) /\ h[{}] = Blank(edges)
  BY DEF IsVisited
<1>2. ASSUME NEW s \in SUBSET S!Nodes(edges), s # {}, h[Rest(s)] \in Placings(edges)
      PROVE  h[s] = Visit(edges)[<<S!Max(s), h[Rest(s)]>>]
  <2>1. h[s] = S!depthOf(edges)[Top(h[Rest(s)], S!Max(s))].depths
    BY <1>2 DEF IsVisited
  <2>2. S!Max(s) \in S!Nodes(edges)
    BY <1>2, Graph, MaxIsIn, FS_Subset
  <2>3. QED BY <1>2, <2>1, <2>2 DEF Visit
<1>3. QED BY <1>1, <1>2 DEF FoldsTo

LEMMA VisitedIs ==
    ASSUME NEW edges \in EdgeLists
    PROVE  \E h \in [SUBSET S!Nodes(edges) -> Placings(edges)] :
              IsVisited(h, edges) /\ S!Depths(edges) = h[S!Nodes(edges)]
<1> DEFINE I == S!Nodes(edges)
           V == Placings(edges)
<1>1. I \in SUBSET Nat /\ IsFiniteSet(I)
  BY Graph
<1>2. Blank(edges) \in V /\ Visit(edges) \in [I \X V -> V]
  BY VisitType
<1>3. PICK k \in [SUBSET I -> V] : IsFold(k, I, Blank(edges), Visit(edges))
  <2> HIDE DEF I, V
  <2>1. QED BY <1>1, <1>2, FoldExists
<1>4. IsVisited(k, edges)
  <2>1. ASSUME NEW s \in SUBSET I, s # {}
        PROVE  k[s] = S!depthOf(edges)[Top(k[Rest(s)], S!Max(s))].depths
    <3>1. S!Max(s) \in I /\ Rest(s) \in SUBSET I
      BY <1>1, <2>1, MaxIsIn, FS_Subset DEF Rest
    <3>2. k[Rest(s)] \in V
      BY <3>1
    <3>3. k[s] = Visit(edges)[<<S!Max(s), k[Rest(s)]>>]
      BY <1>3, <2>1 DEF IsFold
    <3>4. QED BY <3>1, <3>2, <3>3 DEF Visit
  <2>2. k[{}] = Blank(edges)
    BY <1>3 DEF IsFold
  <2>3. k = [s \in SUBSET I |-> k[s]]
    OBVIOUS
  <2>4. QED BY <2>1, <2>2, <2>3 DEF IsVisited
<1>5. PICK h : IsVisited(h, edges) /\ S!Depths(edges) = h[I]
  <2>1. IsVisited(CHOOSE h : IsVisited(h, edges), edges)
    BY <1>4, Zenon
  <2>2. QED BY <2>1, DepthsAre, Zenon
<1>6. FoldsTo(h, I, V, Blank(edges), Visit(edges))
  BY <1>5, VisitedFolds
<1>7. \A s \in SUBSET I : h[s] \in V
  <2> HIDE DEF I, V
  <2>1. QED BY <1>1, <1>2, <1>6, FoldIs
<1>8. h \in [SUBSET I -> V]
  <2>1. DOMAIN h = SUBSET I /\ h = [s \in SUBSET I |-> h[s]]
    BY <1>5 DEF IsVisited
  <2>2. QED BY <1>7, <2>1
<1>9. QED BY <1>5, <1>8

\* In the end every service is placed, and right of its callers.
LEMMA DepthsAreGood ==
    ASSUME NEW edges \in EdgeLists
    PROVE  S!Depths(edges) \in [S!Nodes(edges) -> Nat] /\ Good(edges, S!Depths(edges))
<1> DEFINE I == S!Nodes(edges)
<1>1. PICK h \in [SUBSET I -> Placings(edges)] : IsVisited(h, edges) /\ S!Depths(edges) = h[I]
  BY VisitedIs
<1>2. I \in SUBSET Nat /\ IsFiniteSet(I)
  BY Graph
<1> DEFINE Q == {s \in SUBSET I : Good(edges, h[s]) /\ \A n \in s : h[s][n] # -1}
<1>3. {} \in Q
  <2>1. h[{}] = Blank(edges)
    BY <1>1 DEF IsVisited
  <2>2. QED BY <2>1 DEF Blank, S!Unplaced, Good
<1>4. ASSUME NEW s \in SUBSET I, s # {}, \A x \in s : s \ {x} \in Q
      PROVE  s \in Q
  <2>1. PICK m \in I : m = S!Max(s) /\ m \in s
    BY <1>2, <1>4, MaxIsIn, FS_Subset
  <2>2. Rest(s) = s \ {m} /\ s \ {m} \in Q /\ s \ {m} \in SUBSET I
    <3> HIDE DEF Q, I
    <3>1. QED BY <1>4, <2>1 DEF Rest
  <2>3. PICK d \in Placings(edges) : d = h[s \ {m}] /\ Good(edges, d) /\ \A n \in s \ {m} : d[n] # -1
    BY <2>2
  <2>4. PICK v \in S!Visits(edges) : v = Top(d, m)
    BY VisitType
  <2>5. PICK r \in Founds(edges) : r = S!depthOf(edges)[v] /\ Does(edges, v, r)
    BY VisitIs, VisitDoes
  <2>6. h[s] = r.depths
    BY <1>1, <1>4, <2>1, <2>2, <2>3, <2>4, <2>5 DEF IsVisited
  <2>7. v.depths = d /\ v.name = m /\ v.path = {}
    BY <2>4 DEF Top
  <2>8. Good(edges, r.depths)
    BY <2>3, <2>5, <2>7 DEF Does, Sound
  <2>9. \A n \in s : r.depths[n] # -1
    <3>1. r.depths[m] = r.depth /\ r.depth \in Nat
      BY <2>5, <2>7 DEF Does, Founds
    <3>2. \A n \in s \ {m} : r.depths[n] = d[n]
      BY <2>3, <2>5, <2>7 DEF Does, Stays
    <3>3. ASSUME NEW n \in s, n # m
          PROVE  r.depths[n] # -1
      BY <2>3, <3>2, <3>3
    <3>4. QED BY <3>1, <3>3
  <2>10. QED BY <2>6, <2>8, <2>9
<1>5. SUBSET I \subseteq Q
  <2> HIDE DEF Q, I
  <2>1. QED BY <1>2, <1>3, <1>4, SetInduction
<1>6. I \in Q
  BY <1>5
<1>7. h[I] \in Placings(edges)
  OBVIOUS
<1>8. QED BY <1>1, <1>6, <1>7 DEF Placings
-------------------------------------------------------------------------------
(***************************************************************************)
(* The drawing.                                                            *)
(***************************************************************************)
\* The number of elements, as the layout counts them.
LEMMA Counted == \A s : S!Cardinality(s) = Cardinality(s)
  BY Zenon DEF S!Cardinality, Cardinality

Column(edges, d) == {n \in S!Nodes(edges) : S!Depths(edges)[n] = d}
Higher(edges, n) == {m \in Column(edges, S!Depths(edges)[n]) : m < n}
Columns(edges) == S!Cardinality(S!Range(S!Depths(edges)))
Tallest(edges) == S!Max({0} \cup {S!Cardinality(Column(edges, d)) : d \in S!Range(S!Depths(edges))})

Placed(edges) ==
    [n \in S!Nodes(edges) |-> [x |-> S!Pad + S!Depths(edges)[n] * (S!NodeW + S!ColGap),
                               y |-> S!Pad + S!Cardinality(Higher(edges, n)) * (S!NodeH + S!RowGap)]]
Width(edges) == S!Pad * 2 + Columns(edges) * S!NodeW + S!Max({0, Columns(edges) - 1}) * S!ColGap
Height(edges) == S!Pad * 2 + Tallest(edges) * S!NodeH + S!Max({0, Tallest(edges) - 1}) * S!RowGap

\* The same with the numbers of the code.
XOf(depth) == 16 + depth * 206
YOf(row) == 16 + row * 48
WidthOf(columns) == 32 + columns * 132 + S!Max({0, columns - 1}) * 74
HeightOf(lines) == 32 + lines * 34 + S!Max({0, lines - 1}) * 14

\* Where a service is drawn, and how large the drawing is.
LEMMA LayoutIs ==
    ASSUME NEW edges, NEW n \in S!Nodes(edges)
    PROVE  /\ S!layout(edges).placed[n].x = XOf(S!Depths(edges)[n])
           /\ S!layout(edges).placed[n].y = YOf(S!Cardinality(Higher(edges, n)))
           /\ S!layout(edges).width = WidthOf(Columns(edges))
           /\ S!layout(edges).height = HeightOf(Tallest(edges))
<1>1. S!layout(edges) = [placed |-> Placed(edges), width |-> Width(edges), height |-> Height(edges)]
  BY Zenon DEF S!layout, Placed, Width, Height, Columns, Tallest, Column, Higher
<1>2. /\ S!layout(edges).placed = Placed(edges) /\ S!layout(edges).width = Width(edges)
      /\ S!layout(edges).height = Height(edges)
  BY <1>1
<1>3. S!Pad = 16 /\ S!NodeW + S!ColGap = 206 /\ S!NodeH + S!RowGap = 48 /\ S!Pad * 2 = 32
  BY DEF S!Pad, S!NodeW, S!ColGap, S!NodeH, S!RowGap
<1>4. Width(edges) = WidthOf(Columns(edges))
  BY <1>3 DEF Width, WidthOf, S!NodeW, S!ColGap
<1>5. Height(edges) = HeightOf(Tallest(edges))
  BY <1>3 DEF Height, HeightOf, S!NodeH, S!RowGap
<1>6. /\ Placed(edges)[n].x = XOf(S!Depths(edges)[n])
      /\ Placed(edges)[n].y = YOf(S!Cardinality(Higher(edges, n)))
  BY <1>3 DEF Placed, XOf, YOf
<1>7. QED BY <1>2, <1>4, <1>5, <1>6

\* A service on no cycle is one column right of its deepest caller.
LEMMA RightX ==
    ASSUME NEW edges \in EdgeLists, NEW n \in S!Nodes(edges), ~S!OnCycle(edges, n)
    PROVE  S!layout(edges).placed[n].x
             = S!Max({S!Pad - S!NodeW - S!ColGap} \cup {S!layout(edges).placed[c].x : c \in S!callers(edges, n)})
               + S!NodeW + S!ColGap
<1>1. PICK depths \in [S!Nodes(edges) -> Nat] : depths = S!Depths(edges) /\ RightOf(edges, depths, n)
  BY DepthsAreGood DEF Good
<1>2. S!callers(edges, n) \subseteq S!Nodes(edges)
  BY Graph
<1> DEFINE Q == {-190} \cup {16 + depths[c] * 206 : c \in S!callers(edges, n)}
<1>3. {S!Pad - S!NodeW - S!ColGap} \cup {S!layout(edges).placed[c].x : c \in S!callers(edges, n)} = Q
  <2>1. \A c \in S!callers(edges, n) : S!layout(edges).placed[c].x = 16 + depths[c] * 206
    <3>1. \A c \in S!callers(edges, n) : S!layout(edges).placed[c].x = XOf(depths[c])
      BY <1>1, <1>2, LayoutIs
    <3>2. QED BY <3>1 DEF XOf
  <2>2. S!Pad - S!NodeW - S!ColGap = -190
    BY DEF S!Pad, S!NodeW, S!ColGap
  <2>3. QED BY <2>1, <2>2
<1>4. PICK m \in Int : m = depths[n] * 206 - 190
  OBVIOUS
<1>5. Q \in SUBSET Int
  BY <1>1, <1>2
<1>6. \A y \in Q : m >= y
  <2>1. m >= -190
    BY <1>1, <1>4
  <2>2. ASSUME NEW c \in S!callers(edges, n)
        PROVE  m >= 16 + depths[c] * 206
    BY <1>1, <1>2, <1>4 DEF RightOf
  <2>3. QED BY <2>1, <2>2
<1>7. m \in Q
  <2>1. CASE depths[n] = 0
    BY <1>4, <2>1
  <2>2. CASE \E c \in S!callers(edges, n) : depths[n] = depths[c] + 1
    <3>1. PICK c \in S!callers(edges, n) : depths[n] = depths[c] + 1
      BY <2>2
    <3>2. depths[c] \in Nat
      BY <1>2
    <3>3. m = 16 + depths[c] * 206
      BY <1>4, <3>1, <3>2
    <3>4. QED BY <3>3
  <2>3. QED BY <1>1, <2>1, <2>2 DEF RightOf
<1>8. S!Max(Q) = m
  <2> HIDE DEF Q
  <2>1. QED BY <1>5, <1>6, <1>7, MaxIs
<1>9. S!layout(edges).placed[n].x = 16 + depths[n] * 206
  <2>1. S!layout(edges).placed[n].x = XOf(depths[n])
    BY <1>1, LayoutIs
  <2>2. QED BY <2>1 DEF XOf
<1>10. m + S!NodeW + S!ColGap = 16 + depths[n] * 206
  BY <1>1, <1>4 DEF S!NodeW, S!ColGap
<1>11. QED BY <1>3, <1>8, <1>9, <1>10

\* A column and what is above a service in it are finite.
LEMMA ColumnIs ==
    ASSUME NEW edges \in EdgeLists, NEW n \in S!Nodes(edges)
    PROVE  /\ S!Cardinality(Higher(edges, n)) \in Nat
           /\ S!Cardinality(Column(edges, S!Depths(edges)[n])) \in Nat
           /\ S!Cardinality(Higher(edges, n)) < S!Cardinality(Column(edges, S!Depths(edges)[n]))
           /\ \A d : /\ S!Cardinality(Column(edges, d)) \in Nat
                     /\ S!Cardinality(Column(edges, d)) <= Cardinality(S!Nodes(edges))
<1>1. IsFiniteSet(S!Nodes(edges)) /\ S!Nodes(edges) \in SUBSET Nat
  BY Graph
<1>2. \A d : Column(edges, d) \in SUBSET S!Nodes(edges)
  BY DEF Column
<1>3. \A d : /\ IsFiniteSet(Column(edges, d)) /\ Cardinality(Column(edges, d)) \in Nat
             /\ Cardinality(Column(edges, d)) <= Cardinality(S!Nodes(edges))
  BY <1>1, <1>2, FS_Subset, FS_CardinalityType
<1>4. PICK col : col = Column(edges, S!Depths(edges)[n]) /\ IsFiniteSet(col)
  BY <1>3
<1>5. PICK high \in SUBSET col : high = Higher(edges, n) /\ n \in col /\ n \notin high
  <2>1. Higher(edges, n) \in SUBSET col /\ n \in col
    BY <1>4 DEF Higher, Column
  <2>2. n \notin Higher(edges, n)
    BY <1>1 DEF Higher
  <2>3. QED BY <2>1, <2>2
<1>6. /\ Cardinality(high) \in Nat /\ Cardinality(col) \in Nat /\ Cardinality(high) <= Cardinality(col)
      /\ Cardinality(high) # Cardinality(col)
  BY <1>4, <1>5, FS_Subset, FS_CardinalityType
<1>7. Cardinality(high) < Cardinality(col)
  BY <1>6
<1>8. QED BY <1>3, <1>4, <1>5, <1>6, <1>7, Counted

\* The lower of two in a column has more above it.
LEMMA Lower ==
    ASSUME NEW edges \in EdgeLists, NEW m \in S!Nodes(edges), NEW n \in S!Nodes(edges),
           m < n, S!Depths(edges)[m] = S!Depths(edges)[n]
    PROVE  S!Cardinality(Higher(edges, m)) # S!Cardinality(Higher(edges, n))
<1>1. IsFiniteSet(S!Nodes(edges)) /\ S!Nodes(edges) \in SUBSET Nat
  BY Graph
<1>2. PICK a : a = Higher(edges, m)
  OBVIOUS
<1>3. PICK b : b = Higher(edges, n)
  OBVIOUS
<1>4. b \in SUBSET S!Nodes(edges)
  BY <1>3 DEF Higher, Column
<1>5. a \in SUBSET b /\ m \in b /\ m \notin a
  BY <1>1, <1>2, <1>3 DEF Higher, Column
<1>6. Cardinality(a) # Cardinality(b)
  BY <1>1, <1>4, <1>5, FS_Subset
<1>7. QED BY <1>2, <1>3, <1>6, Counted

\* No two services are drawn on one place.
LEMMA Apart ==
    ASSUME NEW edges \in EdgeLists, NEW m \in S!Nodes(edges), NEW n \in S!Nodes(edges), m # n
    PROVE  S!layout(edges).placed[m] # S!layout(edges).placed[n]
<1>1. SUFFICES ASSUME S!layout(edges).placed[m] = S!layout(edges).placed[n]
               PROVE  FALSE
  OBVIOUS
<1>2. PICK depths \in [S!Nodes(edges) -> Nat] : depths = S!Depths(edges)
  BY DepthsAreGood
<1>3. PICK a \in Nat, b \in Nat : a = S!Cardinality(Higher(edges, m)) /\ b = S!Cardinality(Higher(edges, n))
  BY ColumnIs
<1>4. XOf(depths[m]) = XOf(depths[n]) /\ YOf(a) = YOf(b)
  BY <1>1, <1>2, <1>3, LayoutIs
<1>5. depths[m] = depths[n] /\ a = b
  BY <1>4 DEF XOf, YOf
<1>6. m < n \/ n < m
  BY Graph
<1>7. QED BY <1>2, <1>3, <1>5, <1>6, Lower

\* Without cycles the columns up to a service are all there.
LEMMA NoGap ==
    ASSUME NEW edges \in EdgeLists, \A n \in S!Nodes(edges) : ~S!OnCycle(edges, n),
           NEW n \in S!Nodes(edges)
    PROVE  S!Depths(edges)[n] \in Nat /\ 0..S!Depths(edges)[n] \subseteq S!Range(S!Depths(edges))
<1>1. PICK depths \in [S!Nodes(edges) -> Nat] : depths = S!Depths(edges) /\ Good(edges, depths)
  BY DepthsAreGood
<1> DEFINE Cols == S!Range(depths)
           M == {k \in Nat : \A m \in S!Nodes(edges) : depths[m] = k => 0..k \subseteq Cols}
<1>2. \A m \in S!Nodes(edges) : depths[m] \in Cols
  BY DEF S!Range
<1>3. 0 \in M
  BY <1>2
<1>4. ASSUME NEW k \in Nat, k \in M
      PROVE  k + 1 \in M
  <2>1. ASSUME NEW m \in S!Nodes(edges), depths[m] = k + 1
        PROVE  0..(k + 1) \subseteq Cols
    <3>1. RightOf(edges, depths, m)
      BY <1>1, <2>1 DEF Good
    <3>2. PICK c \in S!callers(edges, m) : depths[m] = depths[c] + 1
      BY <2>1, <3>1 DEF RightOf
    <3>3. c \in S!Nodes(edges) /\ depths[c] = k
      BY <2>1, <3>2, Graph
    <3>4. 0..k \subseteq Cols
      BY <1>4, <3>3
    <3>5. k + 1 \in Cols
      BY <1>2, <2>1
    <3>6. 0..(k + 1) = (0..k) \cup {k + 1}
      OBVIOUS
    <3>7. QED BY <3>4, <3>5, <3>6
  <2>2. QED BY <2>1
<1>5. Nat \subseteq M
  <2> HIDE DEF M
  <2>1. QED BY <1>3, <1>4, Climb
<1>6. depths[n] \in M
  BY <1>5
<1>7. QED BY <1>1, <1>6

\* Without cycles every service is inside the drawing.
LEMMA Inside ==
    ASSUME NEW edges \in EdgeLists, \A n \in S!Nodes(edges) : ~S!OnCycle(edges, n),
           NEW n \in S!Nodes(edges)
    PROVE  /\ S!layout(edges).placed[n].x + S!NodeW + S!Pad <= S!layout(edges).width
           /\ S!layout(edges).placed[n].y + S!NodeH + S!Pad <= S!layout(edges).height
<1>1. PICK depths \in [S!Nodes(edges) -> Nat] : depths = S!Depths(edges)
  BY DepthsAreGood
<1>2. PICK d \in Nat : d = depths[n] /\ 0..d \subseteq S!Range(depths)
  BY <1>1, NoGap
<1>3. IsFiniteSet(S!Range(depths)) /\ Columns(edges) = Cardinality(S!Range(depths))
  <2>1. IsFiniteSet({depths[x] : x \in S!Nodes(edges)})
    BY Graph, ImageIsFinite
  <2>2. S!Range(depths) = {depths[x] : x \in S!Nodes(edges)}
    BY DEF S!Range
  <2>3. QED BY <1>1, <2>1, <2>2, Counted DEF Columns
<1>4. Columns(edges) \in Nat /\ Columns(edges) >= d + 1
  <2>1. Cardinality(0..d) = d + 1
    BY FS_Interval
  <2>2. Cardinality(0..d) <= Cardinality(S!Range(depths)) /\ Cardinality(S!Range(depths)) \in Nat
    BY <1>2, <1>3, FS_Subset, FS_CardinalityType
  <2>3. QED BY <1>3, <2>1, <2>2
<1>5. PICK a \in Nat : a = S!Cardinality(Higher(edges, n))
  BY ColumnIs
<1> DEFINE Q == {0} \cup {S!Cardinality(Column(edges, e)) : e \in S!Range(depths)}
<1>6. Q \in SUBSET Nat /\ Q # {} /\ Cardinality(S!Nodes(edges)) \in Nat /\ \A x \in Q : x <= Cardinality(S!Nodes(edges))
  <2>1. Cardinality(S!Nodes(edges)) \in Nat
    BY Graph, FS_CardinalityType
  <2>2. \A e : /\ S!Cardinality(Column(edges, e)) \in Nat
               /\ S!Cardinality(Column(edges, e)) <= Cardinality(S!Nodes(edges))
    BY ColumnIs
  <2>3. QED BY <2>1, <2>2
<1>7. S!Max(Q) \in Q /\ \A y \in Q : S!Max(Q) >= y
  <2> HIDE DEF Q
  <2>1. QED BY <1>6, MaxOfBounded
<1>8. Tallest(edges) = S!Max(Q)
  BY <1>1 DEF Tallest
<1>9. Tallest(edges) \in Nat /\ Tallest(edges) >= a + 1
  <2>1. PICK c \in Nat : c = S!Cardinality(Column(edges, d)) /\ a < c
    BY <1>1, <1>2, <1>5, ColumnIs
  <2>2. c \in Q
    BY <1>2, <2>1 DEF S!Range
  <2>3. S!Max(Q) \in Nat /\ S!Max(Q) >= c
    <3> HIDE DEF Q
    <3>1. QED BY <1>6, <1>7, <2>2
  <2>4. QED BY <1>8, <2>1, <2>3
<1>10. PICK k \in Nat, t \in Nat : k = Columns(edges) /\ t = Tallest(edges)
  BY <1>4, <1>9
<1>11. S!Max({0, k - 1}) = k - 1 /\ S!Max({0, t - 1}) = t - 1
  <2>1. PICK x \in Nat, y \in Nat : x = k - 1 /\ y = t - 1
    BY <1>4, <1>9, <1>10
  <2>2. S!Max({0, x}) = x /\ S!Max({0, y}) = y
    BY MaxIs
  <2>3. QED BY <2>1, <2>2
<1>12. /\ S!layout(edges).placed[n].x = 16 + d * 206 /\ S!layout(edges).placed[n].y = 16 + a * 48
       /\ S!layout(edges).width = 32 + k * 132 + (k - 1) * 74
       /\ S!layout(edges).height = 32 + t * 34 + (t - 1) * 14
  <2>1. /\ S!layout(edges).placed[n].x = XOf(d) /\ S!layout(edges).placed[n].y = YOf(a)
        /\ S!layout(edges).width = WidthOf(k) /\ S!layout(edges).height = HeightOf(t)
    BY <1>1, <1>2, <1>5, <1>10, LayoutIs
  <2>2. XOf(d) = 16 + d * 206 /\ YOf(a) = 16 + a * 48
    BY DEF XOf, YOf
  <2>3. WidthOf(k) = 32 + k * 132 + (k - 1) * 74 /\ HeightOf(t) = 32 + t * 34 + (t - 1) * 14
    BY <1>11 DEF WidthOf, HeightOf
  <2>4. QED BY <2>1, <2>2, <2>3
<1>13. k >= d + 1 /\ t >= a + 1
  BY <1>4, <1>9, <1>10
<1>14. /\ 16 + d * 206 + 132 + 16 <= 32 + k * 132 + (k - 1) * 74
       /\ 16 + a * 48 + 34 + 16 <= 32 + t * 34 + (t - 1) * 14
  BY <1>13
<1>15. QED BY <1>12, <1>14 DEF S!NodeW, S!NodeH, S!Pad
-------------------------------------------------------------------------------
(***************************************************************************)
(* Theorems.                                                               *)
(***************************************************************************)

(* In every state the last listing asked for, the running effect and the   *)
(* last load of the posture are of what is selected, and the only command  *)
(* without its answer is the last.                                         *)
THEOREM InductiveInvariant == Spec => []IInv
<1>1. Init => IInv
  BY FirstWindows
<1>2. IInv /\ [Next]_vars => IInv'
  BY WindowsKeep
<1>3. QED BY <1>1, <1>2, PTL DEF Spec

(* However many commands are given and cleared away, each is in the        *)
(* transcript once, and an answer is put next to its own command           *)
(* (TerminalWindow.tsx:146).                                               *)
THEOREM TranscriptStaysWhole == Spec => []TranscriptIsWhole
<1>1. IInv => TranscriptIsWhole
  <2>1. TInv => [i \in DOMAIN transcript |-> transcript[i].n] = since
    BY DEF TInv
  <2>2. QED BY <2>1 DEF IInv, TInv, TranscriptIsWhole, T!TranscriptIsWhole
<1>2. QED BY <1>1, InductiveInvariant, PTL

(* Path, trail and listing agree after any moves, as long as no older      *)
(* listing comes after the last (FileSystemWindow.tsx:371).                *)
THEOREM WindowStaysInStep == Spec => []WindowAgrees
<1>1. IInv => WindowAgrees
  BY DEF IInv, EInv, WindowAgrees, E!WindowAgrees
<1>2. QED BY <1>1, InductiveInvariant, PTL

(* Whatever is approved twice or answered late, and however discoveries    *)
(* overlap, no step of the wizard waits for what never comes, and no timer *)
(* is left to end another (ApplicationOnboardingModal.tsx:127, 206).       *)
THEOREM WizardNeverSticks == Spec => []WizardGoesOn
<1>1. IInv => WizardGoesOn
  BY DEF IInv, OInv, WizardGoesOn
<1>2. QED BY <1>1, InductiveInvariant, PTL

(* The report, the chart, the detail and the posture shown are of what is  *)
(* selected, and a status is on the finding it was given for, for any      *)
(* number of overlapping loads (ReportsWindow.tsx:81, 112, 122,            *)
(* ServicePanel.tsx:313, SecurityCenterWindow.tsx:199).                    *)
THEOREM SelectionIsShown == Spec => []ShownIsOfTheSelection
<1>1. RInv => R!ReportIsOfTheSelection /\ R!VerdictsAreGiven
  BY DEF RInv, ReportOk, ChartsOk, Chart, Truthful, R!ReportIsOfTheSelection, R!VerdictsAreGiven
<1>2. CInv => C!PostureIsOfTheKey
  BY DEF CInv, Fits, C!PostureIsOfTheKey
<1>3. IInv => ShownIsOfTheSelection
  BY <1>1, <1>2 DEF IInv, SInv, ShownIsOfTheSelection
<1>4. QED BY <1>3, InductiveInvariant, PTL

\* Whatever Jaeger lists, in whatever order, the layout follows the calls: the walk
\* puts each service that is on no cycle one column right of its deepest caller, also
\* when it has remembered columns of a cycle, and no two on one place (ServiceGraph.tsx).
THEOREM LayoutFollowsCalls == \A edges \in EdgeLists : S!FollowsCalls(edges)
<1> TAKE edges \in EdgeLists
<1>1. \A n \in S!Nodes(edges) : ~S!OnCycle(edges, n) =>
        S!layout(edges).placed[n].x
          = S!Max({S!Pad - S!NodeW - S!ColGap} \cup {S!layout(edges).placed[c].x : c \in S!callers(edges, n)})
            + S!NodeW + S!ColGap
  BY RightX
<1>2. \A m, n \in S!Nodes(edges) : m # n => S!layout(edges).placed[m] # S!layout(edges).placed[n]
  BY Apart
<1>3. (\A n \in S!Nodes(edges) : ~S!OnCycle(edges, n)) =>
         \A n \in S!Nodes(edges) : /\ S!layout(edges).placed[n].x + S!NodeW + S!Pad <= S!layout(edges).width
                                   /\ S!layout(edges).placed[n].y + S!NodeH + S!Pad <= S!layout(edges).height
  BY Inside
<1>4. QED BY <1>1, <1>2, <1>3, Zenon DEF S!FollowsCalls

(* The graph shown is drawn right of the callers whatever was listed and   *)
(* however often it was refreshed (ServiceGraph.tsx:26).                   *)
THEOREM ColumnsStayRight == Spec => []ColumnsFollowCalls
<1>1. IInv => ColumnsFollowCalls
  BY LayoutFollowsCalls DEF IInv, GInv, ColumnsFollowCalls, S!ColumnsFollowCalls
<1>2. QED BY <1>1, InductiveInvariant, PTL
=============================================================================
