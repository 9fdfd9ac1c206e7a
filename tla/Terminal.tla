------------------------------ MODULE Terminal ------------------------------
(***************************************************************************)
(* The terminal window of the dashboard: its transcript, and the command   *)
(* the orchestrator is executing.  The commands of one window are numbered *)
(* in the order they are given; number 0 is the banner.                   *)
(***************************************************************************)
EXTENDS Integers, Sequences, SequencesExt

CONSTANT MaxCommands    \* bound: commands given

VARIABLES
    transcript,     \* the entries shown: the command and what became of it
    running,        \* the prompt and the quick commands are disabled
    execs,          \* the commands sent whose answer has not come
    sent,           \* how many commands have been given
    since           \* history: the commands given since the transcript was last empty

vars == <<transcript, running, execs, sent, since>>

Entry(n, out) == [n |-> n, out |-> out]

Fresh ==
    /\ transcript' = <<Entry(0, "shown")>> /\ running' = FALSE /\ execs' = {}
    /\ sent' = 0 /\ since' = <<0>>

Init ==
    /\ transcript = <<Entry(0, "shown")>> /\ running = FALSE /\ execs = {}
    /\ sent = 0 /\ since = <<0>>

-------------------------------------------------------------------------------
\* mutant: the form and the quick commands do not look at running
Idle_Always == sent < MaxCommands

\* The form and the quick commands call executeCommand only while nothing runs.
Idle == ~running /\ sent < MaxCommands

ClearLocally ==
    /\ Idle
    /\ sent' = sent + 1 /\ transcript' = <<>> /\ since' = <<>>
    /\ UNCHANGED <<running, execs>>

\* "eco" and "eios fix-ram" are answered by the desktop itself.
RunEco ==
    /\ Idle
    /\ sent' = sent + 1
    /\ transcript' = Append(transcript, Entry(sent', "shown")) /\ since' = Append(since, sent')
    /\ UNCHANGED <<running, execs>>

Send ==
    /\ Idle
    /\ sent' = sent + 1
    /\ transcript' = Append(transcript, Entry(sent', "pending")) /\ since' = Append(since, sent')
    /\ running' = TRUE /\ execs' = execs \cup {sent'}

\* The last entry becomes the command answered, with its answer.
Replaced(n) == [transcript EXCEPT ![Len(transcript)] = Entry(n, "shown")]

\* An output, whatever its exit code, or an error of the call.
Answered(n) ==
    /\ transcript' = Replaced(n) /\ UNCHANGED since
    /\ running' = FALSE /\ execs' = execs \ {n} /\ UNCHANGED sent

\* __CLEAR__, which the orchestrator answers to "CLEAR": only "clear" is local.
AnsweredClear(n) ==
    /\ transcript' = <<>> /\ since' = <<>>
    /\ running' = FALSE /\ execs' = execs \ {n} /\ UNCHANGED sent

Next == ClearLocally \/ RunEco \/ Send \/ \E n \in execs : Answered(n) \/ AnsweredClear(n)

-------------------------------------------------------------------------------
(* The transcript lists the commands given since it was last cleared, in   *)
(* their order, each once, and the only one without an answer is the last, *)
(* while it runs: executeCommand puts an answer into the last entry        *)
(* whatever command that is (TerminalWindow.tsx:146), so one command must  *)
(* never be given while another runs.                                      *)
TranscriptIsWhole ==
    /\ [i \in DOMAIN transcript |-> transcript[i].n] = since
    /\ \A i \in DOMAIN transcript : transcript[i].out = "pending" => running /\ i = Len(transcript)
=============================================================================
