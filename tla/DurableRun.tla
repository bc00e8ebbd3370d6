------------------------------ MODULE DurableRun ------------------------------
(***************************************************************************)
(* One durable run (packages/durable-run): any number of processes open the *)
(* same SQLite file and ask() on it.  Each loops: read the transcript, take *)
(* the one step it calls for, append the outcome at the next seq with       *)
(* INSERT OR IGNORE.  A tool call that reaches outside goes through the     *)
(* effect ledger of the same file (ledger.ts, tools.ts).                    *)
(*                                                                         *)
(* One SQL statement is one step, the effect of a tool another; a process   *)
(* may die between any two.  What the model says is a choice; a call id is  *)
(* given to one call only.                                                  *)
(***************************************************************************)
EXTENDS Integers, FiniteSets, SequencesExt

CONSTANTS
    Askers,    \* ask() calls that may run at once, in one process or many
    Requests,
    Calls,     \* the tool calls the model may make
    Safe,      \* calls of tools declared "safe": reads
    Keyed,     \* calls of "once" tools whose target dedupes by key
    MaxAsks    \* bound: ask() calls and retries, in all

ASSUME RunAssumption ==
    /\ Safe \subseteq Calls /\ Keyed \subseteq Calls /\ Safe \cap Keyed = {}
    /\ MaxAsks \in Nat

\* Calls a finished or cut-off run of which is never run again: once and ask.
Once == Calls \ (Safe \cup Keyed)

VARIABLES
    transcript, \* disk: eight_entries, in order of seq
    ledger,     \* disk: state of each call's row in eight_effects
    at,         \* where each asker is
    request,    \* what it asks
    seq,        \* the seq its next append is for: what it read, plus one
    body,       \* what it is about to append
    call,       \* the tool call it is executing
    effects,    \* history: how often a call's effect happened
    issued,     \* history: the call ids the model has used
    asks        \* history: ask() calls so far

disk == <<transcript, ledger>>
mind == <<request, seq, body, call>>
history == <<effects, issued, asks>>
vars == <<transcript, ledger, at, request, seq, body, call, effects,
          issued, asks>>

Places == {"idle", "reading", "model", "gate", "checking", "intending",
           "claiming", "running", "finishing", "appending"}

(* Entries of the transcript.  A result tells how the call went: it ran (or a
   finished run's result was returned), the permission gate denied it, an earlier
   run of it was cut off, or another process is running it. *)
Input(r) == [type |-> "input", request |-> r]
Assistant(cs) == [type |-> "assistant", calls |-> cs]
ToolResult(c, how) == [type |-> "toolResult", call |-> c, how |-> how]
Answer(r) == [type |-> "answer", request |-> r]
Nothing == [type |-> "nothing"]

Hows == {"ran", "denied", "cut", "held"}
Replies == {cs \in SeqOf(Calls, 2) : IsInjective(cs)}
Entries ==
    [type: {"input", "answer"}, request: Requests]
        \cup [type: {"assistant"}, calls: Replies]
        \cup [type: {"toolResult"}, call: Calls, how: Hows]
Rows == {"none", "intent", "started", "done"}

HasInput(es, r) == Input(r) \in ToSet(es)
HasAnswer(es, r) == Answer(r) \in ToSet(es)
HasResult(es, c) == \E e \in ToSet(es) : e.type = "toolResult" /\ e.call = c

\* es.findLastIndex: 0 when the model has not spoken yet.
LastAssistant(es) == SelectLastInSeq(es, LAMBDA e : e.type = "assistant")

\* The first call of the last assistant entry that has no result: none or one.
Pending(es) ==
    LET cs == IF LastAssistant(es) = 0 THEN << >> ELSE es[LastAssistant(es)].calls
    IN  {c \in Calls : \E i \in DOMAIN cs :
            /\ cs[i] = c /\ ~HasResult(es, c)
            /\ \A j \in 1..(i - 1) : HasResult(es, cs[j])}

-----------------------------------------------------------------------------
Init ==
    /\ transcript = << >> /\ ledger = [c \in Calls |-> "none"]
    /\ at = [a \in Askers |-> "idle"]
    /\ request = [a \in Askers |-> Nothing] /\ call = [a \in Askers |-> Nothing]
    /\ seq = [a \in Askers |-> 0] /\ body = [a \in Askers |-> Nothing]
    /\ effects = [c \in Calls |-> 0] /\ issued = {} /\ asks = 0

Go(a, place) == at' = [at EXCEPT ![a] = place]

\* The step is decided and its outcome known: append it next.
WillAppend(a, entry) ==
    /\ Go(a, "appending")
    /\ body' = [body EXCEPT ![a] = entry]

\* The step is over: what it worked on is forgotten.
Forgets(a) ==
    /\ seq' = [seq EXCEPT ![a] = 0] /\ body' = [body EXCEPT ![a] = Nothing]
    /\ call' = [call EXCEPT ![a] = Nothing]

\* ask() is over, resolved or rejected.
Leaves(a) ==
    /\ Go(a, "idle")
    /\ request' = [request EXCEPT ![a] = Nothing]
    /\ Forgets(a)

Ask(a, r) ==
    /\ at[a] = "idle" /\ asks < MaxAsks
    /\ asks' = asks + 1
    /\ request' = [request EXCEPT ![a] = r]
    /\ Go(a, "reading")
    /\ UNCHANGED <<disk, seq, body, call, effects, issued>>

\* The transcript a step is taken from gives the seq it will write.
Sees(a) ==
    /\ seq' = [seq EXCEPT ![a] = Len(transcript) + 1]
    /\ UNCHANGED request

(* One turn of ask()'s loop up to its first wait: resolve, submit the input, or
   step() as the transcript says. *)
Read(a) ==
    /\ at[a] = "reading"
    /\ LET es == transcript
           r == request[a]
       IN  \/ /\ HasAnswer(es, r)
              /\ Leaves(a)
           \/ /\ ~HasAnswer(es, r) /\ ~HasInput(es, r)
              /\ WillAppend(a, Input(r))
              /\ Sees(a) /\ UNCHANGED call
           \/ /\ ~HasAnswer(es, r) /\ HasInput(es, r)
              /\ \E c \in Pending(es) : call' = [call EXCEPT ![a] = c]
              /\ Go(a, "gate")
              /\ Sees(a) /\ UNCHANGED body
           \/ /\ ~HasAnswer(es, r) /\ HasInput(es, r)
              /\ Pending(es) = {} /\ LastAssistant(es) = Len(es)
              /\ WillAppend(a, Answer(r))
              /\ Sees(a) /\ UNCHANGED call
           \/ /\ ~HasAnswer(es, r) /\ HasInput(es, r)
              /\ Pending(es) = {} /\ LastAssistant(es) # Len(es)
              /\ Go(a, "model")
              /\ Sees(a) /\ UNCHANGED <<body, call>>
    /\ UNCHANGED <<disk, history>>

\* The provider answers with a text, or with calls of fresh ids.
ModelReplies(a) ==
    /\ at[a] = "model"
    /\ \E cs \in Replies :
         /\ ToSet(cs) \cap issued = {}
         /\ issued' = issued \cup ToSet(cs)
         /\ WillAppend(a, Assistant(cs))
    /\ UNCHANGED <<disk, request, seq, call, effects, asks>>

\* Mutated: the entry goes to the end, whatever was read.
Lands_Always(a) == TRUE

\* Mutated: the seq is taken to be the length.
Lands_AtLength(a) == seq[a] = Len(transcript)

\* INSERT OR IGNORE: the entry lands only if its seq is still free.
Lands(a) == seq[a] = Len(transcript) + 1

Appends(a) ==
    /\ at[a] = "appending"
    /\ transcript' = IF Lands(a) THEN Append(transcript, body[a]) ELSE transcript
    /\ Go(a, "reading") /\ Forgets(a)
    /\ UNCHANGED <<ledger, request, history>>

-----------------------------------------------------------------------------
(* durableTool().execute, statement by statement. *)

Gate(a) ==
    /\ at[a] = "gate"
    /\ \/ /\ WillAppend(a, ToolResult(call[a], "denied"))
       \/ /\ Go(a, IF call[a] \in Safe THEN "running" ELSE "checking")
          /\ UNCHANGED body
    /\ UNCHANGED <<disk, request, seq, call, history>>

\* ledger.get: a finished call's result is returned, a cut one only reported.
Check(a) ==
    /\ at[a] = "checking"
    /\ \/ /\ ledger[call[a]] = "done"
          /\ WillAppend(a, ToolResult(call[a], "ran"))
       \/ /\ ledger[call[a]] = "started" /\ call[a] \notin Keyed
          /\ WillAppend(a, ToolResult(call[a], "cut"))
       \/ /\ ledger[call[a]] # "done"
          /\ ledger[call[a]] = "started" => call[a] \in Keyed
          /\ Go(a, "intending")
          /\ UNCHANGED body
    /\ UNCHANGED <<disk, request, seq, call, history>>

Intent(a) ==
    /\ at[a] = "intending"
    /\ ledger' = [ledger EXCEPT ![call[a]] = IF @ = "none" THEN "intent" ELSE @]
    /\ Go(a, "claiming")
    /\ UNCHANGED <<transcript, mind, history>>

\* Mutated: UPDATE without its state.
Wins_Again(c) == ledger[c] # "done"

\* UPDATE ... WHERE state = 'intent': won by one caller.
Wins(c) == ledger[c] = "intent"

\* Mutated: the loser's result is left out.
Claim_Silent(a) ==
    /\ at[a] = "claiming"
    /\ ledger' = [ledger EXCEPT ![call[a]] = IF Wins(call[a]) THEN "started" ELSE @]
    /\ Go(a, IF Wins(call[a]) \/ call[a] \in Keyed THEN "running" ELSE "appending")
    /\ UNCHANGED <<transcript, mind, history>>

Claim(a) ==
    /\ at[a] = "claiming"
    /\ ledger' = [ledger EXCEPT ![call[a]] = IF Wins(call[a]) THEN "started" ELSE @]
    /\ IF Wins(call[a]) \/ call[a] \in Keyed
       THEN Go(a, "running") /\ UNCHANGED body
       ELSE WillAppend(a, ToolResult(call[a], "held"))
    /\ UNCHANGED <<transcript, request, seq, call, history>>

\* spec.run: the effect happens; it may still throw, which ends the ask().
Effect(a) ==
    /\ at[a] = "running"
    /\ effects' = [effects EXCEPT ![call[a]] = @ + 1]
    /\ \/ /\ call[a] \in Safe
          /\ WillAppend(a, ToolResult(call[a], "ran"))
          /\ UNCHANGED <<request, seq, call>>
       \/ /\ call[a] \notin Safe
          /\ Go(a, "finishing")
          /\ UNCHANGED mind
       \/ Leaves(a)
    /\ UNCHANGED <<disk, issued, asks>>

\* Mutated: the result goes to the transcript, not to the ledger.
Done_NoRow(a) ==
    /\ at[a] = "finishing"
    /\ WillAppend(a, ToolResult(call[a], "ran"))
    /\ UNCHANGED <<disk, request, seq, call, history>>

Done(a) ==
    /\ at[a] = "finishing"
    /\ ledger' = [ledger EXCEPT ![call[a]] = "done"]
    /\ WillAppend(a, ToolResult(call[a], "ran"))
    /\ UNCHANGED <<transcript, request, seq, call, history>>

\* The process dies, or the model's or the tool's call rejects: ask() is over.
Dies(a) ==
    /\ at[a] # "idle"
    /\ Leaves(a)
    /\ UNCHANGED <<disk, history>>

Step(a) ==
    \/ Read(a) \/ ModelReplies(a) \/ Appends(a)
    \/ Gate(a) \/ Check(a) \/ Intent(a) \/ Claim(a) \/ Effect(a) \/ Done(a)

Next == \E a \in Askers : Step(a) \/ Dies(a) \/ \E r \in Requests : Ask(a, r)

Spec == Init /\ [][Next]_vars

-----------------------------------------------------------------------------
TypeOK ==
    /\ transcript \in Seq(Entries) /\ ledger \in [Calls -> Rows]
    /\ at \in [Askers -> Places] /\ request \in [Askers -> Requests \cup {Nothing}]
    /\ seq \in [Askers -> Nat] /\ body \in [Askers -> Entries \cup {Nothing}]
    /\ call \in [Askers -> Calls \cup {Nothing}]
    /\ effects \in [Calls -> Nat]
    /\ issued \subseteq Calls /\ asks \in 0..MaxAsks

(* The effect of a call whose target does not dedupe happens at most once,
   whoever resumes the run and wherever a process died (tools.ts:3-8). *)
EffectsHappenOnce == \A c \in Once : effects[c] <= 1

(* Two processes on one file never write a step twice: one input and one answer
   for a request, one result for a call (run.ts:3-4). *)
NoStepTwice ==
    \A i, j \in DOMAIN transcript :
        i < j => CASE transcript[i].type = "assistant" -> TRUE
                   [] transcript[i].type = "toolResult" ->
                        ~(transcript[j].type = "toolResult"
                            /\ transcript[j].call = transcript[i].call)
                   [] OTHER -> transcript[j] # transcript[i]

(* What the transcript says ran, ran, and its outcome is safe on disk: the model
   is never told of an effect the ledger would run again. *)
RanMeansDone ==
    \A e \in ToSet(transcript) :
        e.type = "toolResult" /\ e.how = "ran" =>
            /\ effects[e.call] >= 1
            /\ e.call \notin Safe => ledger[e.call] = "done"

(* A call the transcript reports as cut off or as held by another process has a
   row somebody can look at: it is not forgotten (ledger.ts:104-108). *)
UnfinishedHasARow ==
    \A e \in ToSet(transcript) :
        e.type = "toolResult" /\ e.how \in {"cut", "held"} =>
            ledger[e.call] \in {"started", "done"}

(* What the transcript says of a call, that it ran, was cut off or is held by
   another process, agrees with the ledger and the effect (tools.ts:86-107). *)
TranscriptAgreesWithRows == RanMeansDone /\ UnfinishedHasARow

(* The entry an ask() resolves with is the model's reply to a transcript that
   held the request, though other processes ask on the same run. *)
AnswersFollowTheirRequest ==
    \A i \in DOMAIN transcript :
        transcript[i].type = "answer" =>
            /\ i > 1 /\ transcript[i - 1].type = "assistant"
            /\ HasInput(SubSeq(transcript, 1, i - 2), transcript[i].request)

(* A step is never lost for nothing: who re-reads after an append finds its own
   entry, or the one that took its seq, so ask()'s loop does not spin. *)
LosersAreOvertaken ==
    [][\A a \in Askers :
          at[a] = "appending" /\ at'[a] = "reading" =>
              \/ Len(transcript) >= seq[a]
              \/ Len(transcript') = seq[a] /\ transcript'[seq[a]] = body[a]]_vars
=============================================================================
