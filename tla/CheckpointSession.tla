--------------------------- MODULE CheckpointSession ---------------------------
(***************************************************************************)
(* The per-session switch of the PreToolUse scope guard.                   *)
(*                                                                         *)
(* With checkpoint_enforcement: session-prompt, SessionStart asks the user *)
(* once per session whether source writes are to be gated, the agent       *)
(* records the answer with record_checkpoint_choice.py, and the guard      *)
(* reads it back before every gated tool call.  All sessions of a project  *)
(* share one file that holds one answer; it is written by truncating it    *)
(* and then filling it, and nothing locks it.                              *)
(***************************************************************************)
EXTENDS CurrentState

CONSTANTS
    Session,    \* Claude Code session ids
    State,      \* the versions of current-state.md that occur
    Missing,    \* the slot before any session has recorded an answer
    Empty,      \* the slot between truncation and write
    Garbled     \* one session's text over another's: not JSON

Choice == [session: Session, enabled: {"yes", "no"}]

ASSUME StateAssumption == State \subseteq Doc
ASSUME SlotAssumption ==
    /\ Missing # Empty /\ Empty # Garbled /\ Garbled # Missing
    /\ Choice \cap {Missing, Empty, Garbled} = {}

\* checkpoint_enforcement; "uninitialized" is a project_type that is unset or
\* still a placeholder, whatever checkpoint_enforcement says.  The guard strips
\* quotes and letter case from the value, the SessionStart hook does not:
\* "quotedPrompt" is session-prompt to the first and nothing to the second.
Mode == {"uninitialized", "always", "sessionPrompt", "quotedPrompt", "off"}

VARIABLES
    mode,       \* what .project-starter.yml says
    cs,         \* current-state.md in the working tree
    slot,       \* checkpoint-session-choices.json
    answer,     \* the user's latest answer, per session
    recording,  \* how far the agent has got with recording it
    startMode,  \* the mode each session's last SessionStart hook saw
    prompted,   \* sessions that have been told to ask the user
    alone,      \* sessions no other session has interfered with since they
                \* opened the slot
    call        \* the guard's latest decision

vars == <<mode, cs, slot, answer, recording, startMode, prompted, alone, call>>

Decision == {"none", "notGated", "unanswered", "optedOut", "scoped", "denied"}

TypeOK ==
    /\ mode \in Mode
    /\ cs \in State
    /\ slot \in Choice \cup {Missing, Empty, Garbled}
    /\ answer \in [Session -> {"none", "yes", "no"}]
    /\ recording \in [Session -> {"never", "answered", "open", "recorded", "lost"}]
    /\ startMode \in [Session -> Mode \cup {"none"}]
    /\ prompted \subseteq Session
    /\ alone \subseteq Session
    /\ call \in Decision

\* Variant: read_choice without its session_id comparison.
ReadChoiceOfAny(s) == IF slot \in Choice THEN slot.enabled ELSE "none"

(* read_choice: the answer of exactly this session, else None.              *)
ReadChoice(s) ==
    IF slot \in Choice /\ slot.session = s THEN slot.enabled ELSE "none"

(* What decide() answers to a gated tool call on a source path.             *)
Decide(s) ==
    LET scoping == IF GuardScoped(cs) THEN "scoped" ELSE "denied"
    IN  CASE mode \in {"uninitialized", "off"} -> "notGated"
          [] mode = "always" -> scoping
          [] mode \in {"sessionPrompt", "quotedPrompt"} ->
               CASE ReadChoice(s) = "none" -> "unanswered"
                 [] ReadChoice(s) = "no" -> "optedOut"
                 [] ReadChoice(s) = "yes" -> scoping

-----------------------------------------------------------------------------
Init ==
    /\ mode \in Mode
    /\ cs \in State
    /\ slot = Missing
    /\ answer = [s \in Session |-> "none"]
    /\ recording = [s \in Session |-> "never"]
    /\ startMode = [s \in Session |-> "none"]
    /\ prompted = {}
    /\ alone = {}
    /\ call = "none"

\* Variant: ask only while no session has ever answered.
SessionStartOnce(s) ==
    /\ startMode' = [startMode EXCEPT ![s] = mode]
    /\ prompted' = IF mode = "sessionPrompt" /\ slot = Missing
                   THEN prompted \cup {s} ELSE prompted
    /\ UNCHANGED <<mode, cs, slot, answer, recording, alone, call>>

\* Variant: forget the recorded answer at every start, resume included.
SessionStartForgets(s) ==
    /\ startMode' = [startMode EXCEPT ![s] = mode]
    /\ prompted' = IF mode = "sessionPrompt" THEN prompted \cup {s} ELSE prompted
    /\ slot' = Missing
    /\ UNCHANGED <<mode, cs, answer, recording, alone, call>>

(* session-start-hook.sh, at startup and again on resume or compaction.     *)
SessionStart(s) ==
    /\ startMode' = [startMode EXCEPT ![s] = mode]
    /\ prompted' = IF mode = "sessionPrompt" /\ ReadChoice(s) = "none"
                   THEN prompted \cup {s} ELSE prompted
    /\ UNCHANGED <<mode, cs, slot, answer, recording, alone, call>>

(* The agent puts the question and the user answers it.                     *)
Answer(s, enabled) ==
    /\ s \in prompted
    /\ recording[s] \in {"never", "recorded", "lost"}
    /\ answer' = [answer EXCEPT ![s] = enabled]
    /\ recording' = [recording EXCEPT ![s] = "answered"]
    /\ prompted' = prompted \ {s}
    /\ UNCHANGED <<mode, cs, slot, startMode, alone, call>>

(* write_choice: open(.., "w") truncates the slot ...                       *)
OpenSlot(s) ==
    /\ recording[s] = "answered"
    /\ slot' = Empty
    /\ recording' = [recording EXCEPT ![s] = "open"]
    /\ alone' = IF \E t \in Session \ {s} : recording[t] = "open"
                THEN {} ELSE {s}
    /\ UNCHANGED <<mode, cs, answer, startMode, prompted, call>>

\* Variant: the command-line value is stored as it was typed.
FillSlotUnparsed(s) ==
    /\ recording[s] = "open"
    /\ slot' = [session |-> s, enabled |-> "typed"]
    /\ recording' = [recording EXCEPT ![s] = "recorded"]
    /\ alone' = alone \cap {s}
    /\ UNCHANGED <<mode, cs, answer, startMode, prompted, call>>

(* ... and json.dump fills it when the file is closed.  Over the text that   *)
(* another session has written since the truncation, the shorter text leaves *)
(* a tail of the longer one.                                                 *)
FillSlot(s) ==
    /\ recording[s] = "open"
    /\ \/ slot' = [session |-> s, enabled |-> answer[s]]
       \/ slot # Empty /\ slot' = Garbled
    /\ recording' = [recording EXCEPT ![s] = "recorded"]
    /\ alone' = alone \cap {s}
    /\ UNCHANGED <<mode, cs, answer, startMode, prompted, call>>

(* The command dies between the two.                                        *)
CrashRecorder(s) ==
    /\ recording[s] = "open"
    /\ recording' = [recording EXCEPT ![s] = "lost"]
    /\ UNCHANGED <<mode, cs, slot, answer, startMode, prompted, alone, call>>

(* A gated tool call on a source path reaches the guard.                    *)
ToolCall(s) ==
    /\ startMode[s] # "none"
    /\ call' = Decide(s)
    /\ UNCHANGED <<mode, cs, slot, answer, recording, startMode, prompted, alone>>

(* current-state.md is not a source path, so any session or the user edits  *)
(* it freely; .project-starter.yml is edited by hand.                       *)
EditState(d) ==
    /\ cs' = d
    /\ UNCHANGED <<mode, slot, answer, recording, startMode, prompted, alone, call>>

EditMode(m) ==
    /\ mode' = m
    /\ UNCHANGED <<cs, slot, answer, recording, startMode, prompted, alone, call>>

Next ==
    \/ \E s \in Session :
        \/ SessionStart(s)
        \/ \E enabled \in {"yes", "no"} : Answer(s, enabled)
        \/ OpenSlot(s)
        \/ FillSlot(s)
        \/ CrashRecorder(s)
        \/ ToolCall(s)
    \/ \E d \in State : EditState(d)
    \/ \E m \in Mode : EditMode(m)

Spec == Init /\ [][Next]_vars

-----------------------------------------------------------------------------
(* checkpoint_session_state.py promises that every failure mode resolves to  *)
(* "not yet answered", never to a stale answer.  Whatever sessions interleave *)
(* their writes or die half-way, the guard reads for a session nothing but   *)
(* the answer its own user gave last.                                        *)
NoStaleAnswer ==
    \A s \in Session :
        recording[s] # "answered" => ReadChoice(s) \in {"none", answer[s]}

(* Once the recording command has finished, the guard acts on the answer for *)
(* as long as no other session touches the slot: its own earlier truncation  *)
(* or a reader of any kind cannot undo it.                                   *)
RecordedAnswerHolds ==
    \A s \in Session :
        s \in alone /\ recording[s] = "recorded" => ReadChoice(s) = answer[s]

(* The guard fails open for a session that has not chosen.  In a session that *)
(* started under session-prompt it never does so unless the user has been,   *)
(* or is about to be, asked: another session's answer in the slot cannot make *)
(* SessionStart skip the question.                                           *)
AskedBeforeFailingOpen ==
    [][\A s \in Session :
         ToolCall(s) /\ startMode[s] = "sessionPrompt" /\ call' = "unanswered"
           => s \in prompted \/ answer[s] # "none"]_vars

(* checkpoint_session_state.py, module docstring: "a session_id mismatch     *)
(* always means this session has not answered yet".                          *)
MismatchMeansUnanswered ==
    \A s \in Session :
        slot \in Choice /\ slot.session # s => recording[s] # "recorded"
=============================================================================
