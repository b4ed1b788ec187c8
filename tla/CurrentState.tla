----------------------------- MODULE CurrentState -----------------------------
(***************************************************************************)
(* docs/current-state.md as the gates read it.                             *)
(*                                                                         *)
(* Three programs read this file with three different matchers: the        *)
(* PreToolUse guard (Python regexes), the pre-commit hook (grep, sed and   *)
(* awk) and the pre-push hook (grep and sed).  A document is abstracted to *)
(* the classes of line that at least one of them tells apart, and each     *)
(* reader is an operator over those classes.  A missing file reads as the  *)
(* empty text in every reader, so it is the document with no line at all.  *)
(***************************************************************************)

\* What follows "**Task:**".  "bracketed" is one [..] from end to end,
\* "leading" only starts with "[", "mixed" has a "[" further on, and "empty"
\* is the bare label with another field on a later line, as in the template.
TaskLine == {"absent", "empty", "bracketed", "leading", "mixed", "real"}

\* A Y / N/A line: "invalid" is a placeholder or any other word, "yesBracket"
\* starts with an accepted word and has a "[" later on the line.
AnswerLine == {"absent", "invalid", "yes", "yesBracket"}

\* The "## Clarifications" section: "bare" lists no category, "open" has an
\* unanswered one.
Clarifications == {"absent", "bare", "open", "answered"}

\* "other" is a placeholder, or a value outside the documented vocabulary.
RequirementStatus == {"absent", "inProgress", "complete", "descoped", "other"}

\* complete: the Status line contains "Complete" in any case.
\* checklist: what is ticked in "## Doc Checklist"; "requirements" is all of
\* it, a project-requirements line included.
Doc == [task: TaskLine, questions: AnswerLine, approach: AnswerLine,
        clarifications: Clarifications, impactFilled: BOOLEAN,
        complete: BOOLEAN, closeoutFilled: BOOLEAN,
        checklist: {"open", "checked", "requirements"},
        requirement: RequirementStatus, idsListed: BOOLEAN]

NoDoc == [task |-> "absent", questions |-> "absent", approach |-> "absent",
          clarifications |-> "absent", impactFilled |-> TRUE,
          complete |-> FALSE, closeoutFilled |-> TRUE, checklist |-> "checked",
          requirement |-> "absent", idsListed |-> FALSE]

-----------------------------------------------------------------------------
(* Shared by both scope readers: a missing Clarifications section is an older *)
(* file and is not covered; a section with no category is a problem.          *)
ClarificationsAnswered(d) == d.clarifications \notin {"bare", "open"}

\* pretooluse_scope_guard.py decide().  The whitespace its pattern skips after
\* the label includes the newline, so an empty Task takes the text of the next
\* line and counts as set.
GuardTask(d) == d.task \notin {"absent", "bracketed"}

GuardScoped(d) ==
    /\ GuardTask(d)
    /\ d.questions \in {"yes", "yesBracket"}
    /\ ClarificationsAnswered(d)
    /\ d.approach # "invalid"
    /\ d.impactFilled

(* pre-commit: the Task line exists and has no "[" anywhere.                *)
CommitTask(d) == d.task \in {"empty", "real"}

CommitFields(d) ==
    /\ d.questions = "yes"
    /\ ClarificationsAnswered(d)
    /\ d.approach \in {"absent", "yes"}
    /\ d.impactFilled

(* The unscoped source-change guard.                                        *)
CommitScoped(d) == CommitTask(d) /\ CommitFields(d)

(* What pre-commit demands of a staged current-state.md with Status Complete. *)
CloseoutDone(d) ==
    d.complete => /\ d.closeoutFilled
                  /\ d.checklist # "open"
                  /\ d.clarifications # "absent" => d.checklist = "requirements"

(* All that pre-commit demands of a current-state.md that is itself staged. *)
CommitDocument(d) == CloseoutDone(d) /\ (CommitTask(d) => CommitFields(d))

(* pre-push: the requirement gate covers a document whose Task is not empty *)
(* and does not start with "[", and which has a Requirement Status line.    *)
PushCovered(d) == d.task \in {"mixed", "real"} /\ d.requirement # "absent"

=============================================================================
