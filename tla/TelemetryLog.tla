------------------------------ MODULE TelemetryLog ------------------------------
(***************************************************************************)
(* A telemetry log: validation-result.json, task-run.json, skip-verify.json.*)
(*                                                                         *)
(* Each is a JSON list that a short-lived process extends by one row: a      *)
(* validator, the Stop hook, a commit that skips verification.  The process *)
(* reads the list, truncates the log and writes the longer list.  Nothing   *)
(* locks the log, a log that does not parse counts as an empty list, and  *)
(* the process may be killed at any point.                                  *)
(***************************************************************************)
EXTENDS Naturals, Sequences

CONSTANTS
    Writer,     \* the processes, each named by the row it adds
    Empty,      \* no log, or a log that has been truncated
    Garbled     \* one list's text over another's

Unreadable == {Empty, Garbled}

ASSUME UnreadableAssumption ==
    Empty # Garbled /\ Unreadable \cap Seq(Writer) = {}

VARIABLES
    log,        \* the file
    rows,       \* what each process is going to write back, its own row left out
    stage,      \* how far each process has got
    done,       \* the processes that have finished, in that order
    alone,      \* the process that no other has overlapped with, if any
    kept        \* those finished since processes last overlapped or died

logVars == <<log, rows, stage, done, alone, kept>>

LogTypeOK ==
    /\ log \in Seq(Writer) \cup Unreadable
    /\ rows \in [Writer -> Seq(Writer)]
    /\ stage \in [Writer -> {"idle", "read", "open", "done", "killed"}]
    /\ done \in Seq(Writer)
    /\ alone \subseteq Writer
    /\ kept \in Seq(Writer)

Writing == {w \in Writer : stage[w] \in {"read", "open"}}

LogInit ==
    /\ log = Empty
    /\ rows = [w \in Writer |-> <<>>]
    /\ stage = [w \in Writer |-> "idle"]
    /\ done = <<>>
    /\ alone = {}
    /\ kept = <<>>

\* Variant: whatever the log parses to is taken for the list.
ReadRowsUnchecked(w) ==
    /\ stage[w] = "idle"
    /\ rows' = [rows EXCEPT ![w] = log]
    /\ stage' = [stage EXCEPT ![w] = "read"]
    /\ alone' = IF Writing = {} THEN {w} ELSE {}
    /\ UNCHANGED <<log, done, kept>>

(* The existing rows, or none if the log is missing, torn or not a list.   *)
ReadRows(w) ==
    /\ stage[w] = "idle"
    /\ rows' = [rows EXCEPT ![w] = IF log \in Unreadable THEN <<>> ELSE log]
    /\ stage' = [stage EXCEPT ![w] = "read"]
    /\ alone' = IF Writing = {} THEN {w} ELSE {}
    /\ UNCHANGED <<log, done, kept>>

(* open(.., "w").                                                           *)
TruncateLog(w) ==
    /\ stage[w] = "read"
    /\ log' = Empty
    /\ stage' = [stage EXCEPT ![w] = "open"]
    /\ kept' = IF w \in alone THEN kept ELSE <<>>
    /\ UNCHANGED <<rows, done, alone>>

\* Variant: the new row goes in front.
FillInFront(w) ==
    /\ stage[w] = "open"
    /\ \/ log' = <<w>> \o rows[w]
       \/ log # Empty /\ log' = Garbled
    /\ stage' = [stage EXCEPT ![w] = "done"]
    /\ done' = Append(done, w)
    /\ kept' = IF w \in alone THEN Append(kept, w) ELSE <<>>
    /\ UNCHANGED <<rows, alone>>

\* Variant: only the new row is written.
FillOwnRow(w) ==
    /\ stage[w] = "open"
    /\ \/ log' = <<w>>
       \/ log # Empty /\ log' = Garbled
    /\ stage' = [stage EXCEPT ![w] = "done"]
    /\ done' = Append(done, w)
    /\ kept' = IF w \in alone THEN Append(kept, w) ELSE <<>>
    /\ UNCHANGED <<rows, alone>>

(* The list and the new row.  Over the text another process has written since *)
(* the truncation, a shorter text leaves a tail of the longer one.            *)
FillLog(w) ==
    /\ stage[w] = "open"
    /\ \/ log' = Append(rows[w], w)
       \/ log # Empty /\ log' = Garbled
    /\ stage' = [stage EXCEPT ![w] = "done"]
    /\ done' = Append(done, w)
    /\ kept' = IF w \in alone THEN Append(kept, w) ELSE <<>>
    /\ UNCHANGED <<rows, alone>>

KillWriter(w) ==
    /\ w \in Writing
    /\ stage' = [stage EXCEPT ![w] = "killed"]
    /\ kept' = IF stage[w] = "open" THEN <<>> ELSE kept
    /\ UNCHANGED <<log, rows, done, alone>>

WritersStopped ==
    /\ \A w \in Writer : stage[w] \in {"done", "killed"}
    /\ UNCHANGED logVars

LogStep ==
    \/ \E w \in Writer : ReadRows(w) \/ TruncateLog(w) \/ FillLog(w) \/ KillWriter(w)
    \/ WritersStopped

LogSpec == LogInit /\ [][LogStep]_logVars

-----------------------------------------------------------------------------
Precedes(v, w, history) ==
    \E i, j \in DOMAIN history : i < j /\ history[i] = v /\ history[j] = w

(* Whatever overlaps and kills do to a log, a log that can be read shows rows *)
(* of processes that finished, none of them twice, in the order in which      *)
(* they finished: rows get lost, but what is left is history.                *)
HistoryInOrder ==
    log \notin Unreadable =>
        /\ \A i \in DOMAIN log : stage[log[i]] = "done"
        /\ \A i, j \in DOMAIN log : i < j => Precedes(log[i], log[j], done)

(* A damaged log is damaged once: every row written after the damage by a     *)
(* process that overlaps with no other is in the log from then on, at its     *)
(* end, until processes overlap or die again.                                *)
UndisturbedRowsKept ==
    kept # <<>> /\ (\A w \in Writer : stage[w] # "open") =>
        /\ log \notin Unreadable
        /\ Len(kept) <= Len(log)
        /\ kept = SubSeq(log, Len(log) - Len(kept) + 1, Len(log))
=============================================================================
