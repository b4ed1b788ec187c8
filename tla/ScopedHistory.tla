----------------------------- MODULE ScopedHistory -----------------------------
(***************************************************************************)
(* What .githooks/pre-commit promises about the history of a branch, with   *)
(* no hook, index or working tree in sight: each commit follows the last    *)
(* one, and a commit that passed verification undisturbed may change source *)
(* only under a scoped Current Task and may change current-state.md only to *)
(* a document whose own rules hold.                                        *)
(***************************************************************************)
EXTENDS CurrentState

CONSTANT Commit     \* every possible commit: [tree, by, quiet, ...]

VARIABLE head       \* the commit the branch points at

(* Source is committed under a scoped document.  A commit that renames the   *)
(* document away is judged by the document it removes.                       *)
SourceScoped(old, new) ==
    old.src # new.src =>
        \/ CommitScoped(new.cs)
        \/ new.cs = NoDoc /\ ~ old.moved /\ new.moved /\ CommitScoped(old.cs)

DocumentClosed(old, new) ==
    old.cs # new.cs /\ new.cs # NoDoc => CommitDocument(new.cs)

Follows(c) ==
    c.by = "verified" /\ c.quiet =>
        /\ SourceScoped(head.tree, c.tree)
        /\ DocumentClosed(head.tree, c.tree)

Init == head \in Commit /\ head.by = "initial"

Next == head' \in Commit /\ Follows(head')

Spec == Init /\ [][Next]_head
=============================================================================
