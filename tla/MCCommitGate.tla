------------------------------ MODULE MCCommitGate ------------------------------
(* One source version that fails its tests and two that pass; the template, *)
(* a scoped task, and a task marked Complete with its Closeout left open.    *)
EXTENDS CommitGate

MCSource == {"v0", "v1", "broken"}
MCPassing == {"v0", "v1"}

Template == [NoDoc EXCEPT !.task = "bracketed", !.questions = "invalid"]
Scoped == [NoDoc EXCEPT !.task = "real", !.questions = "yes"]
Careless == [Scoped EXCEPT !.complete = TRUE, !.closeoutFilled = FALSE]

MCState == {Template, Scoped, Careless}
MCFirstTree == [src |-> "v0", cs |-> Template, moved |-> FALSE]
=============================================================================
