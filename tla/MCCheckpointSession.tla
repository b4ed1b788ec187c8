-------------------------- MODULE MCCheckpointSession --------------------------
(* Two sessions of one project; a scoped and an unscoped current-state.md.  *)
EXTENDS CheckpointSession, TLC

Scoped == [NoDoc EXCEPT !.task = "real", !.questions = "yes"]
MCState == {NoDoc, Scoped}
Symmetry == Permutations(Session)
=============================================================================
