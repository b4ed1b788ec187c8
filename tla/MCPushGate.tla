-------------------------------- MODULE MCPushGate --------------------------------
(* A gated and an ungated branch; one commit for each way the hook can judge.   *)
(* The configuration of the unfinished one names no gated branch to CI.       *)
EXTENDS PushGate

CONSTANTS main, wip

Task == [NoDoc EXCEPT !.task = "real", !.questions = "yes"]
Requirement(status) == [Task EXCEPT !.requirement = status, !.idsListed = TRUE]

NoLog == [exists |-> FALSE, pending |-> FALSE, layer |-> FALSE, old |-> FALSE]
Pending == [NoLog EXCEPT !.exists = TRUE, !.pending = TRUE]

With(cs, log, files) ==
    [cs |-> cs, log |-> log, files |-> files, validator |-> TRUE, gate |-> {main}]

Failing == With(Requirement("complete"), NoLog, "rejected")

MCContent == [
    unfinished |-> [With(Requirement("inProgress"), NoLog, "rejected") EXCEPT !.gate = {}],
    failing    |-> Failing,
    unequipped |-> [Failing EXCEPT !.validator = FALSE],
    finished   |-> With(Requirement("complete"), NoLog, "accepted"),
    unsynced   |-> With([Requirement("complete") EXCEPT !.task = "bracketed"],
                        Pending, "accepted"),
    descoped   |-> With(Requirement("descoped"),
                        [Pending EXCEPT !.layer = TRUE, !.old = TRUE], "rejected")]

MCCommit == DOMAIN MCContent
=============================================================================
