-------------------------------- MODULE PushGate --------------------------------
(***************************************************************************)
(* git push under .githooks/pre-push, and the same script as a step of CI.  *)
(*                                                                         *)
(* git feeds the hook one line per ref of the push.  For each, the hook      *)
(* reads current-state.md and milestone-change-log.md of the pushed commit,  *)
(* but runs verify_acceptance.py on the working tree, which goes on changing *)
(* while the hook works through the refs.  A problem with a ref of a gated   *)
(* branch refuses the whole push; elsewhere it is a warning.                *)
(***************************************************************************)
EXTENDS CurrentState

CONSTANTS
    Branch,         \* branch names on the remote
    Gated,          \* push_gate_branches, of the configuration in force
    Commit,         \* the commits that can be pushed
    Content,        \* what git show finds in each of them, or a checkout of it
    LayerTrigger,   \* project_type is, or contains, web-app
    StaleDays,      \* milestone_sync_stale_days: "unset", "days", "malformed"
    NoCommit        \* the all-zero sha: the branch does not exist

(* What verify_acceptance.py makes of a set of files; "absent" is the        *)
(* validator not being among them.                                           *)
Acceptance == {"accepted", "rejected"}

(* milestone-change-log.md.  pending: an entry awaits synchronization;       *)
(* layer: one with a DB/BE/FE task is pending and closed by its "---" line;  *)
(* old: the first of them is older than milestone_sync_stale_days.           *)
MilestoneLog ==
    {log \in [exists: BOOLEAN, pending: BOOLEAN, layer: BOOLEAN, old: BOOLEAN] :
        /\ log.pending => log.exists
        /\ log.layer \/ log.old => log.pending}

ASSUME PushAssumption ==
    /\ Gated \subseteq Branch
    /\ Content \in [Commit -> [cs: Doc, log: MilestoneLog, files: Acceptance,
                                validator: BOOLEAN, gate: SUBSET Branch]]
    /\ NoCommit \notin Commit
    /\ LayerTrigger \in BOOLEAN
    /\ StaleDays \in {"unset", "days", "malformed"}

VARIABLES
    disk,       \* what the validator would say of the working tree
    remote,     \* the remote's branches
    push        \* the push in progress

vars == <<disk, remote, push>>

\* by: how the commit got there; "skipped" is PROJECT_STARTER_SKIP_VERIFY, or a
\* configuration at hand that names no project_type or does not gate the branch.
\* ran: what the validator said when the hook ran it.
Tip == [commit: Commit \cup {NoCommit}, by: {"none", "pushed", "skipped", "merged"},
        ran: Acceptance \cup {"absent", "notRun"}]

Unborn == [commit |-> NoCommit, by |-> "none", ran |-> "notRun"]

\* refs: the lines the hook has not read yet.
Push == [active: BOOLEAN, sha: [Branch -> Commit \cup {NoCommit}],
         sent: SUBSET Branch, refs: SUBSET Branch, exit: {0, 1},
         ran: [Branch -> Acceptance \cup {"absent", "notRun"}]]

NoPush == [active |-> FALSE, sha |-> [b \in Branch |-> NoCommit], sent |-> {},
           refs |-> {}, exit |-> 0, ran |-> [b \in Branch |-> "notRun"]]

TypeOK ==
    /\ disk \in Acceptance \cup {"absent"}
    /\ remote \in [Branch -> Tip]
    /\ push \in Push

-----------------------------------------------------------------------------
State(c) == Content[c].cs
Log(c) == Content[c].log

\* What a checkout of c has to say: its files, if it has the validator.
Verdict(c) == IF Content[c].validator THEN Content[c].files ELSE "absent"

(* Does _requirement_problems reach verify_acceptance.py?                   *)
RunsAcceptance(c) ==
    PushCovered(State(c)) /\ State(c).requirement = "complete" /\ State(c).idsListed

(* _requirement_problems, [WARN-ONLY] lines left out: a missing validator is *)
(* only a warning.                                                           *)
RequirementProblem(c, verdict) ==
    PushCovered(State(c)) /\
        \/ State(c).requirement \in {"inProgress", "other"}
        \/ State(c).requirement = "complete" /\ ~ State(c).idsListed
        \/ RunsAcceptance(c) /\ verdict = "rejected"

(* _milestone_problems.  The Requirement Status counts even when the         *)
(* requirement gate does not cover the document.                             *)
MilestoneProblem(c) ==
    Log(c).exists /\
        \/ StaleDays = "malformed"
        \/ Log(c).pending /\ State(c).requirement = "complete"
        \/ Log(c).layer /\ LayerTrigger
        \/ Log(c).old /\ StaleDays = "days"

\* Variant: a problem counts on every branch.
RefusedAnywhere(b, c, verdict) ==
    b \in Branch /\ (RequirementProblem(c, verdict) \/ MilestoneProblem(c))

Refused(b, c, verdict) ==
    b \in Gated /\ (RequirementProblem(c, verdict) \/ MilestoneProblem(c))

Init ==
    /\ disk \in Acceptance \cup {"absent"}
    /\ remote = [b \in Branch |-> Unborn]
    /\ push = NoPush

(* Work goes on in the working tree.                                        *)
EditFiles(verdict) ==
    /\ disk' = verdict
    /\ UNCHANGED <<remote, push>>

\* The commit behind each ref of a push.
Lines(sha) == [b \in Branch |-> IF b \in DOMAIN sha THEN sha[b] ELSE NoCommit]

\* Variant: a tag that is pushed along is taken for a branch.
BeginPushWithTag(sent, sha) ==
    /\ ~ push.active
    /\ sent # {}
    /\ push' = [NoPush EXCEPT !.active = TRUE, !.sha = Lines(sha), !.sent = sent,
                              !.refs = sent \cup {NoCommit}]
    /\ UNCHANGED <<disk, remote>>

(* git push of some refs; the commits are fixed here, NoCommit deletes.     *)
BeginPush(sent, sha) ==
    /\ ~ push.active
    /\ sent # {}
    /\ push' = [NoPush EXCEPT !.active = TRUE, !.sha = Lines(sha), !.sent = sent,
                              !.refs = sent]
    /\ UNCHANGED <<disk, remote>>

\* Variant: the exit status is that of the last ref.
CheckRefLast(b) ==
    LET c == push.sha[b]
        live == c # NoCommit
    IN  /\ b \in push.refs
        /\ push' = [push EXCEPT
                      !.refs = @ \ {b},
                      !.exit = IF live /\ Refused(b, c, disk) THEN 1 ELSE 0,
                      !.ran[b] = IF live /\ RunsAcceptance(c) THEN disk ELSE @]
        /\ UNCHANGED <<disk, remote>>

(* One turn of the loop.  A deletion is not looked at; the exit status only  *)
(* ever goes up.                                                             *)
CheckRef(b) ==
    LET c == push.sha[b]
        live == c # NoCommit
    IN  /\ b \in push.refs
        /\ push' = [push EXCEPT
                      !.refs = @ \ {b},
                      !.exit = IF live /\ Refused(b, c, disk) THEN 1 ELSE @,
                      !.ran[b] = IF live /\ RunsAcceptance(c) THEN disk ELSE @]
        /\ UNCHANGED <<disk, remote>>

(* git sends every ref of the push, or none.                                *)
FinishPush ==
    /\ push.active /\ push.refs = {}
    /\ remote' = [b \in Branch |->
                    IF push.exit = 1 \/ b \notin push.sent THEN remote[b]
                    ELSE IF push.sha[b] = NoCommit THEN Unborn
                    ELSE [commit |-> push.sha[b], by |-> "pushed", ran |-> push.ran[b]]]
    /\ push' = NoPush
    /\ UNCHANGED disk

SkipPush(b, c) ==
    /\ ~ push.active
    /\ remote' = [remote EXCEPT ![b] = [commit |-> c, by |-> "skipped", ran |-> "notRun"]]
    /\ UNCHANGED <<disk, push>>

\* Variant: CI hands the hook the files of the base branch.
MergeUnchecked(p, b) ==
    LET c == remote[p].commit
    IN  /\ p # b /\ c # NoCommit /\ b \in Content[c].gate
        /\ ~ Refused(b, c, "accepted")
        /\ remote' = [remote EXCEPT ![b] =
                        [commit |-> c, by |-> "merged", ran |-> "notRun"]]
        /\ UNCHANGED <<disk, push>>

(* CI on a pull request from branch p into b: the hook gets the head commit  *)
(* as the pushed one, in a checkout of that commit, whose configuration says  *)
(* what is gated and whose validator, if there, is the one that runs.        *)
MergePullRequest(p, b) ==
    LET c == remote[p].commit
    IN  /\ p # b /\ c # NoCommit /\ b \in Content[c].gate
        /\ ~ Refused(b, c, Verdict(c))
        /\ remote' = [remote EXCEPT ![b] =
                        [commit |-> c, by |-> "merged",
                         ran |-> IF RunsAcceptance(c) THEN Verdict(c) ELSE "notRun"]]
        /\ UNCHANGED <<disk, push>>

\* The head commit's own configuration leaves b out: CI only warns, or exits.
MergeUngated(p, b) ==
    LET c == remote[p].commit
    IN  /\ p # b /\ c # NoCommit /\ b \notin Content[c].gate
        /\ remote' = [remote EXCEPT ![b] =
                        [commit |-> c, by |-> "skipped", ran |-> "notRun"]]
        /\ UNCHANGED <<disk, push>>

HookStep == (\E b \in Branch : CheckRef(b)) \/ FinishPush

Next ==
    \/ \E verdict \in Acceptance \cup {"absent"} : EditFiles(verdict)
    \/ \E sent \in SUBSET Branch :
         \E sha \in [sent -> Commit \cup {NoCommit}] : BeginPush(sent, sha)
    \/ HookStep
    \/ \E b \in Branch, c \in Commit : SkipPush(b, c)
    \/ \E p, b \in Branch : MergePullRequest(p, b) \/ MergeUngated(p, b)

(* The hook is a process that git waits for: it runs, and git then acts.    *)
Spec == Init /\ [][Next]_vars /\ WF_vars(HookStep)

-----------------------------------------------------------------------------
(* A gated branch only ever receives, through the hook or through CI, work    *)
(* whose requirement is settled and whose milestone log is not overdue, with  *)
(* however many refs it was pushed.                                          *)
GatedWorkIsSettled ==
    \A b \in Gated : remote[b].by \in {"pushed", "merged"} =>
        LET c == remote[b].commit
        IN  /\ ~ MilestoneProblem(c)
            /\ PushCovered(State(c)) =>
                 \/ State(c).requirement = "descoped"
                 \/ State(c).requirement = "complete" /\ State(c).idsListed

(* A Complete requirement whose files fail acceptance gets past the gate of   *)
(* a gated branch in two ways only: by a push, if the working tree was in     *)
(* another state when the hook reached that ref, or had no validator; through *)
(* CI, if the commit itself is without verify_acceptance.py.                 *)
RejectedWorkWasNotSeen ==
    \A b \in Gated :
        /\ remote[b].by \in {"pushed", "merged"}
        /\ RunsAcceptance(remote[b].commit)
        /\ Content[remote[b].commit].files = "rejected"
        => IF remote[b].by = "pushed" THEN remote[b].ran \in {"accepted", "absent"}
           ELSE ~ Content[remote[b].commit].validator

(* .githooks/pre-push:19: "Pushes to other branches only print [WARN], so a   *)
(* work-in-progress branch can still be backed up": a push without a gated    *)
(* ref comes to an end, and every commit of it is on the remote then, whatever *)
(* the commits hold and whatever happened to the working tree meanwhile.      *)
Ungated == push.active /\ push.sent \cap Gated = {}

WorkInProgressIsBackedUp ==
    /\ Ungated ~> ~ push.active
    /\ [][Ungated /\ ~ push'.active =>
            \A b \in push.sent : remote'[b].commit = push.sha[b]]_vars

(* .githooks/pre-push:8: "Two checks, both read from the pushed commit (not   *)
(* the working tree)".                                                        *)
AcceptedAsPushed ==
    \A b \in Gated :
        remote[b].by = "pushed" /\ RunsAcceptance(remote[b].commit)
          /\ remote[b].ran # "absent"
          => remote[b].ran = Content[remote[b].commit].files
=============================================================================
