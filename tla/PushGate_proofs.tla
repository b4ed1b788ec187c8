----------------------------- MODULE PushGate_proofs -----------------------------
(***************************************************************************)
(* What pre-push guarantees about a gated branch, for any number of         *)
(* branches, refs in a push, commits and documents.                        *)
(*                                                                         *)
(* Neither guarantee is inductive: what reaches the remote is decided while *)
(* the hook works through the refs.  The strengthening says what the exit   *)
(* status stands for half-way: as long as it is 0, every gated ref that has *)
(* been read was cleared with the verdict remembered for it.               *)
(***************************************************************************)
EXTENDS PushGate, TLAPS

Cleared(c, verdict) ==
    /\ ~ MilestoneProblem(c)
    /\ ~ RequirementProblem(c, verdict)
    /\ RunsAcceptance(c) => verdict # "notRun"

HookOwesNothing ==
    /\ push.refs \subseteq push.sent
    /\ \A b \in (push.sent \ push.refs) \cap Gated :
         push.exit = 0 /\ push.sha[b] # NoCommit => Cleared(push.sha[b], push.ran[b])

GatedTipsCleared ==
    \A b \in Gated : remote[b].by \in {"pushed", "merged"} =>
        /\ remote[b].commit # NoCommit
        /\ Cleared(remote[b].commit, remote[b].ran)
        /\ remote[b].by = "merged" /\ RunsAcceptance(remote[b].commit)
             => remote[b].ran = Verdict(remote[b].commit)

IInv == TypeOK /\ HookOwesNothing /\ GatedTipsCleared

-----------------------------------------------------------------------------
(* A verdict matters only where the hook asks for one.                      *)
LEMMA SameVerdict ==
    ASSUME NEW c, NEW v, NEW w, RunsAcceptance(c) => v = w
    PROVE  RequirementProblem(c, v) <=> RequirementProblem(c, w)
BY DEF RequirementProblem

(* A ref of a gated branch the hook does not refuse is cleared.             *)
LEMMA NotRefused ==
    ASSUME NEW b \in Gated, NEW c, NEW disked, NEW verdict,
           disked # "notRun", ~ Refused(b, c, disked),
           RunsAcceptance(c) => verdict = disked
    PROVE  Cleared(c, verdict)
BY SameVerdict DEF Refused, Cleared

LEMMA NoPushIsFine ==
    /\ NoPush \in Push
    /\ NoPush.refs = {} /\ NoPush.sent = {}
BY DEF NoPush, Push

LEMMA Start == Init => IInv
<1> SUFFICES ASSUME Init PROVE IInv
  OBVIOUS
<1>1. TypeOK
  BY NoPushIsFine DEF Init, TypeOK, Unborn, Tip
<1>2. HookOwesNothing
  BY NoPushIsFine DEF Init, HookOwesNothing
<1>3. GatedTipsCleared
  BY PushAssumption DEF Init, GatedTipsCleared, Unborn
<1> QED
  BY <1>1, <1>2, <1>3 DEF IInv

-----------------------------------------------------------------------------
(* Starting a push: no ref has been read yet.                               *)
LEMMA BeginStep ==
    ASSUME IInv, NEW sent \in SUBSET Branch,
           NEW sha \in [sent -> Commit \cup {NoCommit}], BeginPush(sent, sha)
    PROVE  IInv'
<1>1. push' = [active |-> TRUE, sha |-> Lines(sha), sent |-> sent, refs |-> sent,
               exit |-> 0, ran |-> [b \in Branch |-> "notRun"]]
  BY DEF BeginPush, NoPush
<1>2. UNCHANGED <<disk, remote>>
  BY DEF BeginPush
<1>3. TypeOK'
  BY <1>1, <1>2 DEF IInv, TypeOK, Push, Lines
<1>4. HookOwesNothing'
  BY <1>1 DEF HookOwesNothing
<1>5. GatedTipsCleared'
  BY <1>2 DEF IInv, GatedTipsCleared, Cleared, MilestoneProblem,
     RequirementProblem, RunsAcceptance
<1> QED
  BY <1>3, <1>4, <1>5 DEF IInv

(* One ref: the exit status goes up, or the ref is cleared.                 *)
LEMMA CheckStep ==
    ASSUME IInv, NEW b \in Branch, CheckRef(b)
    PROVE  IInv'
<1> DEFINE c == push.sha[b]
           live == c # NoCommit
           ran == IF live /\ RunsAcceptance(c) THEN disk ELSE push.ran[b]
           exit == IF live /\ Refused(b, c, disk) THEN 1 ELSE push.exit
<1>1. /\ b \in push.refs
      /\ push' = [push EXCEPT !.refs = @ \ {b}, !.exit = exit, !.ran[b] = ran]
      /\ UNCHANGED <<disk, remote>>
  BY DEF CheckRef
<1>2. push \in Push /\ disk \in Acceptance \cup {"absent"}
  BY DEF IInv, TypeOK
<1>3. /\ push'.refs = push.refs \ {b}
      /\ push'.exit = exit
      /\ push'.ran = [push.ran EXCEPT ![b] = ran]
      /\ push'.sent = push.sent /\ push'.sha = push.sha /\ push'.active = push.active
      /\ push' \in Push
  <2> HIDE DEF ran, exit
  <2>1. ran \in Acceptance \cup {"absent", "notRun"} /\ exit \in {0, 1}
    BY <1>2 DEF ran, exit, Push
  <2> QED
    BY <1>1, <1>2, <2>1 DEF Push
<1>4. TypeOK'
  BY <1>1, <1>3 DEF IInv, TypeOK
<1>5. HookOwesNothing'
  <2>1. push'.refs \subseteq push'.sent
    BY <1>3 DEF IInv, HookOwesNothing
  <2>2. ASSUME NEW a \in (push'.sent \ push'.refs) \cap Gated,
               push'.exit = 0, push'.sha[a] # NoCommit
        PROVE  Cleared(push'.sha[a], push'.ran[a])
    <3>1. push.exit = 0 /\ ~ (live /\ Refused(b, c, disk))
      BY <1>3, <2>2
    <3>2. CASE a = b
      <4>1. RunsAcceptance(c) => push'.ran[a] = disk
        BY <1>2, <1>3, <2>2, <3>2 DEF Push
      <4> QED
        BY <1>2, <1>3, <2>2, <3>1, <3>2, <4>1, NotRefused DEF Acceptance
    <3>3. CASE a # b
      <4>1. a \in (push.sent \ push.refs) \cap Gated /\ push'.ran[a] = push.ran[a]
        BY <1>2, <1>3, <2>2, <3>3, PushAssumption DEF Push
      <4> QED
        BY <1>3, <2>2, <3>1, <4>1 DEF IInv, HookOwesNothing
    <3> QED
      BY <3>2, <3>3
  <2> QED
    BY <2>1, <2>2 DEF HookOwesNothing, Cleared, MilestoneProblem,
       RequirementProblem, RunsAcceptance
<1>6. GatedTipsCleared'
  BY <1>1 DEF IInv, GatedTipsCleared, Cleared, MilestoneProblem,
     RequirementProblem, RunsAcceptance
<1> QED
  BY <1>4, <1>5, <1>6 DEF IInv

(* The remote takes over what the hook has cleared, with its verdict.       *)
LEMMA FinishStep ==
    ASSUME IInv, FinishPush
    PROVE  IInv'
<1> DEFINE NewTip(b) == [commit |-> push.sha[b], by |-> "pushed", ran |-> push.ran[b]]
<1>1. /\ push.refs = {}
      /\ push' = NoPush /\ disk' = disk
      /\ remote' = [b \in Branch |->
                      IF push.exit = 1 \/ b \notin push.sent THEN remote[b]
                      ELSE IF push.sha[b] = NoCommit THEN Unborn ELSE NewTip(b)]
  BY DEF FinishPush
<1>2. TypeOK'
  <2>1. ASSUME NEW b \in Branch PROVE Unborn \in Tip /\ NewTip(b) \in Tip
    BY DEF IInv, TypeOK, Push, Tip, Unborn
  <2>2. remote' \in [Branch -> Tip]
    <3> HIDE DEF NewTip
    <3> QED
      BY <1>1, <2>1 DEF IInv, TypeOK
  <2> QED
    BY <1>1, <2>2, NoPushIsFine DEF IInv, TypeOK
<1>3. HookOwesNothing'
  BY <1>1, NoPushIsFine DEF HookOwesNothing
<1>4. GatedTipsCleared'
  <2>1. ASSUME NEW b \in Gated, remote'[b].by \in {"pushed", "merged"}
        PROVE  /\ remote'[b].commit # NoCommit
               /\ Cleared(remote'[b].commit, remote'[b].ran)
               /\ remote'[b].by = "merged" /\ RunsAcceptance(remote'[b].commit)
                    => remote'[b].ran = Verdict(remote'[b].commit)
    <3>1. b \in Branch
      BY PushAssumption
    <3>2. CASE remote'[b] = remote[b]
      BY <2>1, <3>2 DEF IInv, GatedTipsCleared
    <3>3. CASE remote'[b] # remote[b]
      <4>1. push.exit # 1 /\ b \in push.sent
        BY <1>1, <3>1, <3>3
      <4>2. push.sha[b] # NoCommit
        BY <1>1, <2>1, <3>1, <4>1 DEF Unborn
      <4>3. remote'[b] = NewTip(b)
        BY <1>1, <3>1, <4>1, <4>2
      <4>4. push.exit = 0
        BY <4>1 DEF IInv, TypeOK, Push
      <4>5. Cleared(push.sha[b], push.ran[b])
        BY <1>1, <4>1, <4>2, <4>4 DEF IInv, HookOwesNothing
      <4> QED
        BY <4>2, <4>3, <4>5
    <3> QED
      BY <3>2, <3>3
  <2> QED
    BY <2>1 DEF GatedTipsCleared, Cleared, MilestoneProblem, RequirementProblem,
       RunsAcceptance
<1> QED
  BY <1>2, <1>3, <1>4 DEF IInv

(* A branch tip is replaced outside a push: unjudged, which gives no          *)
(* guarantee, or by a merge, which CI has cleared.                          *)
LEMMA TipStep ==
    ASSUME IInv, NEW b \in Branch, NEW tip \in Tip,
           tip.by = "skipped" \/
             /\ tip.by = "merged" /\ tip.commit # NoCommit
             /\ ~ Refused(b, tip.commit, Verdict(tip.commit))
             /\ RunsAcceptance(tip.commit) => tip.ran = Verdict(tip.commit),
           remote' = [remote EXCEPT ![b] = tip], UNCHANGED <<disk, push>>
    PROVE  IInv'
<1>1. TypeOK'
  BY DEF IInv, TypeOK
<1>2. HookOwesNothing'
  BY DEF IInv, HookOwesNothing, Cleared, MilestoneProblem, RequirementProblem,
     RunsAcceptance
<1>3. GatedTipsCleared'
  <2>1. ASSUME NEW a \in Gated, remote'[a].by \in {"pushed", "merged"}
        PROVE  /\ remote'[a].commit # NoCommit
               /\ Cleared(remote'[a].commit, remote'[a].ran)
               /\ remote'[a].by = "merged" /\ RunsAcceptance(remote'[a].commit)
                    => remote'[a].ran = Verdict(remote'[a].commit)
    <3>0. a \in Branch /\ remote \in [Branch -> Tip]
      BY PushAssumption DEF IInv, TypeOK
    <3>1. CASE a = b
      <4>1. remote'[a] = tip /\ tip.by = "merged"
        BY <2>1, <3>0, <3>1
      <4>2. tip.commit \in Commit
        BY <4>1 DEF Tip
      <4>3. Verdict(tip.commit) # "notRun"
        BY <4>2, PushAssumption DEF Acceptance, Verdict
      <4> QED
        BY <3>1, <4>1, <4>3, NotRefused
    <3>2. CASE a # b
      BY <2>1, <3>0, <3>2 DEF IInv, GatedTipsCleared
    <3> QED
      BY <3>1, <3>2
  <2> QED
    BY <2>1 DEF GatedTipsCleared, Cleared, MilestoneProblem, RequirementProblem,
       RunsAcceptance
<1> QED
  BY <1>1, <1>2, <1>3 DEF IInv

LEMMA Inductive == IInv /\ [Next]_vars => IInv'
<1> SUFFICES ASSUME IInv, [Next]_vars PROVE IInv'
  OBVIOUS
<1>1. CASE UNCHANGED vars
  BY <1>1 DEF vars, IInv, TypeOK, HookOwesNothing, GatedTipsCleared, Cleared,
     MilestoneProblem, RequirementProblem, RunsAcceptance
<1>2. ASSUME NEW verdict \in Acceptance \cup {"absent"}, EditFiles(verdict)
      PROVE  IInv'
  BY <1>2 DEF EditFiles, IInv, TypeOK, HookOwesNothing, GatedTipsCleared, Cleared,
     MilestoneProblem, RequirementProblem, RunsAcceptance
<1>3. ASSUME NEW b \in Branch, NEW c \in Commit, SkipPush(b, c)
      PROVE  IInv'
  <2> DEFINE tip == [commit |-> c, by |-> "skipped", ran |-> "notRun"]
  <2>1. tip \in Tip
    BY DEF Tip
  <2> QED
    BY <1>3, <2>1, TipStep DEF SkipPush
<1>4. ASSUME NEW p \in Branch, NEW b \in Branch, MergePullRequest(p, b)
      PROVE  IInv'
  <2> DEFINE c == remote[p].commit
             tip == [commit |-> c, by |-> "merged",
                     ran |-> IF RunsAcceptance(c) THEN Verdict(c) ELSE "notRun"]
  <2>1. c \in Commit
    BY <1>4 DEF MergePullRequest, IInv, TypeOK, Tip
  <2>2. tip \in Tip
    BY <2>1, PushAssumption DEF Tip, Verdict
  <2>3. /\ remote' = [remote EXCEPT ![b] = tip] /\ UNCHANGED <<disk, push>>
        /\ tip.commit # NoCommit /\ tip.by = "merged"
        /\ ~ Refused(b, tip.commit, Verdict(tip.commit))
        /\ RunsAcceptance(tip.commit) => tip.ran = Verdict(tip.commit)
    BY <1>4 DEF MergePullRequest
  <2> HIDE DEF tip
  <2> QED
    BY <2>2, <2>3, TipStep
<1>5. ASSUME NEW p \in Branch, NEW b \in Branch, MergeUngated(p, b)
      PROVE  IInv'
  <2> DEFINE tip == [commit |-> remote[p].commit, by |-> "skipped", ran |-> "notRun"]
  <2>1. tip \in Tip
    BY <1>5 DEF MergeUngated, IInv, TypeOK, Tip
  <2> QED
    BY <1>5, <2>1, TipStep DEF MergeUngated
<1> QED
  BY <1>1, <1>2, <1>3, <1>4, <1>5, BeginStep, CheckStep, FinishStep DEF Next, HookStep

LEMMA Invariant == Spec => []IInv
BY Start, Inductive, PTL DEF Spec

-----------------------------------------------------------------------------
(* The hook's bookkeeping, the remote and the verdicts keep their types       *)
(* through any number of refs, deletions, skipped pushes and merges.         *)
THEOREM TypeCorrect == Spec => []TypeOK
<1>1. IInv => TypeOK
  BY DEF IInv
<1> QED
  BY <1>1, Invariant, PTL

(* pre-push and its CI step let work on a gated branch only with a settled    *)
(* requirement and a synchronized milestone log, for any set of branches.    *)
THEOREM GatedSettled == Spec => []GatedWorkIsSettled
<1>1. IInv => GatedWorkIsSettled
  <2> SUFFICES ASSUME IInv, NEW b \in Gated, remote[b].by \in {"pushed", "merged"}
               PROVE  LET c == remote[b].commit
                      IN  /\ ~ MilestoneProblem(c)
                          /\ PushCovered(State(c)) =>
                               \/ State(c).requirement = "descoped"
                               \/ State(c).requirement = "complete" /\ State(c).idsListed
    BY DEF GatedWorkIsSettled
  <2> DEFINE c == remote[b].commit
  <2>1. c \in Commit
    BY PushAssumption DEF IInv, TypeOK, GatedTipsCleared, Tip
  <2>2. Cleared(c, remote[b].ran)
    BY DEF IInv, GatedTipsCleared
  <2>3. State(c) \in Doc
    BY <2>1, PushAssumption DEF State
  <2> QED
    BY <2>2, <2>3 DEF Cleared, RequirementProblem, PushCovered, Doc, RequirementStatus
<1> QED
  BY <1>1, Invariant, PTL

(* Files that fail acceptance get past a gated branch's pre-push only on the  *)
(* strength of a working tree that differs from the pushed commit or has no    *)
(* validator, and past its CI step only if the commit has no validator.       *)
THEOREM RejectedUnseen == Spec => []RejectedWorkWasNotSeen
<1>1. IInv => RejectedWorkWasNotSeen
  <2> SUFFICES ASSUME IInv, NEW b \in Gated,
                      remote[b].by \in {"pushed", "merged"},
                      RunsAcceptance(remote[b].commit),
                      Content[remote[b].commit].files = "rejected"
               PROVE  IF remote[b].by = "pushed"
                      THEN remote[b].ran \in {"accepted", "absent"}
                      ELSE ~ Content[remote[b].commit].validator
    BY DEF RejectedWorkWasNotSeen
  <2>1. remote[b].ran \in {"accepted", "rejected", "absent", "notRun"}
    BY PushAssumption DEF IInv, TypeOK, Tip, Acceptance
  <2>2. remote[b].ran # "rejected" /\ remote[b].ran # "notRun"
    BY DEF IInv, GatedTipsCleared, Cleared, RequirementProblem, RunsAcceptance
  <2>3. remote[b].by = "merged" => ~ Content[remote[b].commit].validator
    BY <2>2 DEF IInv, GatedTipsCleared, Verdict
  <2> QED
    BY <2>1, <2>2, <2>3
<1> QED
  BY <1>1, Invariant, PTL
=============================================================================
