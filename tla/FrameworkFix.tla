------------------------------- MODULE FrameworkFix -------------------------------
(***************************************************************************)
(* The self-improving loop: developers run diagnose_spec.py on a project's   *)
(* report; sections their copy of the template lacks are proposed to the     *)
(* framework repository, one branch and one pull request each, by            *)
(* propose_framework_fix.py (round 1) or written to a log (round 2).         *)
(*                                                                         *)
(* A "gap" is a section wanted in a document.  Of a template it matters which *)
(* of them it has, and whether at its end or somewhere in its body: a         *)
(* proposal appends its section, so two made from the same text conflict,    *)
(* while git merges one with whatever was written further up.               *)
(***************************************************************************)
EXTENDS Naturals, SequencesExt

CONSTANTS
    Developer,
    Gap,
    Doc,
    DocOf,          \* the document a gap is in
    Shipped,        \* the documents the framework has a template for
    Branch,
    ProjectType,
    Projects,       \* the project types the developers may have
    BranchOf,       \* build_branch_name, by project type; gaps may share one
    Containing,     \* the headings whose text has "## <gap>" in it
    Resembling,     \* the headings whose text has <gap> in it, in lower case
    Reports,        \* the lists of unfilled sections a project may have
    NoBranch,
    MaxRuns,        \* how often each developer runs diagnose_spec.py
    MaxByHand       \* how many sections maintainers write themselves

ASSUME FixAssumption ==
    /\ Shipped \subseteq Doc
    /\ DocOf \in [Gap -> Doc]
    /\ Projects \subseteq [Developer -> ProjectType]
    /\ BranchOf \in [ProjectType -> [Gap -> Branch]]
    /\ Containing \in [Gap -> SUBSET Gap]
    /\ Resembling \in [Gap -> SUBSET Gap]
    /\ \A g \in Gap : g \in Containing[g]
    /\ Reports \subseteq Seq(Gap)
    /\ MaxRuns \in Nat /\ MaxByHand \in Nat

VARIABLES
    upstream,   \* the templates of the framework repository, by document
    branches,   \* its branches: the gap a branch fills and the end it is put to
    prs,        \* the branches with an open pull request
    byHand,     \* how many sections maintainers have written
    overlooked, \* those written although they were there or on their way
    projectType, \* each developer's
    local,      \* each developer's copy of the templates
    runs,       \* how often each has run diagnose_spec.py
    at,         \* where each developer's round is
    todo,       \* the gaps the round still has to propose
    base,       \* the end of the template in the temporary clone
    log,        \* each developer's logs/framework-gaps.md
    said,       \* what a developer has been told about a gap
    proposed    \* the pull requests there have been: a branch, a gap

hosted == <<upstream, branches, prs, byHand, overlooked, proposed>>
own == <<projectType, local, runs, at, todo, base, log, said>>
fixVars == <<hosted, own>>

Template == [body: SUBSET Gap, tail: Seq(Gap)]
Templates == [Doc -> Template]
Work == [gap: Gap, base: Seq(Gap)]

FixTypeOK ==
    /\ upstream \in Templates
    /\ branches \in [Branch -> Work \cup {NoBranch}]
    /\ prs \in SUBSET {b \in Branch : branches[b] # NoBranch}
    /\ byHand \in 0..MaxByHand /\ overlooked \in SUBSET Gap
    /\ projectType \in Projects
    /\ local \in [Developer -> Templates]
    /\ runs \in [Developer -> 0..MaxRuns]
    /\ at \in [Developer -> {"idle", "next", "committed", "pushed"}]
    /\ todo \in [Developer -> Seq(Gap)]
    /\ base \in [Developer -> Seq(Gap)]
    /\ log \in [Developer -> Seq(Gap)]
    /\ said \in [Developer -> [Gap -> SUBSET {"opened", "skipped", "error"}]]
    /\ proposed \in SUBSET (Branch \X Gap)
    /\ \A d \in Developer : at[d] # "idle" <=> todo[d] # <<>>

FixInit ==
    /\ upstream = [f \in Doc |-> [body |-> {}, tail |-> <<>>]]
    /\ projectType \in Projects
    /\ branches = [b \in Branch |-> NoBranch]
    /\ prs = {} /\ proposed = {} /\ byHand = 0 /\ overlooked = {}
    /\ local = [d \in Developer |-> upstream]
    /\ runs = [d \in Developer |-> 0]
    /\ at = [d \in Developer |-> "idle"]
    /\ todo = [d \in Developer |-> <<>>]
    /\ base = [d \in Developer |-> <<>>]
    /\ log = [d \in Developer |-> <<>>]
    /\ said = [d \in Developer |-> [g \in Gap |-> {}]]

-----------------------------------------------------------------------------
Sections(template) == template.body \cup ToSet(template.tail)

(* classify_gap: the template is not there, or no heading of it is like the   *)
(* section's.                                                              *)
FrameworkLevel(templates, g) ==
    DocOf[g] \in Shipped => Sections(templates[DocOf[g]]) \cap Resembling[g] = {}

\* The list of them, as the only member of a set of lists.
Gaps(d, report) ==
    {list \in BoundedSeq(Gap, Len(report)) :
        list = SelectSeq(report, LAMBDA g : FrameworkLevel(local[d], g))}

\* Variant: that no gap is the framework's does not end the round.
RoundOneUnchecked(d, report) ==
    /\ at[d] = "idle" /\ runs[d] < MaxRuns
    /\ runs' = [runs EXCEPT ![d] = @ + 1]
    /\ \E gaps \in Gaps(d, report) : todo' = [todo EXCEPT ![d] = gaps]
    /\ at' = [at EXCEPT ![d] = "next"]
    /\ UNCHANGED <<hosted, projectType, local, base, log, said>>

RoundOne(d, report) ==
    /\ at[d] = "idle" /\ runs[d] < MaxRuns
    /\ runs' = [runs EXCEPT ![d] = @ + 1]
    /\ \E gaps \in Gaps(d, report) :
          /\ todo' = [todo EXCEPT ![d] = gaps]
          /\ at' = [at EXCEPT ![d] = IF gaps = <<>> THEN "idle" ELSE "next"]
    /\ UNCHANGED <<hosted, projectType, local, base, log, said>>

(* Round 2 appends what it finds to the log, rows already there or not.       *)
RoundTwo(d, report) ==
    /\ at[d] = "idle" /\ runs[d] < MaxRuns
    /\ runs' = [runs EXCEPT ![d] = @ + 1]
    /\ \E gaps \in Gaps(d, report) : log' = [log EXCEPT ![d] = @ \o gaps]
    /\ UNCHANGED <<hosted, projectType, local, at, todo, base, said>>

Current(d) == Head(todo[d])
BranchFor(d) == BranchOf[projectType[d]][Current(d)]

(* propose_fix has returned `what`, its clone is gone: report, take the next.  *)
Told(d, what) ==
    /\ said' = [said EXCEPT ![d][Current(d)] = @ \cup {what}]
    /\ todo' = [todo EXCEPT ![d] = Tail(@)]
    /\ at' = [at EXCEPT ![d] = IF Len(todo[d]) = 1 THEN "idle" ELSE "next"]
    /\ base' = [base EXCEPT ![d] = <<>>]

\* Variant: the idempotency guard is not there.
PrepareUnguarded(d) ==
    /\ at[d] = "next"
    /\ DocOf[Current(d)] \in Shipped
    /\ base' = [base EXCEPT ![d] = upstream[DocOf[Current(d)]].tail]
    /\ at' = [at EXCEPT ![d] = "committed"]
    /\ UNCHANGED <<hosted, projectType, local, runs, todo, log, said>>

(* Clone, branch, and append the section, drafted or as a placeholder, to the *)
(* template, if there is one and it has no such text yet.                    *)
Prepare(d) ==
    /\ at[d] = "next"
    /\ DocOf[Current(d)] \in Shipped
    /\ Sections(upstream[DocOf[Current(d)]]) \cap Containing[Current(d)] = {}
    /\ base' = [base EXCEPT ![d] = upstream[DocOf[Current(d)]].tail]
    /\ at' = [at EXCEPT ![d] = "committed"]
    /\ UNCHANGED <<hosted, projectType, local, runs, todo, log, said>>

Skip(d) ==
    /\ at[d] = "next"
    /\ DocOf[Current(d)] \in Shipped
    /\ Sections(upstream[DocOf[Current(d)]]) \cap Containing[Current(d)] # {}
    /\ Told(d, "skipped")
    /\ UNCHANGED <<hosted, projectType, local, runs, log>>

\* No clone, no branch, no template, or no commit.
PrepareFails(d) ==
    /\ at[d] = "next"
    /\ Told(d, "error")
    /\ UNCHANGED <<hosted, projectType, local, runs, log>>

(* The clone is shallow: a branch of that name can only be created, since    *)
(* its history does not have what an existing one is at.                     *)
Push(d) ==
    /\ at[d] = "committed"
    /\ branches[BranchFor(d)] = NoBranch
    /\ branches' = [branches EXCEPT ![BranchFor(d)] = [gap |-> Current(d), base |-> base[d]]]
    /\ at' = [at EXCEPT ![d] = "pushed"]
    /\ UNCHANGED <<upstream, prs, byHand, overlooked, proposed, projectType, local, runs, todo, base, log, said>>

\* Variant: a failing push is tried again.
PushFailsAgain(d) ==
    /\ at[d] = "committed"
    /\ UNCHANGED at
    /\ said' = [said EXCEPT ![d][Current(d)] = @ \cup {"error"}]
    /\ UNCHANGED <<hosted, projectType, local, runs, todo, base, log>>

\* The network, or a branch of that name.
PushFails(d) ==
    /\ at[d] = "committed"
    /\ Told(d, "error")
    /\ UNCHANGED <<hosted, projectType, local, runs, log>>

OpenPR(d, answer) ==
    /\ at[d] = "pushed"
    /\ branches[BranchFor(d)] # NoBranch /\ BranchFor(d) \notin prs
    /\ prs' = prs \cup {BranchFor(d)}
    /\ proposed' = proposed \cup {<<BranchFor(d), branches[BranchFor(d)].gap>>}
    /\ Told(d, answer)
    /\ UNCHANGED <<upstream, branches, byHand, overlooked, projectType, local, runs, log>>

\* Variant: whether `gh pr create` has failed is not looked at.
OpenPRIgnored(d) ==
    /\ at[d] = "pushed"
    /\ Told(d, "opened")
    /\ UNCHANGED <<hosted, projectType, local, runs, log>>

\* `gh pr create` fails; the branch stays.
OpenPRFails(d) ==
    /\ at[d] = "pushed"
    /\ Told(d, "error")
    /\ UNCHANGED <<hosted, projectType, local, runs, log>>

\* The developer stops the run, wherever it is.
Interrupt(d) ==
    /\ at[d] # "idle"
    /\ said' = [said EXCEPT ![d][Current(d)] = @ \cup {"error"}]
    /\ todo' = [todo EXCEPT ![d] = <<>>]
    /\ at' = [at EXCEPT ![d] = "idle"]
    /\ base' = [base EXCEPT ![d] = <<>>]
    /\ UNCHANGED <<hosted, projectType, local, runs, log>>

(* A step of the two programs; the answer to a created pull request may be   *)
(* lost, which looks like a failure.                                        *)
Proceed(d) ==
    \/ Prepare(d) \/ Skip(d) \/ PrepareFails(d)
    \/ Push(d) \/ PushFails(d)
    \/ OpenPRFails(d)
    \/ \E answer \in {"opened", "error"} : OpenPR(d, answer)

-----------------------------------------------------------------------------
(* Maintainers.  A pull request merges if the end of the document is still    *)
(* what it was made from: otherwise both sides have appended, which conflicts. *)
(* What has come into the body meanwhile is no obstacle.                     *)
Merge(b) ==
    LET g == branches[b].gap
    IN  /\ b \in prs
        /\ upstream[DocOf[g]].tail = branches[b].base
        /\ upstream' = [upstream EXCEPT ![DocOf[g]].tail = Append(@, g)]
        /\ prs' = prs \ {b}
        /\ UNCHANGED <<branches, byHand, overlooked, proposed, own>>

ClosePR(b) ==
    /\ b \in prs
    /\ prs' = prs \ {b}
    /\ UNCHANGED <<upstream, branches, byHand, overlooked, proposed, own>>

DeleteBranch(b) ==
    /\ branches[b] # NoBranch /\ b \notin prs
    /\ branches' = [branches EXCEPT ![b] = NoBranch]
    /\ UNCHANGED <<upstream, prs, byHand, overlooked, proposed, own>>

(* A section is on its way while a clone or a branch is there to append it.   *)
UnderWay(g) ==
    \/ \E d \in Developer : at[d] \in {"committed", "pushed"} /\ Current(d) = g
    \/ \E b \in Branch : branches[b] # NoBranch /\ branches[b].gap = g

\* At the end of a template, where two additions to one text conflict.
AppendSection(g) ==
    /\ byHand < MaxByHand
    /\ DocOf[g] \in Shipped /\ g \notin Sections(upstream[DocOf[g]])
    /\ upstream' = [upstream EXCEPT ![DocOf[g]].tail = Append(@, g)]
    /\ byHand' = byHand + 1
    /\ UNCHANGED <<branches, prs, overlooked, proposed, own>>

(* Anywhere else, from whatever version the maintainer had: one that may not   *)
(* yet have had the section at its end.                                      *)
WriteSection(g) ==
    /\ byHand < MaxByHand
    /\ DocOf[g] \in Shipped /\ g \notin upstream[DocOf[g]].body
    /\ upstream' = [upstream EXCEPT ![DocOf[g]].body = @ \cup {g}]
    /\ overlooked' = IF UnderWay(g) \/ g \in ToSet(upstream[DocOf[g]].tail)
                     THEN overlooked \cup {g} ELSE overlooked
    /\ byHand' = byHand + 1
    /\ UNCHANGED <<branches, prs, proposed, own>>

\* A developer takes over the framework's templates.
Update(d) ==
    /\ at[d] = "idle"
    /\ local' = [local EXCEPT ![d] = upstream]
    /\ UNCHANGED <<hosted, projectType, runs, at, todo, base, log, said>>

FixNext ==
    \/ \E d \in Developer :
          \/ \E report \in Reports : RoundOne(d, report) \/ RoundTwo(d, report)
          \/ Proceed(d) \/ Interrupt(d) \/ Update(d)
    \/ \E b \in Branch : Merge(b) \/ ClosePR(b) \/ DeleteBranch(b)
    \/ \E g \in Gap : AppendSection(g) \/ WriteSection(g)

(* A round, once begun, goes on by itself; nobody has to run one, merge or    *)
(* clean up.                                                               *)
FixSpec == FixInit /\ [][FixNext]_fixVars /\ \A d \in Developer : WF_fixVars(Proceed(d))

-----------------------------------------------------------------------------
(* However proposals of any project types, merges and hand-written sections   *)
(* interleave, no two proposals give a template the same section, and one     *)
(* doubles a hand-written one only if that was written, away from the end,     *)
(* while the proposal was already made: later ones see it and are skipped.    *)
TwiceOnlyIfOverlooked ==
    \A f \in Doc :
        /\ IsInjective(upstream[f].tail)
        /\ upstream[f].body \cap ToSet(upstream[f].tail) \subseteq overlooked

(* What a developer is told is so: "skipped" means that the text is there,      *)
(* "opened" that the branch has had a pull request (for whichever of the gaps   *)
(* that share its name), and a branch left behind without one has been reported *)
(* to somebody, or is still being worked on.                                 *)
FailureIsTold ==
    /\ \A d \in Developer, g \in Gap :
          /\ "opened" \in said[d][g] =>
                \E h \in Gap : <<BranchOf[projectType[d]][g], h>> \in proposed
          /\ "skipped" \in said[d][g] => Sections(upstream[DocOf[g]]) \cap Containing[g] # {}
    /\ \A b \in Branch : branches[b] # NoBranch /\ <<b, branches[b].gap>> \notin proposed =>
          \E d \in Developer :
             \/ at[d] = "pushed" /\ BranchFor(d) = b
             \/ /\ BranchOf[projectType[d]][branches[b].gap] = b
                /\ "error" \in said[d][branches[b].gap]

(* A round ends, also when the repository refuses everything it tries.        *)
RoundsEnd == \A d \in Developer : at[d] # "idle" ~> at[d] = "idle"
=============================================================================
