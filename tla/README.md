# project_starter_v5: a TLA+ verification project

`project_starter_v5` is a set of files that gets copied into other projects to
make a coding agent work in an agreed order: ask, scope, agree on an approach,
implement, close out, document. The order is enforced by a chain of *gates*: a
hook of the agent's editor, two git hooks and a CI job. They share no process
and no lock. Each is a short program that reads files other programs are
writing, and lets something through or refuses it.

What can be wrong with such a system is rarely in one of the programs. It is
in what one program read and another has changed since, in two readers of one
line that disagree, in a verdict on one version of the files applied to
another. That is what this project models.

Contents: 1 Inventory, 2 Modules, 3 Runs, 4 Proofs, 5 Findings, 6 Not
modelled, 7 What could come next.

## 1. Inventory

### The enforcement chain

| Part | State it keeps | Operations | Interacts with |
|---|---|---|---|
| `docs/current-state.md`, the task document | Task, Clarifying Questions Asked, Approach Confirmed, Clarifications, impact lines, Status, Closeout, Doc Checklist, Requirement Status and IDs | edited by people and agents at any time | read by every gate, each with its own patterns |
| Session switch (`checkpoint_session_state.py`, `record_checkpoint_choice.py`, `session-start-hook.sh`) | one slot, `checkpoint-session-choices.json`, for all sessions | prompt at SessionStart, record the answer (truncate, write), read it | PreToolUse guard |
| PreToolUse guard (`pretooluse_scope_guard.py`) | none | `decide` on each Edit/Write call | configuration, slot, task document |
| `.githooks/pre-commit` | none; `PASS` while it runs | list what is staged, read configuration, check scope, run validators and tests, check the task document, verdict | git's index, the last commit, the working tree |
| `.githooks/pre-push` | none; `EXIT` while it runs | for each ref: requirement gate, milestone gate; verdict | the pushed commits, the working tree (acceptance), the remote |
| CI job (`templates/ci/github-actions-verify.yml`) | none | both hooks on a pull request | the head of the pull request |
| Telemetry logs | JSON lists, rewritten as a whole for each row | append | Stop hook, validators, a commit that skips verification |
| `run-verify.sh` | none | the same gates again after each write, as advice | working tree |

Hard behaviours: sessions of one project overlap; a recording command or a log
writer can be killed between truncating a file and writing it; the index and the
working tree change while a hook runs; a push has several refs; a hook judges
one version of a file (index, last commit, working tree) and another version is
what gets through.

What makes these parts correct:

* session switch: no session is ever judged by somebody else's answer or an old
  one; an answer once recorded is obeyed; nobody is left ungated without having
  been asked;
* guard and pre-commit: source changes only under a scoped task; a task closes
  only with its closeout done;
* pre-commit: what it promises, it promises of the commit git writes, not of
  what it happened to look at;
* pre-push and CI: a gated branch holds only finished or descoped requirements,
  and its documentation is synchronized; other branches can always be pushed;
* logs: rows are never invented, doubled or reordered; damage stays local.

### What a task is worked on with

| Part | State it keeps | Operations | What would make it correct |
|---|---|---|---|
| `detect_type.py`, `init.py` | `.project-starter.yml`, `.gitignore`, installed hooks | score the files and the requirements, recommend, `--apply`, initialise | the hook never passes a guessed type before a person looked at it; more evidence for a type never removes it |
| `orchestrator.py`, `build-context.py` | plan, read list, adapters' files, run counter | resolve the task type, build the read list, write the plan, count | plan and read list are for one kind of task; no run is counted twice |
| registries (`_registry.py`, `verify_registry.py`) | none | read `document-registry.yaml` twice, with two parsers | all gates demand the same documents |
| document validators (`verify_content.py`, `verify_module_docs.py`, `verify_docs.py`, `verify_logs.py`, `verify_tests.py`) | none | grade a document | a draft nobody wrote in fails; working on a document never makes it worse |
| `verify_acceptance.py` | none | follow the ids of requirements through plan, tests and report | what is accepted piece by piece is accepted as a whole, and stays accepted |
| `verify_spec_code.py`, capability adapters, 23 detectors | none | read specification and code, compare | drift fails, agreement passes |
| `agent_pipeline.py` | usage totals | order roles, ask, retry on format | dependencies first; every attempt paid for once; the first answer stands |
| `semantic.py` | tokens used, telemetry row | ask about renamed fields within a budget | budget overshot by one call at most, and flagged |
| `framework_fix_agents.py`, `propose_framework_fix.py`, `diagnose_spec.py` | a clone, a branch, a pull request | find gaps, draft, review, propose | no section proposed twice; a failure is told; nothing unreviewed is proposed |
| generators, scanners, `verify_framework.py`, OTel, skills, templates | none | output only | |

Hard behaviours here: a type is confirmed, then guessed again; two runs of
`orchestrator.py` overlap while somebody switches the task; a query fails after
it was paid for; a push succeeds and the pull request does not; two developers
find one gap; a label's first match is replaced by a line written later; one
unreadable file silences a detector.

The hazards all parts are exposed to are listed, with their lines, in
`PROJECT.json` under `hazards`; each names the property that would notice, or
says why none does. Section 6 lists smaller ones that no property can speak about.

## 2. Modules

```
CurrentState              the task document as its readers see it (operators only)
  CheckpointSession       session switch + guard                    MCCheckpointSession
  ScopedHistory           what pre-commit promises (abstract)
  CommitGate              git commit under pre-commit               MCCommitGate
  PushGate                git push under pre-push, CI               MCPushGate

AgentPipeline, SemanticPass, AiDraft   the programs that pay for answers
NormalizedForms           what specification and code are turned into; comparison
  SpecSections            the capability adapters' half
  Detectors               the frameworks' half
  SpecCode                verify_spec_code.py (MCSpecCode)          } MCLlmCalls

FrameworkFix              the self-improving loop                   MCFrameworkFix

Documents                 a document as regular expressions see it
  ContentChecks, ModuleChecks, SpecAudits    one condition per checker
  DocumentGate            an author and the verdict (MCDocumentGate)
TypeDetection             detect_type.py's tables and recommendation
  ProjectSetup            guess, edit, confirm, initialise, commit
Orchestration             orchestrator.py, build-context.py
Registry                  document-registry.yaml and its readers
TelemetryLog              the append of a telemetry row
Acceptance                verify_acceptance.py                      } MCProject

CheckpointSession_proofs, CommitGate_proofs, PushGate_proofs, FrameworkFix_proofs
                          theorems about the module of that name
SpecCode_proofs           NormalizedForms, SpecSections, Detectors, SpecCode
LlmCalls_proofs           AgentPipeline, SemanticPass, AiDraft, and MCLlmCalls
ProjectChecks_proofs      TelemetryLog, Orchestration, TypeDetection, ProjectSetup,
                          Acceptance, Registry, Documents to DocumentGate, and MCProject
InductionLemmas           least elements and folds, for SpecCode_, LlmCalls_ and
                          ProjectChecks_proofs
```

### CurrentState

A document is a record of line classes. A class exists if at least one reader
tells it apart: the Task line is `bracketed`, `leading` or `mixed` because the
guard looks for one bracket from end to end, pre-push for a leading bracket and
pre-commit for any bracket; `empty` (the bare label) exists because the guard's
pattern runs on into the next line and takes that for the task, pre-commit sees
no bracket and accepts, and pre-push sees nothing and does not cover the
document. `GuardScoped`, `CommitScoped`, `CommitDocument` and `PushCovered` are
the readers' verdicts. A missing file is `NoDoc`, the document with no lines,
which is what `_content_at ... || true` makes of it.

Assumptions: an empty label is followed by another field, as in the template;
one `current-state.md` per project; fields the user's answers go into are only
distinguished as answered or not.

### CheckpointSession

| Model | Code |
|---|---|
| `slot` | `logs/telemetry/checkpoint-session-choices.json`: an answer of one session, `Missing`, `Empty` (truncated), `Garbled` (one text over a longer one) |
| `SessionStart` | the checkpoint part of `session-start-hook.sh`, at start, resume and compaction |
| `Answer` | the agent asks as told, the user answers |
| `OpenSlot`, `FillSlot`, `CrashRecorder` | `write_choice`, cut at the only point where another process can see it |
| `ReadChoice`, `Decide`, `ToolCall` | `read_choice`, `decide`, `main` of the guard |
| `EditState`, `EditMode` | the task document and `.project-starter.yml` change under everybody's hands |

`Mode` has a value for a quoted `"session-prompt"`: the guard strips quotes, the
hook's `grep` does not, so such a project has a guard in session mode that nobody
is ever asked about. `AskedBeforeFailingOpen` is therefore about sessions that
started under the unquoted value (section 6).

`answer`, `recording`, `startMode`, `prompted` and `alone` record what people and
commands did; the code does not keep them, and nothing in `Decide` reads them.

### CommitGate and ScopedHistory

`wt`, `idx` and `head` are the three versions of the project the hook looks at,
each a record of source, task document and whether a renamed task document lies
beside it. `hook` is the process: `pc`, its staged list, `PASS`. Its steps are
cut where it turns from one version to another:

| Step | Reads | Lines of `pre-commit` |
|---|---|---|
| `BeginCommit` | index (name list), configuration | 79-83, 186-339 |
| `CheckScope` | index or last commit | 347-399 |
| `RunValidators` | working tree | 401-445 |
| `CheckDocument` | index | 473-557 |
| `FinishCommit` | verdict; git writes the index *as it is now* | 751-758 |

`Stage`, `MoveState`, `WriteSource` and `WriteState` happen between any two of
them. That git reads the index again after the hook was checked with git 2.39:
what is added while the hook runs is in the commit. `quiet` records that nobody
did so. `Staged` is `git diff --name-only`, which prints a rename under the new
name; git takes a move for a rename by similarity, and an unedited move always
is one.

`SkippedCommit` and `UnconfiguredCommit` are the two exits before any check
(`PROJECT_STARTER_SKIP_VERIFY`; no `.project-starter.yml`, or a blank
`project_type`). Refusals that depend only on the configuration
(placeholder, unknown adapter, unconfirmed type, malformed number) are one
choice, `configured`; so are the document validators, `documentsPass`, whose
rules are text. `test_command` is kept apart because it judges the source:
`Passing`. Whether there is one (`hasTests`) may differ from commit to commit.

`ScopedHistory` is the promise with no hook in it: one variable, the last
commit, and what a verified, quiet commit may change with respect to its
predecessor. `CommitGate` implements it with `head` for `head`, no other mapping
being needed. The promise contains the exception that holds for a renamed
document, since that is what the code does; section 5 is about it.

### PushGate

`push` is one run of the hook: the commits to be sent (fixed when git starts
it), the refs not read yet, `EXIT`, and, as a record, what `verify_acceptance.py`
said for each ref. `disk` is what it would say of the working tree now.
`CheckRef` is one turn of the `while read` loop, in any order of refs;
`FinishPush` sends all refs or none. `MergePullRequest` is the same script in CI,
where the working tree is the checked-out head: its files, its validator, which
may be missing (`Verdict`: then the gate only warns, there as at a push), and its
list of gated branches (`MergeUngated`). `Content` gives what `git show` finds in
each commit, and what a checkout of it has.

A merge is taken to leave the task document and the log as they are in the head
of the pull request. The gated branches of the developer's own configuration
(`Gated`), the type and `milestone_sync_stale_days` are constants: a change of them
between two pushes is not modelled, except that a push under another configuration
may pass unexamined (`SkipPush`). The attribute `old` of a log says that the age test would
fire; it does not change while a push runs.

### TelemetryLog

One log, any number of processes that each add a row: `ReadRows` (a missing, torn
or non-list file is an empty list), `TruncateLog`, `FillLog`, and `KillWriter` in
between. The three writers in the code are copies of one another; the module is
about any of the logs, each by itself.

### AgentPipeline, SemanticPass, AiDraft

`Consider` and `EndTurn` are the two loops of `_ordered_roles`; then each role is
asked. A query answers in the required form, answers in another, or fails, and
whatever it does may have been charged (`billed`, `heard`: what the world did,
which the program does not keep). `SemanticPass` is the loop of
`semantic_compare` with the budget looked at before each item, and the row it
writes. Two things are lost there without more than a warning, and the properties
say so: a log that cannot be read, parsed or written does not take the row
(`WriteRow`, `rowLost`; for `AiDraft` `Close`, `usageLost`); and a request that raises
may have been charged, which the program cannot see (`AskInVain`, `wasted`), so that
this comes on top of the budget. `AiDraft` is draft and review of a template section under
`FRAMEWORK_FIX_TOKEN_BUDGET`. Tokens and dollars are small numbers: what matters is
which sum they are in.

### FrameworkFix

`upstream` has each template of the framework repository, of which it matters which
sections it has at its end, in order, and which in its body; each developer has a list
of gaps still to propose, a clone (`base`, the end of the template there) and a step
(`at`). `Prepare`, `Push` and `OpenPR`, with their failing forms and `Skip`, follow
`propose_framework_fix.py` with each failure after clone, push and pull request;
maintainers merge, close, delete branches and write sections by hand in between.

`Merge` is what git does: a proposal appends its section, so it merges if the end of
the template is what it was made from, and whatever has come into the body meanwhile
is no obstacle. A maintainer's section may stand at the end (`AppendSection`, which
conflicts with an open proposal) or elsewhere (`WriteSection`, which does not, and is
taken to start from any earlier version). That is how a section can be there twice:
`overlooked` records the sections written while a proposal of them was under way or
merged, and `TwiceOnlyIfOverlooked` says that there is no other way. Nobody takes a
section out of a template again.

A branch name is a function of project type, document and gap (`build_branch_name`);
`BranchOf` gives it by project type and gap, since a gap belongs to one document. It
need not be injective, because names are shortened. Two developers of different types
propose the same section under two names. The guard against doubling looks for a
heading anywhere in the text (`Containing`), as in the code.

### Documents, ContentChecks, ModuleChecks, SpecAudits, DocumentGate

A line is what the validators' expressions tell apart: its form, the label, title
or word it carries, how far its value is filled in, and for a table row its cells.
Two properties of the expressions decide most verdicts and are part of
`Documents`: the white space after a label runs across lines (`Captured`), and a
placeholder counts only when it is the whole value (`Whole`, `Filled`). Only rows have
cells, and they have at least one. Each checker is one operator, the condition under which it returns no issue; the two merely
advisory audits keep their grades. `DocumentGate` is an author who adds lines at the
end and fills values in, in any order. What counts as adding is in its assumption: a
line of placeholders is no progress in a document graded by its share of filled lines,
nor a raw `print(` in one that complains of them.

### TypeDetection, ProjectSetup

The scoring tables with their points, the addition, the thresholds and the hybrid
rule, exactly; a signal is a row of a table that applies. `ProjectSetup` is what
happens to `.project-starter.yml`: `Apply` (refused on low confidence unless forced,
a file with or without a type line), `InitProject`, people's edits and
confirmations, `Stage` (git add), and the commit. The hook reads the file on disk
(`ConfirmationGuard`), git commits the index: `staged` records whose decision the type
in the index is and whether that is still the text on disk, `committed` the same of
the last commit, with the text the hook judged. `CommitUnjudged` is a commit without
the hook, with the skip variable, or with nothing for the hook to verify (no file, or
a blank type, `NothingToVerify`). `author` records who wrote the type that is in the
file.

### Orchestration

A run is cut where it reads or writes a file others use: resolve, read list, plan,
name of the task, read counter, truncate it, write it, adapters' files. It may stop
between any two. `ContextRefused` is the task type without a workflow, which
`build-context.py` does not take.

### Registry

An entry is written in one of the spellings that the line parser and PyYAML may
read differently (a list inline, as a block, over two lines, with a comment behind
it; a comment behind the key). PyYAML, which is not part of the repository, is
modelled by what it returns for these. The two do not read every registry alike: behind
a list, over two lines or behind a key, the line parser (`HandRead`) loses what PyYAML
reads, so that a registry `verify_registry.py` accepts can demand less of the gates.
No document promises otherwise, and `GatesAgree` is about registries written plainly
(`Plainly`). `lite` and the list of documents present
change while the gates look.

### NormalizedForms, SpecSections, Detectors, SpecCode

Both sides become lists of items with a key, two lists of fields and one more
attribute; `Compare` is the comparison, with the later of two items of one key.
`SpecSections` is one operator per capability, `Detectors` one per framework, over
declarations: functions, classes, calls, blocks, decorators. A regular expression
stands for what it matches. `WrittenIn` writes one operation in each of the 23
notations, so that specification and code can say the same. `SpecCode` lets both be
edited by hand and runs the validator, with and without a framework named, and with
a file that does not parse or is not UTF-8.

`Told` is what a specification says of an operation's fields, `Shown` what its code
does, and `SameOperation` what a comparison of the two can be expected to tell apart:
Express routes and log points show no fields, Terraform and React Native no types, only
the four web frameworks and three of the pipelines' what comes out; what goes in and
what comes out are compared as one dictionary. `Expressible` are the operations both
notations can say. It leaves out a field named like a header of its table (`Header`: one
list of words per kind of table) or like a parameter the detector takes for the
framework's own (`Skipped`: one list per detector), untyped fields of a stage, which
its detectors take for none, and operations without fields where nothing else makes a
detector recognise them.

### Acceptance

The documents as sets of the ids they declare, test, cover and report on, and the
eight checks over them, once for a whole project and once for the ids of a
requirement (`--only`), which is how the push gate calls it. Rows of the test plan are
read below `### In Scope`, and below `## Test Scope` as long as there is no such heading:
`HeadInScope` puts it in, and rows above it no longer count.

## 3. Runs

| Run | Module, cfg | Bounds | States | Shows |
|---|---|---|---|---|
| `checkpoint_session` | `MCCheckpointSession` | 2 sessions, a scoped and a missing document | 0.8 M | `NoStaleAnswer`, `RecordedAnswerHolds`, `AskedBeforeFailingOpen` |
| `commit_gate` | `MCCommitGate` | 3 sources (one failing), 3 documents and none | 4.5 M | `FailingSourceWasNotTested`, `ImplementsScopedHistory` |
| `push_gate` | `MCPushGate` | 2 branches, 6 commits | 0.4 M | `GatedWorkIsSettled`, `RejectedWorkWasNotSeen`, `WorkInProgressIsBackedUp` |
| `llm_calls` | `MCLlmCalls` | 3 roles, 72 graphs, 2 retries; reports of 3 items; 6 operations in 23 frameworks | 0.3 M | see below |
| `framework_fix` | `MCFrameworkFix` | 2 developers of one or two types, 3 gaps, 2 documents, 1 run each, 1 section by hand | 1.2 M | `TwiceOnlyIfOverlooked`, `FailureIsTold`, `RoundsEnd` |
| `project` | `MCProject` | see below | 0.6 M | see below |
| `checkpoint_mismatch` | `CheckpointSessionMismatch.cfg` | as above | | `MismatchMeansUnanswered` is violated |
| `commit_judged` | `CommitGateJudged.cfg` | as above | | `JudgedByWhatIsCommitted` is violated |
| `push_working_tree` | `PushGateWorkingTree.cfg` | as above | | `AcceptedAsPushed` is violated |
| `placeholder_rationale` | `PlaceholderRationale.cfg` | as `project`, documents only | | `PlaceholderRationaleFails` is violated |
| `guess_staged` | `GuessStaged.cfg` | as `project`, setup only | | `GuessNeverCommits` is violated |
| `documented_endpoints` | `DocumentedEndpoints.cfg` | as `llm_calls`, two operations | | `DocumentedEndpointsPass` is violated |

`llm_calls` and `project` each explore several programs that share nothing one of
them writes and another reads. A variable `program` says which of them runs; the
others stay as they begin. Nothing is lost by that, and the product of their states
is avoided.

`llm_calls`: `DependenciesFirst`, `RefusedIfUnresolvable`, `EveryAttemptCounted`,
`FirstAnswerStands`, `SpendBounded` of the pipeline; `OvershootOfOneCall`,
`FlagMeansUnasked`, `RowHasAllTokens` of the semantic pass; `OnlyReviewedText` of the
draft; `DriftIsSeen` (a run of `--strict` that passes means agreement) and its converse
`AgreementPasses` of `verify_spec_code.py`; `CallsEnd` of the three that ask.

`project`: `BareDraftFails` and `ProgressNeverHurts` of 41 kinds of document, each with the
labels and words its own checker looks for and up to three lines added;
`GuessNeverPasses` and `MoreEvidenceKeepsType` with 8 signals, three at a time;
`PlanMatchesContext` and `NoRunCountedTwice` with two overlapping runs;
`GatesAgree` over registries of at most two entries in every spelling;
`HistoryInOrder` and `UndisturbedRowsKept` with four log writers;
`ScopedRunsSumUp` and `AcceptedStaysAccepted` with three ids.

Why the bounds are enough. Sessions meet only in the slot, which holds one
answer: two sessions produce every overlap of two writes, and a third could only
add another overwriting. Symmetry is over sessions, which no definition tells
apart. For commits, one source that fails and two that pass give every change of
source with every outcome of the tests; the documents are one of each verdict
(unscoped, scoped, scoped but carelessly closed, deleted). The six commits of
`MCPushGate` are one for each way the hook can judge (unfinished, failing
acceptance, failing without the validator in the commit, finished, log
unsynchronized under an uncovered document, descoped with an overdue log), one of
which names no gated branch to CI, and two branches are enough for a
gated problem followed by an ungated success. Three roles make chains, forks,
cycles and waiting on a role that is not listed. The three gaps of `MCFrameworkFix`
are one, one whose heading contains the first's and whose branch has the same name in
one of the two project types, and one without a template. Signals reach each threshold, tie, and make hybrids of two or
three candidates. Four log writers overlap in twos and threes and leave one that
runs alone. An operation of `MCSpecCode` comes with each type, with and without a
path parameter, untyped, with two lists of fields and with none; that of
`documented_endpoints` with a field called `name` and with one called `id`. Three
lines are enough for a label, a second match of it and a heading that ends its section.

Bounds that cut something off: `MaxRuns` (started runs), `MaxByHand`, `MaxFound`
(signals), `MaxAdded` (lines), `MaxEvals` (rows of `eval-log.md`); the proofs below are
for every value of those they touch.

Deadlock is checked in every run but `project` and those that share its modules:
documents, setup and orchestration really come to rest when their bounds are used
up. Elsewhere the end of a program is an explicit step.

Fairness. Three specifications state it.
* `PushGate`: weak fairness of `HookStep`, the hook's turns and git's reaction to its
  exit. The hook is a child process git waits for, its loop runs over a finite
  input, and each turn is enabled until it is taken; edits cannot disable it.
* `MCLlmCalls`: weak fairness of each sequential program. It assumes that a query
  returns, if only with an error; `agent_pipeline.py` bounds its cost but not its
  time, which is on the hazard list. `CallsEnd` is about what the program adds to
  that: its ordering loop, its retries and its budget.
* `FrameworkFix`: weak fairness of `Proceed`, a developer's running command, which
  runs `git` and `gh` and has a failing alternative at each of them. Nothing obliges
  a developer to start, or maintainers to merge.
Nothing is assumed about people, pull requests or CI anywhere.

Each property has a mutant: a definition named *Variant* next to the one it
changes, and the run of the property fails with the variant in place.

## 4. Proofs

The theorems hold for arbitrary constants under the assumptions in the modules: the
documents that occur are documents, the sentinels differ from the data they stand
beside, gated branches are branches, lists of roles have no role twice and roles are
finitely many, signals are for types and have points, an absent field of a registry
has no value, and what an author adds is a line and, as said above, progress. TLC
evaluates each assumption in the runs.

**InductionLemmas.** The library's induction theorems take a predicate, which no
installed prover can instantiate. What can be cited is that a set of numbers, or of
subsets of a finite set, has a least element, if it has any: so a claim by induction is
proved of the least element of the set of its counterexamples. `LeastNat` and
`LeastSubset` say that; `FoldExists`, `SameFold` and `FoldAnyOrder` derive from it that a
fold over a finite set (`FoldSet`, which removes the element `CHOOSE` picks) exists and
depends on neither the order nor a renaming, if its step commutes. All later inductions
over lists, documents and sets of signals are of this form.

**CheckpointSession_proofs** — `TypeCorrect`, `NeverStale`, `RecordedHolds`,
`AskedFirst`. `NoStaleAnswer` is not inductive: a session between truncation and
write has an answer that is not in the slot, and one about to answer again has
an old one that may be. The invariant adds what the slot may hold in each stage
of recording, and that a session alone with the slot finds it as it left it.
`AskedFirst` is an action property and follows from the invariant at the step.

**CommitGate_proofs** — `TypeCorrect`, `FailingUntested`, `Refinement`. The hook
gives its verdict in pieces. The invariant says what `PASS` stands for at each
`pc` as long as the index is quiet: the staged list is still the difference to
the last commit, and the checks already passed hold of the index *as it is*.
Once somebody touches the index only the promise about tests remains, which does
not depend on it. `FinishKeepsPromise` turns the pieces into the abstract step;
`StagedMeaning` says what can be concluded from a name that is not in the list.

**PushGate_proofs** — `TypeCorrect`, `GatedSettled`, `RejectedUnseen`. The
invariant says what exit status 0 stands for in the middle of the loop: every
gated ref read so far was cleared with the verdict remembered for it
(`HookOwesNothing`), and every gated tip was cleared when it arrived
(`GatedTipsCleared`). `NotRefused` is the one place where the two checks are
opened.

**SpecCode_proofs** — `SpecCodeTypes`, `DriftFails`, `AgreementSuffices`: a `--strict` run
of `verify_spec_code.py` passes exactly what agrees, for any operations that satisfy
`Expressible`, in each of the 23 frameworks. The bridge between specification and code
is that each operation has two forms, one that a specification tells (`FormSaid`) and one that
its code shows (`FormShown`), and the argument has four parts.

* *Specification*: whatever the capability, the extractor yields `FormSaid` of each
  operation and nothing else (`SpecSide`).
* *Code*: what is written of an operation in a framework (`WrittenAs`, `Beside`,
  `GinPart`) is what its source has (`SourceCarried`), and the framework's own detector
  reads all of it as `FormShown` (`OwnDetector`, with a lemma for each of the 23). Where
  no framework is named, the other detectors of the capability are run on the same
  files: they read the same forms from them, or nothing (`OtherDetector`). Click's
  detector on Typer's commands reads other options; it comes first, and the later of two
  items with one key counts (`ByKeyOfLast`). On Click's own commands it is the other
  way round, which is why the two properties leave that case out. `CodeSide` and
  `Blinded` (a file that is not UTF-8) sum this up.
* *Comparison*: on either side, and across, the key tells the operation (`KeysTell`), and
  two forms differ in the fields and types `SameOperation` speaks of
  (`FormsCompare`); so nothing is reported exactly if each side has the like of each operation
  on the other (`NothingReported`).
* *Time*: the inductive invariant (`SpecCodeInv`) is that an outcome is forgotten at an
  edit, and no name occurs twice in a specification or in the code (`EditedOnce`).
  Without the second, Django's urls and Gin's routes would be bound to another
  operation's function.

Sequences are handled by `At` (what is kept of a sequence) and `FlattenSeq`, of which
`AtFacts` and `FlattenFacts` say what they contain.

**LlmCalls_proofs** — of the pipeline `PipelineTypes`, `ContextIsThere`,
`RefusedForACause`, `NoRunawaySpending`, `BooksBalance`, `NoSecondOpinion`. The order is
arranged before the first query and not touched afterwards (`Arranged`); the roles
before `at` have a result, those from `at` on have none (`DoneSoFar`), and the books of
the role being asked are apart from the others' (`Books`). The sum of the report is a
sum of the same function on both sides, so no induction over roles is needed there.
`RefusedForACause` has two halves. A turn in vain leaves over roles each of which waits
for one of them or for one not listed (`ScanInv`); and if there is a set of roles that
wait for each other, the first of them in the order would have been placed before a
role it waits for, which the least such position excludes. Of the semantic pass
`LastCallOvershoots`, `FlagIsExact`, `TokensInRow`: items are asked in order
(`AskedInOrder`), the books agree (`Counted`) and the budget was not used up before the
last call (`WithinBudget`). Of a drafted section `DraftIsReviewed`: each phase determines
what has been charged and recorded so far (`Ledger`, `PhaseOfDraft`). `CallsTyped` is
about the composition `MCLlmCalls`: its specification implies that of each program
(`CallsRun`), whose theorems therefore hold in it; `CallsChecked` carries the two of
`SpecCode_proofs` over.

**FrameworkFix_proofs** — `FixTypes`, `NoneTwiceUnlessOverlooked`, `ToldAsItIs`. A
proposal carries the end of the text it was made from, and that does not have its
section (`BranchesFresh`, `RoundsFresh`); a merge appends only to the end a branch was
made from. That the body has it is not excluded, but then it came there while the
proposal was under way, which the invariant records in `overlooked`. A branch
without a pull request bears its gap's name, and either its developer is about to
open one or has been told of the failure (`FailureTraced`).

**ProjectChecks_proofs**, by component:

* *Telemetry logs*: `LogTypes`, `HistoryKept`, `RowsKept`. The log does not
  carry the argument, because a process may write back a list it read long ago. The
  invariant is that every list anywhere, in the file or in a process's memory, is
  past: finished processes in the order they finished, and the past only grows. For
  `RowsKept` it adds what a process that runs alone is about to write: the kept rows
  at the end, over a log that is empty.
* *Orchestration*: `PlanTypes`, `CountedOnce`, `PlanAndListAgree`. Most copies of the run
  counter are stale. What is inductive is that a copy falls short of the runs that came
  to be counted by at least those that are still counting (`CountInv`); bounds of the
  type invariant follow from it, so the two are proved together. For the plan: a number
  belongs to one run, and a run's read list is there before its plan.
* *Type of a project*: `SetupTypes`, `ConfirmedFirst`, `MorePointsKeepType`,
  `MoreEvidenceKept`. A guess in the file is always marked as unconfirmed
  (`GuessIsMarked`), because every writer of a guess marks it and every remover of the
  mark is a person; and as long as the index is called current, it has the author of
  the file (`IndexIsFile`), so what the hook reads is what is committed. `MorePointsKeepType` is about the recommendation for given scores;
  `MoreEvidenceKept` adds that a signal raises the score of its own type alone. Scores
  are folds over sets of signals, so this is where `FoldAnyOrder` is needed.
* *Acceptance*: `AcceptanceTypes`, `ScopedRunsSuffice`, `AcceptedForGood`. Eight checks
  that report what they miss are turned into what they demand of one id (`Met`,
  `AcceptedMeans`); the two properties then follow id by id.
* *Registry*: `GatesAlwaysAgree`, for registries of any length: the two parsers make the
  same list of a plain registry, by induction on its entries, and the three functions
  that decide on `lite` are compared on it.
* *Documents*: `NothingWrittenFails`, `ProgressIsKept`. Both go through every checker.
  The second needs a relation between a document and the same document later that is
  preserved by everything a checker does with it: `LineUp` for a line (the same, or its
  value filled in) and `Progress` for a document (line by line, with lines added at the
  end). The lemmas say what that relation implies for the first match of a label, the body of a section, the
  rows and cells of a table, and a count of lines (`FirstLabel`, `SectionUp`, `RowsUp`,
  `RowCells`, `CountUp`); each checker is monotone in those (`CheckersUp`, `ModulesUp`,
  `BodyChecksUp`, `LogsUp`, `ReportUp`), and the share of filled lines is a quotient
  (`ShareUp`).
* *Composition*: `ProjectTyped`. `ProjectRuns` shows that `MCProject` implies the
  specification of each of its six programs.

Some definitions were changed because a proof did not go through. `Bare` was said
to hold of documents whose headings have level 1 or 2; a heading of level 2 under one of
level 1 counts as the content of its section, so `BareDraftFails` was not true of
drafts longer than those the run makes, and `Bare` now excludes a heading below another.
`Lines` allowed cells in lines that are no rows and rows without cells, which the
expressions never yield. `Dropped`, the editing of a list of operations in `SpecCode`,
was a filter; names occur once in such a list, so it is now the removal of one element,
which the prover can expand. `DriftIsSeen` was too strong and `AgreementPasses` too weak:
they compared an operation's two lists of fields apart and knew one reserved name, which
the operations of the run did not put to the test. In general the first is false where a field
moves from request to response, where one is called like another table's header, where a
stage has an untyped output, and with Luigi, whose parameters are compared with
documented outputs too;
`Told`, `Shown` and `Expressible` say now what can be seen. `AgreementPasses` spoke of
equal lists only, and is now the converse. The detectors kept items with `SelectSeq`,
whose definition is recursive; `At` says the same with `FlattenSeq`.

Model-checked only, and why:

* `WorkInProgressIsBackedUp`, `CallsEnd`, `RoundsEnd` are liveness properties, outside
  the prover.
* Properties of `violation` runs are false.

## 5. Findings

1. *One slot, several sessions* (`checkpoint_mismatch`). The docstring of
   `checkpoint_session_state.py` says a session id mismatch always means that this
   session has not answered. When two sessions of a project both answer, the
   first one's answer is gone: its guard reads "not answered" and fails open,
   although its user chose enforcement. `NoStaleAnswer` holds throughout: the
   design never obeys a wrong answer, it forgets a right one.
2. *A renamed task document* (`commit_judged`). pre-commit means to judge the
   document "that would actually be in the repo after this commit". It finds out
   whether the document is staged by its name in the list of changes, and a
   rename is listed under its new name, so it judges the version of the last
   commit and passes a commit without any document.
3. *Acceptance of the working tree* (`push_working_tree`). The header of pre-push
   says both checks read the pushed commit; the acceptance validator runs on the
   files that happen to be checked out. `RejectedWorkWasNotSeen` is what remains
   true: work that fails acceptance gets through a push only if other files were on
   disk, or no validator, and through CI, which checks out the head, only if that
   head has no `verify_acceptance.py` (`pre-push:79-80` then only warns).
4. *An unfilled template passes* (`placeholder_rationale`). The expressions for
   `**Decision:**` and `**Rationale:**` capture the closing asterisks with the value,
   so `[Final choice]` is not one bracket span any more. `BareDraftFails` is what
   holds: placeholders that stand alone are seen. Behind a bullet, a bold label or a
   table bar they are not, which is why the shipped templates of research,
   test-plan, permissions, most contracts, release guide, topology, deployment,
   database and the business documents pass in part or whole as they are.
5. *A guess in the index* (`guess_staged`). The README says that pre-commit blocks
   commits while `project_type_confirmed` is `false`. The hook looks for that line in
   the file on disk; git commits the index. A guess that has been staged, and is then
   confirmed or replaced on disk without another `git add`, is committed as it was
   staged: unconfirmed. `GuessNeverPasses` is what holds: a text the hook did read
   holds no unseen guess.
6. *A field called name* (`documented_endpoints`). The tables of `api-contract.md` are
   "what `_parse_field_table()` actually reads", and it takes every row that begins
   with `name` for a header. An endpoint with such a field can not be documented.

## 6. Not modelled, and why

* In pre-commit: the AGENTS.md budget and the writing-audience, spec-code,
  security and prose gates, which add further independent reasons to refuse and
  no state; the diff-range mode that CI uses. Which paths are source: the guard and
  pre-commit have two lists for it, which the models take as given.
* Text as text: the regular expressions of the validators and detectors are taken
  for what they match, and generators, scanners, reports and layout are left out.
* Validators that compare word lists or file names (`verify_prose.py`,
  `verify_requirements_form.py`, `verify_index_coverage.py`,
  `verify_workflow_registry.py`) or read other tools' output (`verify_security.py`).
* `verify_framework.py`, `mcp_tools.py`, `llm_security_review.py`, the LLM-drafted
  detectors and module flows: one-shot programs that keep no state and whose result
  a person reads.
* `git push --no-verify`, `git commit --no-verify`: the code does not see them.
  `PROJECT_STARTER_SKIP_VERIFY` is modelled, and properties speak of commits and
  tips that did pass a gate.
* Files are read at once: the hooks read each with one command.
* Telemetry writes larger than a buffer reach the file in parts; readers cannot
  tell a partial list from an empty file, so `Empty` stands for both.
* `build-context.py` started by hand, and two hand edits inside one read.
* Components with status `not_modelled` in `PROJECT.json`, with reasons there.

Behaviours met while modelling that no property covers, because the code promises
nothing about them; where a module has one, it is named:

* `session-start-hook.sh:125` asks only if the raw line says session-prompt, the guard
  strips quotes and case: `AskedBeforeFailingOpen` leaves such sessions out.
* `pre-commit:359`: renaming a source file into docs/ is not seen as a source change.
  `pre-commit:200`: a configuration without `docs_path:` ends the hook with no message.
* `pre-push:124`: the last pending layer entry needs a `---` line behind it.
* `propose_framework_fix.py:180` takes a longer heading for the section
  (`Containing`); `framework_fix_agents.py:185` loses the usage of a reply without
  content (`DraftFails`).
* `semantic.py:287` matches verdicts by position, not by the names they carry.
* `verify_tests.py:170` lets the rows of a later section fill the contract-test section
  (`FromMention`).
* `verify_acceptance.py:454` takes the last row of a log for the newest run;
  `:318` finds a tested id in any column (`Acceptance` reads both so).
* `build-context.py:164` refuses a task type without a workflow
  (`ContextRefused`); `orchestrator.py:420`: `--no-overwrite` keeps a plan while the adapters'
  files are written from a newer one (`RunAdapters`); `detect_type.py:836` prints a
  command with a hybrid type that `init.py` refuses.
* `_verify_common.py:165`: a comment behind `doc_profile: lite` makes it full;
  `verify_content.py:1194`: its telemetry row can say pass for a run that failed.
* `fastapi.py:52` skips a file that does not parse (`fault = "syntax"`) and `:87` sees one
  decorator per function; `verify_spec_code.py:268` keeps one type for two fields of one
  name, and a field that moves from request to response is not reported (`Fields`).

## 7. What could come next

1. **ScopePaths** — path classification of guard and pre-commit, renames over
   several paths; pure operators, compared over small paths.
2. **CommitGate extended** — diff-range mode and a composition of CommitGate and
   PushGate for the pull request, so that what CI demands of a range is related to
   what each commit was held to.
3. The milestone log as a sequence of entries with its two scanners.
