------------------------------- MODULE CommitGate -------------------------------
(***************************************************************************)
(* git commit under .githooks/pre-commit.                                  *)
(*                                                                         *)
(* The hook looks at three versions of the project: the index (through      *)
(* git diff --cached and git show), the last commit, and the working tree   *)
(* (through the validators and test_command).  git has released its lock on *)
(* the index by then, and reads the index again when the hook succeeds: what *)
(* is staged while the hook runs is committed.                              *)
(*                                                                         *)
(* Consecutive reads by the hook of one of the three are one step; edits,   *)
(* git add and git mv from anywhere happen between any two steps.           *)
(***************************************************************************)
EXTENDS CurrentState

CONSTANTS
    Source,         \* versions of the application source
    Passing,        \* those on which test_command succeeds
    State,          \* versions of current-state.md that occur
    FirstTree       \* the project when the framework is installed

\* moved: a file holds, under another name in docs/, what git takes for
\* the renamed current-state.md.
Tree == [src: Source, cs: State \cup {NoDoc}, moved: BOOLEAN]

ASSUME CommitAssumption ==
    Passing \subseteq Source /\ State \subseteq Doc /\ FirstTree \in Tree

VARIABLES
    wt,         \* the working tree
    idx,        \* the index
    head,       \* the last commit and how it came to be
    hook        \* the pre-commit process

vars == <<wt, idx, head, hook>>

\* by: "skipped" under PROJECT_STARTER_SKIP_VERIFY, "unconfigured" when
\* project_type is blank or the file is missing (the hook only warns).
\* quiet: nobody touched the index while the hook ran.
\* tested: the source test_command succeeded on, if the project has one.
Commit == [tree: Tree, by: {"initial", "verified", "skipped", "unconfigured"},
           quiet: BOOLEAN, tested: SUBSET Source]

Path == {"src", "cs", "moved"}

Hook == [pc: {"idle", "scope", "validate", "document", "finish"},
         staged: SUBSET Path, pass: BOOLEAN, quiet: BOOLEAN, tested: SUBSET Source,
         committable: BOOLEAN]

NoHook == [pc |-> "idle", staged |-> {}, pass |-> TRUE, quiet |-> TRUE,
           tested |-> {}, committable |-> FALSE]

TypeOK ==
    /\ wt \in Tree
    /\ idx \in Tree
    /\ head \in Commit
    /\ hook \in Hook

-----------------------------------------------------------------------------
(* git diff --name-only: of a rename it prints the new name only.           *)
Staged(old, new) ==
    {p \in Path : old[p] # new[p]}
      \ (IF new.cs = NoDoc /\ new.moved /\ ~ old.moved THEN {"cs"} ELSE {})

Init ==
    /\ wt = FirstTree
    /\ idx = FirstTree
    /\ head = [tree |-> FirstTree, by |-> "initial", quiet |-> TRUE, tested |-> {}]
    /\ hook = NoHook

(* Editors, agents and shells change the working tree at any time.          *)
WriteSource(v) ==
    /\ wt' = [wt EXCEPT !.src = v]
    /\ UNCHANGED <<idx, head, hook>>

WriteState(d) ==
    /\ wt' = [wt EXCEPT !.cs = d]
    /\ UNCHANGED <<idx, head, hook>>

IndexTouched == hook' = [hook EXCEPT !.quiet = @ /\ hook.pc = "idle"]

(* git add of one path.                                                     *)
Stage(p) ==
    /\ idx[p] # wt[p]
    /\ idx' = [idx EXCEPT ![p] = wt[p]]
    /\ IndexTouched
    /\ UNCHANGED <<wt, head>>

(* git mv of current-state.md to another name under docs/.                  *)
MoveState ==
    /\ wt.cs # NoDoc /\ idx.cs # NoDoc
    /\ ~ wt.moved /\ ~ idx.moved
    /\ wt' = [wt EXCEPT !.cs = NoDoc, !.moved = TRUE]
    /\ idx' = [idx EXCEPT !.cs = NoDoc, !.moved = TRUE]
    /\ IndexTouched
    /\ UNCHANGED head

-----------------------------------------------------------------------------
\* Variant: the configuration the hook reads joins the list of staged paths.
BeginCommitListingConfig(configured) ==
    /\ hook.pc = "idle"
    /\ hook' = [pc |-> "scope",
                staged |-> Staged(head.tree, idx) \cup {".project-starter.yml"},
                pass |-> configured, quiet |-> TRUE, tested |-> {},
                committable |-> idx # head.tree]
    /\ UNCHANGED <<wt, idx, head>>

(* The hook starts, lists what is staged and reads .project-starter.yml.  A  *)
(* placeholder, unconfirmed or malformed configuration is a refusal.         *)
BeginCommit(configured) ==
    /\ hook.pc = "idle"
    /\ hook' = [pc |-> "scope", staged |-> Staged(head.tree, idx),
                pass |-> configured, quiet |-> TRUE, tested |-> {},
                committable |-> idx # head.tree]
    /\ UNCHANGED <<wt, idx, head>>

\* Variant: with nothing staged under its name, take the file on disk.
ScopeDocumentFromDisk == IF "cs" \in hook.staged THEN idx.cs ELSE wt.cs

(* The unscoped source-change guard reads the staged document if its name is *)
(* in the list, else the one of the last commit.                             *)
ScopeDocument == IF "cs" \in hook.staged THEN idx.cs ELSE head.tree.cs

CheckScope ==
    /\ hook.pc = "scope"
    /\ hook' = [hook EXCEPT
                  !.pc = "validate",
                  !.pass = @ /\ ("src" \in hook.staged => CommitScoped(ScopeDocument))]
    /\ UNCHANGED <<wt, idx, head>>

\* Variant: the exit status of test_command is dropped.
RunValidatorsOnly(documentsPass, hasTests) ==
    /\ hook.pc = "validate"
    /\ hook' = [hook EXCEPT !.pc = "document", !.pass = @ /\ documentsPass,
                            !.tested = IF hasTests THEN {wt.src} ELSE {}]
    /\ UNCHANGED <<wt, idx, head>>

(* The document validators and test_command, where the configuration that    *)
(* was read has one, run on the working tree.                               *)
RunValidators(documentsPass, hasTests) ==
    /\ hook.pc = "validate"
    /\ hook' = [hook EXCEPT
                  !.pc = "document",
                  !.pass = @ /\ documentsPass /\ (hasTests => wt.src \in Passing),
                  !.tested = IF hasTests THEN {wt.src} ELSE {}]
    /\ UNCHANGED <<wt, idx, head>>

(* Closeout, Doc Checklist and Clarifying Questions of a staged document.   *)
CheckDocument ==
    /\ hook.pc = "document"
    /\ hook' = [hook EXCEPT
                  !.pc = "finish",
                  !.pass = @ /\ ("cs" \in hook.staged => CommitDocument(idx.cs))]
    /\ UNCHANGED <<wt, idx, head>>

(* The hook's verdict; git found something to commit before it ran the hook *)
(* and writes the index as it is now.                                       *)
FinishCommit ==
    /\ hook.pc = "finish"
    /\ head' = IF hook.pass /\ hook.committable
               THEN [tree |-> idx, by |-> "verified", quiet |-> hook.quiet,
                     tested |-> hook.tested]
               ELSE head
    /\ hook' = NoHook
    /\ UNCHANGED <<wt, idx>>

\* The hook exits 0 before any check of the commit.
Unverified(by) ==
    /\ hook.pc = "idle"
    /\ idx # head.tree
    /\ head' = [tree |-> idx, by |-> by, quiet |-> TRUE, tested |-> {}]
    /\ UNCHANGED <<wt, idx, hook>>

(* PROJECT_STARTER_SKIP_VERIFY is set.                                      *)
SkippedCommit == Unverified("skipped")

(* There is no .project-starter.yml, or its project_type is blank.           *)
UnconfiguredCommit == Unverified("unconfigured")

Next ==
    \/ \E v \in Source : WriteSource(v)
    \/ \E d \in State \cup {NoDoc} : WriteState(d)
    \/ \E p \in Path : Stage(p)
    \/ MoveState
    \/ \E configured \in BOOLEAN : BeginCommit(configured)
    \/ CheckScope
    \/ \E documentsPass, hasTests \in BOOLEAN : RunValidators(documentsPass, hasTests)
    \/ CheckDocument
    \/ FinishCommit
    \/ SkippedCommit \/ UnconfiguredCommit

Spec == Init /\ [][Next]_vars

-----------------------------------------------------------------------------
(* The hook keeps its promise through every interleaving of its steps with  *)
(* edits: the verdict it gives in pieces, on lists and files read at         *)
(* different moments, adds up to the promise about the commit git writes.    *)
Promise == INSTANCE ScopedHistory WITH Commit <- Commit, head <- head
ImplementsScopedHistory == Promise!Spec

(* Source that fails its tests is in a verified commit only if the working   *)
(* tree held other source while the tests ran, or there are no tests to run.  *)
FailingSourceWasNotTested ==
    head.by = "verified" /\ head.tree.src \notin Passing => head.tree.src \notin head.tested

(* .githooks/pre-commit:354, on the document a source change is judged by:   *)
(* "it looks at whatever version of current-state.md would actually be in    *)
(* the repo after this commit".                                              *)
JudgedByWhatIsCommitted ==
    [][FinishCommit /\ head' # head /\ hook.quiet /\ head.tree.src # head'.tree.src
         => CommitScoped(head'.tree.cs)]_vars
=============================================================================
