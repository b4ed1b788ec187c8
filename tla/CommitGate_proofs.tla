--------------------------- MODULE CommitGate_proofs ---------------------------
(***************************************************************************)
(* The properties of CommitGate for any source versions, any test suite and *)
(* any set of documents, and the proof that it implements ScopedHistory.    *)
(***************************************************************************)
EXTENDS CommitGate, TLAPS

Running == hook.pc # "idle"

(* What the hook knows half-way.  While nobody touches the index, the list   *)
(* it made at the start is still the difference git will commit, and each    *)
(* check it has passed speaks of that difference.                            *)
ListCurrent == Running /\ hook.quiet => hook.staged = Staged(head.tree, idx)

ScopeChecked ==
    /\ hook.pc \in {"validate", "document", "finish"}
    /\ hook.pass /\ hook.quiet
    /\ "src" \in hook.staged
    => CommitScoped(ScopeDocument)

DocumentChecked ==
    /\ hook.pc = "finish"
    /\ hook.pass /\ hook.quiet
    /\ "cs" \in hook.staged
    => CommitDocument(idx.cs)

SourceTested ==
    /\ hook.pc \in {"document", "finish"} /\ hook.pass => hook.tested \subseteq Passing
    /\ head.by = "verified" => head.tested \subseteq Passing

HookInv == ListCurrent /\ ScopeChecked /\ DocumentChecked /\ SourceTested

IInv == TypeOK /\ HookInv

-----------------------------------------------------------------------------
LEMMA StagedPaths ==
    ASSUME NEW old, NEW new PROVE Staged(old, new) \in SUBSET Path
BY DEF Staged

(* What the list says of the two trees.                                     *)
LEMMA StagedMeaning ==
    ASSUME NEW old, NEW new
    PROVE  /\ old.src # new.src => "src" \in Staged(old, new)
           /\ old.cs # new.cs /\ new.cs # NoDoc => "cs" \in Staged(old, new)
           /\ old.cs # new.cs /\ "cs" \notin Staged(old, new) =>
                new.cs = NoDoc /\ ~ old.moved /\ new.moved
<1>1. /\ "src" \in Path /\ "cs" \in Path
      /\ old["src"] = old.src /\ new["src"] = new.src
      /\ old["cs"] = old.cs /\ new["cs"] = new.cs
  BY DEF Path
<1> QED BY <1>1 DEF Staged

LEMMA Start == Init => IInv
<1> SUFFICES ASSUME Init PROVE IInv
  OBVIOUS
<1>1. TypeOK
  BY CommitAssumption DEF Init, TypeOK, Commit, Hook, NoHook, Tree
<1>2. HookInv
  BY DEF Init, NoHook, HookInv, Running, ListCurrent, ScopeChecked,
         DocumentChecked, SourceTested
<1> QED BY <1>1, <1>2 DEF IInv

(* Edits of the working tree are invisible to everything the hook has read. *)
LEMMA WorkingTreeStep ==
    ASSUME IInv, wt' \in Tree, UNCHANGED <<idx, head, hook>> PROVE IInv'
BY DEF IInv, TypeOK, HookInv, Running, ListCurrent, ScopeChecked, ScopeDocument,
       DocumentChecked, SourceTested

(* A change of the index is noticed by a running hook and forgotten by none. *)
LEMMA IndexStep ==
    ASSUME IInv, wt' \in Tree, idx' \in Tree, IndexTouched, UNCHANGED head
    PROVE  IInv'
<1>1. hook' \in Hook /\ hook'.pc = hook.pc /\ hook'.staged = hook.staged
      /\ hook'.pass = hook.pass /\ hook'.tested = hook.tested
      /\ (Running => ~ hook'.quiet)
  BY DEF IInv, TypeOK, Hook, IndexTouched, Running
<1>2. TypeOK'
  BY <1>1 DEF IInv, TypeOK
<1>3. HookInv'
  BY <1>1 DEF IInv, HookInv, Running, ListCurrent, ScopeChecked, DocumentChecked,
              SourceTested
<1> QED BY <1>2, <1>3 DEF IInv

LEMMA Step == IInv /\ [Next]_vars => IInv'
<1> SUFFICES ASSUME IInv, [Next]_vars PROVE IInv'
  OBVIOUS
<1>1. ASSUME NEW v \in Source, WriteSource(v) PROVE IInv'
  <2>1. wt' \in Tree
    BY <1>1 DEF WriteSource, IInv, TypeOK, Tree
  <2> QED BY <1>1, <2>1, WorkingTreeStep DEF WriteSource
<1>2. ASSUME NEW d \in State \cup {NoDoc}, WriteState(d) PROVE IInv'
  <2>1. wt' \in Tree
    BY <1>2 DEF WriteState, IInv, TypeOK, Tree
  <2> QED BY <1>2, <2>1, WorkingTreeStep DEF WriteState
<1>3. ASSUME NEW p \in Path, Stage(p) PROVE IInv'
  <2>1. idx' \in Tree /\ wt' \in Tree
    BY <1>3 DEF Stage, IInv, TypeOK, Tree, Path
  <2> QED BY <1>3, <2>1, IndexStep DEF Stage
<1>4. ASSUME MoveState PROVE IInv'
  <2>1. idx' \in Tree /\ wt' \in Tree
    BY <1>4 DEF MoveState, IInv, TypeOK, Tree
  <2> QED BY <1>4, <2>1, IndexStep DEF MoveState
<1>5. ASSUME NEW c \in BOOLEAN, BeginCommit(c) PROVE IInv'
  <2>1. TypeOK'
    BY <1>5, StagedPaths, CommitAssumption
    DEF BeginCommit, IInv, TypeOK, Hook, Tree
  <2>2. HookInv'
    BY <1>5 DEF BeginCommit, IInv, HookInv, Running, ListCurrent, ScopeChecked,
                DocumentChecked, SourceTested
  <2> QED BY <2>1, <2>2 DEF IInv
<1>6. ASSUME CheckScope PROVE IInv'
  <2>1. TypeOK'
    BY <1>6 DEF CheckScope, IInv, TypeOK, Hook
  <2>2. HookInv'
    BY <1>6 DEF CheckScope, IInv, TypeOK, Hook, HookInv, Running, ListCurrent,
                ScopeChecked, ScopeDocument, DocumentChecked, SourceTested
  <2> QED BY <2>1, <2>2 DEF IInv
<1>7. ASSUME NEW ok \in BOOLEAN, NEW tests \in BOOLEAN, RunValidators(ok, tests) PROVE IInv'
  <2>1. TypeOK'
    BY <1>7 DEF RunValidators, IInv, TypeOK, Hook, Tree
  <2>2. HookInv'
    BY <1>7 DEF RunValidators, IInv, TypeOK, Hook, HookInv, Running, ListCurrent,
                ScopeChecked, ScopeDocument, DocumentChecked, SourceTested
  <2> QED BY <2>1, <2>2 DEF IInv
<1>8. ASSUME CheckDocument PROVE IInv'
  <2>1. TypeOK'
    BY <1>8 DEF CheckDocument, IInv, TypeOK, Hook
  <2>2. HookInv'
    BY <1>8 DEF CheckDocument, IInv, TypeOK, Hook, HookInv, Running, ListCurrent,
                ScopeChecked, ScopeDocument, DocumentChecked, SourceTested
  <2> QED BY <2>1, <2>2 DEF IInv
<1>9. ASSUME FinishCommit PROVE IInv'
  <2>1. TypeOK'
    BY <1>9, CommitAssumption
    DEF FinishCommit, IInv, TypeOK, Hook, NoHook, Commit, Tree
  <2>2. HookInv'
    BY <1>9 DEF FinishCommit, NoHook, IInv, TypeOK, Hook, HookInv, Running,
                ListCurrent, ScopeChecked, DocumentChecked, SourceTested
  <2> QED BY <2>1, <2>2 DEF IInv
<1>10. ASSUME NEW by \in {"skipped", "unconfigured"}, Unverified(by) PROVE IInv'
  <2>1. TypeOK'
    BY <1>10, CommitAssumption DEF Unverified, IInv, TypeOK, Commit, Tree
  <2>2. HookInv'
    BY <1>10 DEF Unverified, IInv, HookInv, Running, ListCurrent,
                 ScopeChecked, DocumentChecked, SourceTested
  <2> QED BY <2>1, <2>2 DEF IInv
<1>11. CASE UNCHANGED vars
  BY <1>11, WorkingTreeStep DEF vars, IInv, TypeOK
<1> QED BY <1>1, <1>2, <1>3, <1>4, <1>5, <1>6, <1>7, <1>8, <1>9, <1>10, <1>11
        DEF Next, SkippedCommit, UnconfiguredCommit

LEMMA Inductive == Spec => []IInv
BY Start, Step, PTL DEF Spec

-----------------------------------------------------------------------------
(* The variables keep their types.                                          *)
THEOREM TypeCorrect == Spec => []TypeOK
<1>1. IInv => TypeOK
  BY DEF IInv
<1> QED BY Inductive, <1>1, PTL

(* Whatever is edited while the hook runs, failing source is verified only   *)
(* when it is not the source the tests ran on.                               *)
THEOREM FailingUntested == Spec => []FailingSourceWasNotTested
<1>1. IInv => FailingSourceWasNotTested
  BY DEF IInv, HookInv, SourceTested, FailingSourceWasNotTested
<1> QED BY Inductive, <1>1, PTL

-----------------------------------------------------------------------------
(* The abstract specification reads documents with the same predicates.     *)
LEMMA SameReading ==
    ASSUME NEW d
    PROVE  /\ Promise!CommitScoped(d) <=> CommitScoped(d)
           /\ Promise!CommitDocument(d) <=> CommitDocument(d)
           /\ Promise!NoDoc = NoDoc
BY DEF Promise!CommitScoped, CommitScoped, Promise!CommitDocument, CommitDocument,
       Promise!CommitTask, CommitTask, Promise!CommitFields, CommitFields,
       Promise!CloseoutDone, CloseoutDone, Promise!ClarificationsAnswered,
       ClarificationsAnswered, Promise!NoDoc, NoDoc

(* The last step of the hook is the abstract step.                          *)
LEMMA FinishKeepsPromise ==
    ASSUME IInv, TypeOK', FinishCommit PROVE [Promise!Next]_head
<1> SUFFICES ASSUME hook.pass, hook.committable PROVE Promise!Next
  BY DEF FinishCommit
<1>1. head'.tree = idx /\ head'.quiet = hook.quiet /\ head' \in Commit
  BY DEF FinishCommit, TypeOK
<1>2. ASSUME hook.quiet PROVE Promise!SourceScoped(head.tree, idx)
  <2> SUFFICES ASSUME head.tree.src # idx.src
               PROVE  \/ CommitScoped(idx.cs)
                      \/ /\ idx.cs = NoDoc /\ ~ head.tree.moved /\ idx.moved
                         /\ CommitScoped(head.tree.cs)
    BY SameReading DEF Promise!SourceScoped
  <2>1. hook.staged = Staged(head.tree, idx)
    BY <1>2 DEF FinishCommit, IInv, HookInv, ListCurrent, Running
  <2>2. CommitScoped(ScopeDocument)
    BY <1>2, <2>1, StagedMeaning DEF FinishCommit, IInv, HookInv, ScopeChecked
  <2>3. CASE "cs" \in hook.staged
    BY <2>2, <2>3 DEF ScopeDocument
  <2>4. CASE "cs" \notin hook.staged
    BY <2>1, <2>2, <2>4, StagedMeaning DEF ScopeDocument
  <2> QED BY <2>3, <2>4
<1>3. ASSUME hook.quiet PROVE Promise!DocumentClosed(head.tree, idx)
  <2>1. hook.staged = Staged(head.tree, idx)
    BY <1>3 DEF FinishCommit, IInv, HookInv, ListCurrent, Running
  <2> QED BY <1>3, <2>1, StagedMeaning, SameReading
          DEF FinishCommit, IInv, HookInv, DocumentChecked, Promise!DocumentClosed
<1> QED BY <1>1, <1>2, <1>3 DEF Promise!Next, Promise!Follows

(* git commit under the hook implements the promise about the history.      *)
THEOREM Refinement == Spec => ImplementsScopedHistory
<1>1. Init => Promise!Init
  BY Start DEF Init, IInv, TypeOK, Promise!Init
<1>2. ASSUME IInv, IInv', [Next]_vars PROVE [Promise!Next]_head
  <2>1. ASSUME NEW by \in {"skipped", "unconfigured"}, Unverified(by)
        PROVE  [Promise!Next]_head
    BY <1>2, <2>1 DEF Unverified, IInv, TypeOK, Promise!Next, Promise!Follows
  <2>2. CASE FinishCommit
    BY <1>2, <2>2, FinishKeepsPromise DEF IInv
  <2>3. CASE UNCHANGED head
    BY <2>3
  <2> QED BY <1>2, <2>1, <2>2, <2>3
          DEF Next, vars, WriteSource, WriteState, Stage, MoveState, BeginCommit,
              CheckScope, RunValidators, CheckDocument, SkippedCommit, UnconfiguredCommit
<1> QED BY <1>1, <1>2, Inductive, PTL DEF Spec, ImplementsScopedHistory, Promise!Spec
=============================================================================
