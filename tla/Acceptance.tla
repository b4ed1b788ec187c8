------------------------------ MODULE Acceptance -------------------------------
(***************************************************************************)
(* verify_acceptance.py: the ids project-requirements.md declares, followed *)
(* through the test plan, the plan's tasks, the test report and the logs of *)
(* particular types.  It runs over a whole project, or with --only over the *)
(* ids of one requirement, which is what the push gate does; the documents  *)
(* go on being written between its runs.                                    *)
(***************************************************************************)
EXTENDS Integers, Sequences, FiniteSets

CONSTANTS
    FR, AC,         \* ids of functional requirements and acceptance criteria
    Numbered,       \* the ACs that end in digits
    ScopeRows,      \* rows people write under In Scope
    Strategies,     \* test levels people write under Testing Strategy
    Reports,        \* test-report.md as people and tools write it
    EdgeCase,       \* EC ids
    Audited,        \* the project types
    MaxEvals        \* rows of eval-log.md

Id == FR \cup AC

(* A row is filled if no prompt is left in it and its first cell has no      *)
(* bracket; its ids count in whatever column they stand.                    *)
ScopeRow == [filled : BOOLEAN, ids : SUBSET Id, cases : SUBSET EdgeCase]

(* test-report.md: a section is missing, as in the template, or filled.     *)
Filling == {"missing", "template", "filled"}
Report == [exists : BOOLEAN, pass : BOOLEAN, numbers : BOOLEAN, modules : Filling, contracts : Filling]

ASSUME AcceptanceAssumption ==
    /\ FR \cap AC = {} /\ Numbered \subseteq AC
    /\ ScopeRows \subseteq ScopeRow /\ Reports \subseteq Report
    /\ MaxEvals \in Nat

VARIABLES
    required,   \* ids with a filled entry in project-requirements.md
    scope,      \* the rows read of test-plan.md's scope: those of "### In Scope", if
                \* it has that heading (inner), else of "## Test Scope", if it has that
    levels,     \* the test levels of its strategy
    covers,     \* ids on the filled **Covers:** lines of project-plan.md
    report,     \* test-report.md
    evals,      \* the runs of eval-log.md, "pass" or "fail"
    adopted,    \* EC ids of api-contract.md without brackets
    audited     \* the project's types

acceptanceVars == <<required, scope, levels, covers, report, evals, adopted, audited>>

AcceptanceTypeOK ==
    /\ required \subseteq Id /\ covers \subseteq Id /\ adopted \subseteq EdgeCase
    /\ scope \in [section : BOOLEAN, inner : BOOLEAN, rows : SUBSET ScopeRow]
    /\ report \in Report /\ evals \in Seq({"pass", "fail"})

-------------------------------------------------------------------------------
RequiredTestLevels == [type \in {"web-app", "cli-tool", "library", "data-pipeline", "ml-pipeline",
                                 "microservices", "llm-app", "iac", "mobile-app"} |->
    CASE type \in {"web-app", "mobile-app"} -> {"Unit", "Integration", "E2E"}
      [] type \in {"cli-tool", "library"} -> {"Unit", "Integration"}
      [] type \in {"data-pipeline", "ml-pipeline"} -> {"Unit", "Contract", "E2E"}
      [] type = "microservices" -> {"Unit", "Integration", "Contract"}
      [] type = "llm-app" -> {"Integration", "Contract", "E2E"}
      [] type = "iac" -> {"Integration", "E2E"}]
ContractTypes == {"data-pipeline", "ml-pipeline"}
ApiContractTypes == {"web-app", "microservices"}

Issue(what, which) == {<<what, x>> : x \in which}
Problem(what, holds) == IF holds THEN {<<what, "">>} ELSE {}

(* Layer 1.  An AC without digits is declared, but does not make the section *)
(* filled.                                                                   *)
CheckRequirements ==
    Problem("no FR", required \cap FR = {}) \cup Problem("no AC", required \cap Numbered = {})

RealRows == IF scope.section THEN {row \in scope.rows : row.filled} ELSE {}
InScope == UNION {row.ids : row \in RealRows}

\* Variant: a scoped run does not ask for ACs.
CheckAcCoverageWhole(acs, scoped) ==
    IF scoped \/ InScope \cap AC = {} THEN {} ELSE Issue("AC untested", acs \ InScope)

(* A whole run asks for ACs in the test plan once it has one; a scoped run   *)
(* always.                                                                   *)
CheckAcCoverage(acs, scoped) ==
    IF ~scoped /\ InScope \cap AC = {} THEN {} ELSE Issue("AC untested", acs \ InScope)

\* Variant: a scoped run names stray ids as well.
CheckPlanCoverageStray(ids, scoped) ==
    IF covers = {} THEN {} ELSE Issue("unplanned", ids \ covers) \cup Issue("stray", covers \ required)

(* The plan counts from its first **Covers:** line on, in both.              *)
CheckPlanCoverage(ids, scoped) ==
    IF covers = {} THEN {}
    ELSE Issue("unplanned", ids \ covers) \cup IF scoped THEN {} ELSE Issue("stray", covers \ required)

(* Layer 2.                                                                  *)
CheckTestPlan(type, frs) ==
    Problem("no scope", RealRows = {})
    \cup (IF scope.section THEN Issue("FR untested", frs \ InScope) ELSE {})
    \cup Issue("level", RequiredTestLevels[type] \ levels)

(* Layer 3.  Nothing in a report is about one id.                            *)
CheckTestReport(type) ==
    IF ~report.exists THEN {<<"no report", "">>}
    ELSE Problem("not passed", ~report.pass) \cup Problem("no counts", ~report.numbers)
         \cup Problem("no results", report.modules = "template")
         \cup Problem("no modules", report.modules = "missing" /\ type \notin ContractTypes)

CheckPipelineContracts == Problem("contracts", report.exists /\ report.contracts # "filled")
CheckLlmEval == Problem("eval", IF evals = <<>> THEN TRUE ELSE evals[Len(evals)] # "pass")

(* EC ids are looked for in every row, prompts left in it or not.            *)
CheckEdgeCases ==
    Issue("EC untested", adopted \ IF scope.section THEN UNION {row.cases : row \in scope.rows} ELSE {})

PerType(type, frs) ==
    CheckTestPlan(type, frs) \cup CheckTestReport(type)
    \cup (IF type \in ContractTypes THEN CheckPipelineContracts ELSE {})
    \cup (IF type = "llm-app" THEN CheckLlmEval ELSE {})
    \cup (IF type \in ApiContractTypes THEN CheckEdgeCases ELSE {})

(* run_audit: over all that is required, or over the listed ids, each of     *)
(* which must be declared; noise is a token that is no id.                   *)
Audit(ids, scoped) ==
    CheckRequirements
    \cup CheckAcCoverage(ids \cap AC, scoped) \cup CheckPlanCoverage(ids, scoped)
    \cup UNION {PerType(type, ids \cap FR) : type \in audited}
WholeAudit == Audit(required, FALSE)
ScopedAudit(only, noise) ==
    Problem("not an id", noise) \cup Problem("no ids", only = {} /\ ~noise)
    \cup Issue("undeclared", only \ required)
    \cup Audit(only \cap required, TRUE)
Accepted(only) == ScopedAudit(only, FALSE) = {}

-------------------------------------------------------------------------------
AcceptanceInit ==
    /\ required = {} /\ covers = {} /\ adopted = {} /\ evals = <<>>
    /\ scope = [section |-> FALSE, inner |-> FALSE, rows |-> {}]
    /\ levels \in Strategies /\ report \in Reports
    /\ audited \in Audited

(* People, agents and tools write the documents, in any order.               *)
Declare(id) ==
    /\ id \notin required /\ required' = required \cup {id}
    /\ UNCHANGED <<scope, levels, covers, report, evals, adopted, audited>>
WriteRow(row) ==
    /\ row \notin scope.rows
    /\ scope' = [section |-> TRUE, inner |-> scope.inner, rows |-> scope.rows \cup {row}]
    /\ UNCHANGED <<required, levels, covers, report, evals, adopted, audited>>
\* The heading "### In Scope" comes in, above all rows or below them.
HeadInScope(below) ==
    /\ ~scope.inner
    /\ scope' = [section |-> TRUE, inner |-> TRUE, rows |-> below]
    /\ UNCHANGED <<required, levels, covers, report, evals, adopted, audited>>
WriteCovers(id) ==
    /\ id \notin covers /\ covers' = covers \cup {id}
    /\ UNCHANGED <<required, scope, levels, report, evals, adopted, audited>>
LogEval(result) ==
    /\ "llm-app" \in audited /\ Len(evals) < MaxEvals
    /\ evals' = Append(evals, result)
    /\ UNCHANGED <<required, scope, levels, covers, report, adopted, audited>>
AdoptCase(case) ==
    /\ audited \cap ApiContractTypes # {} /\ case \notin adopted /\ adopted' = adopted \cup {case}
    /\ UNCHANGED <<required, scope, levels, covers, report, evals, audited>>
WriteReport(new) ==
    /\ new # report /\ report' = new
    /\ UNCHANGED <<required, scope, levels, covers, evals, adopted, audited>>
WriteStrategy(new) ==
    /\ new # levels /\ levels' = new
    /\ UNCHANGED <<required, scope, covers, report, evals, adopted, audited>>

AcceptanceStep ==
    \/ \E id \in Id : Declare(id) \/ WriteCovers(id)
    \/ \E row \in ScopeRows : WriteRow(row)
    \/ \E below \in {{}, scope.rows} : HeadInScope(below)
    \/ \E result \in {"pass", "fail"} : LogEval(result)
    \/ \E case \in EdgeCase : AdoptCase(case)
    \/ \E new \in Reports : WriteReport(new)
    \/ \E new \in Strategies : WriteStrategy(new)

AcceptanceSpec == AcceptanceInit /\ [][AcceptanceStep]_acceptanceVars

-------------------------------------------------------------------------------
(* The push gate accepts a project requirement by requirement, and nobody    *)
(* runs the whole audit there: when every id declared has been accepted in   *)
(* some scoped run, the whole audit finds nothing either but names on        *)
(* Covers lines that nothing declares.                                       *)
ScopedRunsSumUp ==
    LET settled == {only \in SUBSET required : Accepted(only)}
    IN  settled # {} /\ UNION settled = required => WholeAudit \subseteq Issue("stray", covers)

(* A requirement that was accepted stays so while work on others goes on:    *)
(* declaring, testing and planning more ids does not undo it, unless they    *)
(* come with the first Covers line or an edge case, which every requirement  *)
(* has to answer for, or with the heading below which rows are then looked   *)
(* for.                                                                      *)
AcceptedStaysAccepted ==
    [][ \A only \in SUBSET required :
            /\ Accepted(only)
            /\ UNCHANGED <<levels, report, evals, adopted>>
            /\ covers = {} => covers' = {}
            /\ scope'.inner = scope.inner
            => Accepted(only)' ]_acceptanceVars
===============================================================================
