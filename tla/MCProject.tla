------------------------------ MODULE MCProject -------------------------------
(***************************************************************************)
(* The programs a project is set up and checked with: a document and its   *)
(* validators, the detection of the project's type, orchestrator.py, the   *)
(* registry of documents, a log of the validators' runs, and the           *)
(* acceptance of requirements.  They share nothing that one of them writes *)
(* and another reads, so one run explores each of them while the others    *)
(* have not begun.                                                         *)
(***************************************************************************)
EXTENDS MCDocumentGate, ProjectSetup, Orchestration, Registry, TelemetryLog, Acceptance

CONSTANTS r1, r2

Symmetry == Permutations({r1, r2})

MCOptions == {[keep |-> FALSE, adapters |-> TRUE], [keep |-> TRUE, adapters |-> FALSE]}

(* Signals that reach every threshold, tie, and make hybrids of two or     *)
(* three candidates.                                                       *)
Signal(t, p, w, n) == [table |-> t, type |-> p, points |-> w, times |-> n]
MCEvidence ==
    {Signal("python", "web-app", 25, 1), Signal("python", "cli-tool", 8, 1), Signal("python", "cli-tool", 12, 1),
     Signal("python", "llm-app", 20, 1), Signal("keyword", "web-app", 20, 1),
     Signal("glob", "iac", 25, 1), Signal("glob", "iac", 15, 3), Signal("services", "microservices", 20, 2)} \cap Signals
MCHandTypes == {{}, {"web-app"}, {"iac", "llm-app"}}

(* Registries of one or two entries, in the spellings of the parser.       *)
Spelled(f, v) == [form |-> f, value |-> v]
Entry(d, k, req, opt, li, ok) ==
    [doc |-> d, key |-> k, required |-> req, optional |-> opt, lite |-> li, sound |-> ok]
MCProjectType == {"web-app", "iac"}
MCLists == {Absent, Spelled("empty", {}), Spelled("block", {"web-app"}), Spelled("inline", MCProjectType),
            Spelled("wrapped", MCProjectType), Spelled("noted", {"iac"}), Spelled("inline", {"typo"})}
MCScalars == {Absent, Spelled("inline", {}), Spelled("noted", {}), Spelled("empty", {})}
MCFirst == {Entry("plan", "plain", req, opt, li, TRUE) :
                req \in MCLists, opt \in {Absent, Spelled("block", {"web-app"})}, li \in MCScalars}
MCSecond == {Entry("contract", k, Spelled("inline", {"iac"}), opt, Absent, ok) :
                k \in {"plain", "noted"}, opt \in {Absent, Spelled("inline", {"web-app"})}, ok \in BOOLEAN}
MCRegistries == {<<>>} \cup {<<e>> : e \in MCFirst} \cup {<<e, f>> : e \in MCFirst, f \in MCSecond}
MCDeclarable == {{"web-app"}, {"iac"}, MCProjectType}

(* Ids of one requirement and of others; the last row still has a prompt. *)
MCScopeRow(full, ids, cases) == [filled |-> full, ids |-> ids, cases |-> cases]
MCScopeRows == {MCScopeRow(TRUE, {"FR-1", "AC-X"}, {}), MCScopeRow(TRUE, {"AC-1"}, {}),
                MCScopeRow(FALSE, {"FR-1", "AC-1"}, {"EC-1"})}
MCStrategies == {{"Unit", "Integration", "E2E"}, {"Unit", "Integration", "Contract", "E2E"}}
MCReport(pass, modules, contracts) ==
    [exists |-> TRUE, pass |-> pass, numbers |-> TRUE, modules |-> modules, contracts |-> contracts]
MCReports == {[MCReport(FALSE, "missing", "missing") EXCEPT !.exists = FALSE, !.numbers = FALSE],
              MCReport(TRUE, "filled", "filled"), MCReport(TRUE, "missing", "filled")}
MCAudited == {{"web-app"}, {"llm-app"}, {"data-pipeline", "microservices"}}

VARIABLE program    \* the one that runs

vars == <<documentVars, setupVars, orchestrationVars, registryVars, logVars, acceptanceVars, program>>

Init ==
    /\ program \in {"document", "setup", "plan", "registry", "log", "acceptance"}
    /\ DocumentInit
    /\ program # "document" => name = "prompt-library" /\ doc = <<>>
    /\ SetupInit
    /\ program # "setup" => config = NoFile
    /\ PlanInit
    /\ fallback = Unset \/ (program = "plan" /\ fallback \in Workflows)
    /\ RegistryInit
    /\ program # "registry" => text = <<>> /\ declared = {"web-app"} /\ lite
    /\ LogInit
    /\ AcceptanceInit
    /\ program # "acceptance" => audited = {"web-app"} /\ levels = {"Unit", "Integration", "E2E"} /\ ~report.exists

DocumentTurn ==
    /\ program = "document" /\ DocumentStep
    /\ UNCHANGED <<setupVars, orchestrationVars, registryVars, logVars, acceptanceVars, program>>
SetupTurn ==
    /\ program = "setup" /\ SetupStep
    /\ UNCHANGED <<documentVars, orchestrationVars, registryVars, logVars, acceptanceVars, program>>
PlanTurn ==
    /\ program = "plan" /\ PlanStep
    /\ UNCHANGED <<documentVars, setupVars, registryVars, logVars, acceptanceVars, program>>
RegistryTurn ==
    /\ program = "registry" /\ RegistryStep
    /\ UNCHANGED <<documentVars, setupVars, orchestrationVars, logVars, acceptanceVars, program>>
LogTurn ==
    /\ program = "log" /\ LogStep
    /\ UNCHANGED <<documentVars, setupVars, orchestrationVars, registryVars, acceptanceVars, program>>
AcceptanceTurn ==
    /\ program = "acceptance" /\ AcceptanceStep
    /\ UNCHANGED <<documentVars, setupVars, orchestrationVars, registryVars, logVars, program>>

Next == DocumentTurn \/ SetupTurn \/ PlanTurn \/ RegistryTurn \/ LogTurn \/ AcceptanceTurn

Spec == Init /\ [][Next]_vars
SetupAlone == (Init /\ program = "setup") /\ [][SetupTurn]_vars

TypeOK == SetupTypeOK /\ PlanTypeOK /\ LogTypeOK /\ AcceptanceTypeOK
===============================================================================
