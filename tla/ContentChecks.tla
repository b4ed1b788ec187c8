---------------------------- MODULE ContentChecks ----------------------------
(***************************************************************************)
(* templates/script/validators/verify_content.py: the content checker of   *)
(* each document, as the condition under which it returns no issue, and    *)
(* the audit that applies one to a document.  The wording of the issues is *)
(* left out.                                                               *)
(***************************************************************************)
EXTENDS Documents

----------------------------------------------------------------------------
(* A bare "[Label]" is read without its brackets, so only a TODO inside it *)
(* is seen; a quoted label keeps them.                                     *)
Architecture(doc) ==
    /\ HasDiagram(doc)
    /\ \E p \in DiagramParts(doc) :
          \/ p.form = "bare" /\ p.fill \notin {"blank", "todo"}
          \/ p.form = "quoted" /\ Filled(p.fill)

Quickstart(doc) ==
    /\ \E l \in IF HasSection(doc, {"Prerequisites"}) THEN SectionBody(doc, {"Prerequisites"}) ELSE {} :
          l[1].form \in {"item", "step", "bold"} /\ RealLine(l[1])
    /\ AnyCaptured(doc, {"step"}, {"step"})
    /\ Mentions(doc, "verify")

Research(doc) == AnyField(doc, "Decision") /\ AnyField(doc, "Rationale")

TestPlan(doc) ==
    LET NotBlank(line) == Stripped(line) # "blank" IN
    BodyLines(doc, {"Testing Strategy"}, NotBlank) >= 3 /\ Mentions(doc, "unit")

----------------------------------------------------------------------------
(* The first cell must be a word in capitals, so not a link. *)
WordRow(doc) == \E i \in Rows(doc, 2) :
    Written(doc[i].cells[1]) /\ doc[i].cells[1] # "link" /\ Written(doc[i].cells[2])
ApiContract(doc) == WordRow(doc)

Permissions(doc) == AnyRow(doc, 1, 1) /\ Mentions(doc, "can")

DataModel(doc) ==
    HasDiagram(doc) /\ \E p \in DiagramParts(doc) : p.form = "quoted" /\ p.name = "entity" /\ Filled(p.fill)

Backend(doc) == SectionFilled(doc, {"Stack"})

PipelineContract(doc) == AnyRow(doc, 3, 3)

PipelineDebug(doc) == AnyField(doc, "Symptom") /\ AnyField(doc, "Root cause")

(* The rows of the Input section are read after the bracket spans are      *)
(* gone: in a row of two or more cells an emptied first cell lets the      *)
(* expression capture the bar and what follows.                            *)
ModelContract(doc) ==
    LET Input == IF HasSection(doc, {"Input"}) THEN SectionBody(doc, {"Input"}) ELSE {} IN
    /\ \E l \in Input :
          /\ l[1].form = "row"
          /\ \/ l[1].cells[1] \in {"real", "link"}
             \/ /\ l[1].cells[1] \in {"blank", "bracketed", "prompt"}
                /\ Len(l[1].cells) > 1 /\ l[1].cells[2] # "todo"
    /\ SectionFilled(doc, {"Output"})
    /\ Mentions(doc, "threshold")

ExperimentLog(doc) == AnyField(doc, "Hypothesis") /\ AnyField(doc, "Result")

----------------------------------------------------------------------------
(* A subcommand is a heading in plain words, a skipped title followed by   *)
(* another word included, or else a two-cell row.                          *)
Subcommand(line) == line.form = "heading" /\ line.fill = "real"
CliContract(doc) ==
    /\ (\E i \in DOMAIN doc : Subcommand(doc[i])) \/ WordRow(doc)
    /\ Mentions(doc, "--flag")

ReleaseGuide(doc) == SectionFilled(doc, {"Versioning"}) /\ Mentions(doc, "publish")

PublicApi(doc) == \E i \in DOMAIN doc : doc[i].name = "def f(" /\ doc[i].fill = "real"

CompatibilityMatrix(doc) == AnyRow(doc, 2, 1)

ServiceCatalog(doc) == AnyRow(doc, 3, 1)

(* Any row "| GET | /...", a prompt in the path included, or a word such   *)
(* as event or queue anywhere.                                             *)
ServiceContract(doc) ==
    \/ \E i \in Rows(doc, 2) : doc[i].cells[1] = "real" /\ doc[i].cells[2] \in {"real", "prompt"}
    \/ Mentions(doc, "event")

LlmContract(doc) ==
    /\ FirstField(doc, {"Model"})
    /\ SectionFilled(doc, {"System Prompt"})
    /\ Mentions(doc, "temperature")

EvalSpec(doc) == SectionFilled(doc, {"Criteria"}) /\ Mentions(doc, "test case")

PromptLibrary(doc) == AnyRow(doc, 2, 1) \/ Mentions(doc, "[p](x-prompt.md)")

----------------------------------------------------------------------------
Topology(doc) == HasDiagram(doc) /\ \E p \in DiagramParts(doc) : p.form = "quoted" /\ Filled(p.fill)

Runbook(doc) == AnyCaptured(doc, {"step"}, {"step"}) \/ AnyField(doc, "Steps")

DriftPolicy(doc) == FirstField(doc, {"Cadence"}) /\ FirstField(doc, {"SLA"})

(* A screen is any heading outside the skip list, a skipped title followed *)
(* by more text included, or else a two-cell row.                          *)
Screen(line) ==
    /\ line.form = "heading"
    /\ \/ line.name = "own" /\ Filled(line.fill)
       \/ line.name # "own" /\ line.fill \in {"bracketed", "real"}
MobileContract(doc) ==
    /\ (\E i \in DOMAIN doc : Screen(doc[i])) \/ AnyRow(doc, 2, 1)
    /\ Mentions(doc, "navigation")

----------------------------------------------------------------------------
(* An environment variable is any word in capitals left in the section:    *)
(* the word TODO of a comment is one.                                      *)
EnvVars(doc) ==
    LET Caps(line) == Stripped(line) = "todo" \/ (line.name = "ENV_VAR" /\ Stripped(line) = "real"
                                                  /\ line.fill = "real")
    IN  BodyLines(doc, {"Environment Variables"}, Caps) > 0

Deployment(doc) == AnyUnlinkedRow(doc, 3) /\ EnvVars(doc)
DeploymentPipeline(doc) == Mentions(doc, "scheduler") /\ EnvVars(doc)
DatabasePipeline(doc) == Mentions(doc, "warehouse")

Database(doc) ==
    SectionFilled(doc, {"Database Engine"}) /\ BodyLines(doc, {"Main Entities"}, RealLine) >= 2

Distribution(doc) ==
    FirstCaptured(doc, {"labelled"}, {"Package name"}) /\ Mentions(doc, "publish")

Frontend(doc) == SectionFilled(doc, {"Stack"}) /\ SectionFilled(doc, {"Page"})

BusinessRules(doc) ==
    /\ Mentions(doc, "BR-1")
    /\ AnyCaptured(doc, {"labelled"}, {"Description"})
    /\ AnyCaptured(doc, {"labelled"}, {"Enforcement Layer"})

BusinessProcess(doc) == AnyUnlinkedRow(doc, 2)
BusinessObjects(doc) == AnyUnlinkedRow(doc, 2)

----------------------------------------------------------------------------
(* CHECKERS, with the two documents a pipeline project reads differently,  *)
(* and a diagram that must show a screen when the project is a mobile app. *)
Pipelines == {"data-pipeline", "ml-pipeline"}
ShowsScreen(doc) ==
    \E p \in DiagramParts(doc) :
        /\ p.name = "screen"
        /\ p.form = "bare" \/ (p.form = "quoted" /\ p.fill \in {"bracketed", "prompt"})

Checked == {"architecture", "quickstart", "research", "test-plan", "api-contract", "permissions",
    "data-model", "backend", "pipeline-contract", "pipeline-debug", "model-contract",
    "experiment-log", "cli-contract", "release-guide", "public-api", "compatibility-matrix",
    "service-catalog", "service-contract", "llm-contract", "eval-spec", "prompt-library",
    "topology", "runbook", "drift-policy", "mobile-contract", "deployment", "database",
    "distribution", "frontend", "business-rules", "business-process", "business-objects"}

NoIssue(name, doc, types) ==
    CASE name = "architecture" -> Architecture(doc) /\ ("mobile-app" \in types => ShowsScreen(doc))
      [] name = "quickstart" -> Quickstart(doc)
      [] name = "research" -> Research(doc)
      [] name = "test-plan" -> TestPlan(doc)
      [] name = "api-contract" -> ApiContract(doc)
      [] name = "permissions" -> Permissions(doc)
      [] name = "data-model" -> DataModel(doc)
      [] name = "backend" -> Backend(doc)
      [] name = "pipeline-contract" -> PipelineContract(doc)
      [] name = "pipeline-debug" -> PipelineDebug(doc)
      [] name = "model-contract" -> ModelContract(doc)
      [] name = "experiment-log" -> ExperimentLog(doc)
      [] name = "cli-contract" -> CliContract(doc)
      [] name = "release-guide" -> ReleaseGuide(doc)
      [] name = "public-api" -> PublicApi(doc)
      [] name = "compatibility-matrix" -> CompatibilityMatrix(doc)
      [] name = "service-catalog" -> ServiceCatalog(doc)
      [] name = "service-contract" -> ServiceContract(doc)
      [] name = "llm-contract" -> LlmContract(doc)
      [] name = "eval-spec" -> EvalSpec(doc)
      [] name = "prompt-library" -> PromptLibrary(doc)
      [] name = "topology" -> Topology(doc)
      [] name = "runbook" -> Runbook(doc)
      [] name = "drift-policy" -> DriftPolicy(doc)
      [] name = "mobile-contract" -> MobileContract(doc)
      [] name = "deployment" -> IF types \cap Pipelines # {} THEN DeploymentPipeline(doc) ELSE Deployment(doc)
      [] name = "database" -> IF types \cap Pipelines # {} THEN DatabasePipeline(doc) ELSE Database(doc)
      [] name = "distribution" -> Distribution(doc)
      [] name = "frontend" -> Frontend(doc)
      [] name = "business-rules" -> BusinessRules(doc)
      [] name = "business-process" -> BusinessProcess(doc)
      [] name = "business-objects" -> BusinessObjects(doc)

(* The quality audit() reports of a document that is there.  One without a *)
(* checker fails on a missing required heading and is otherwise unknown.   *)
Quality(name, doc, types, headings) ==
    IF name \in Checked THEN IF NoIssue(name, doc, types) THEN "pass" ELSE "fail"
    ELSE IF \A h \in headings : HasSection(doc, {h}) THEN "unknown" ELSE "fail"
==============================================================================
