--------------------------- MODULE MCDocumentGate ----------------------------
(***************************************************************************)
(* Small drafts for each document: the labels, titles and words its        *)
(* checker looks for, in the forms the templates and users write.          *)
(***************************************************************************)
EXTENDS DocumentGate

LOCAL H(n) == Heading(n, 2, "blank")
LOCAL F(n, v) == Plain("field", n, v)
LOCAL Word(n) == Plain("text", n, "prompt")
LOCAL Prose(v) == Plain("text", "prose", v)
LOCAL Fields(n) ==
    {F(n, "blank"), F(n, "bracketed"), F(n, "real"), Plain("bold", n, "bracketed"), Plain("bold", n, "prompt")}
LOCAL Tables ==
    {Row(<<"rule", "rule", "rule">>), Row(<<"title", "title", "title">>), Row(<<"bracketed", "prompt", "real">>),
     Row(<<"link", "real", "todo">>), Row(<<"blank", "real">>), Row(<<"real", "bracketed">>)}
LOCAL WideTables == {Row(<<"rule", "rule", "rule">>), Row(<<"title", "title", "title">>), Row(<<"bracketed", "prompt", "real">>),
     Row(<<"link", "real", "todo">>), Row(<<"blank", "real", "real">>), Row(<<"real", "bracketed", "real">>)}
LOCAL Body == {Prose("bracketed"), Prose("prompt"), Prose("todo"), Prose("real"), Plain("item", "item", "bracketed")}
LOCAL Diagram == {Plain("start", "start", "blank"), Plain("end", "end", "blank")}
LOCAL Part(k, n) == {Plain(k, n, v) : v \in {"bracketed", "todo", "real"}}
LOCAL Labelled(n) == {Plain("labelled", n, v) : v \in {"blank", "bracketed", "prompt"}}
LOCAL Steps == {Plain("step", "step", v) : v \in {"blank", "bracketed", "real"}}
LOCAL Own == {Heading("own", 2, "real"), Heading("own", 2, "bracketed"), Heading("skipped", 1, "bracketed"),
              Heading("skipped", 2, "blank")}

MCAdditions == [n \in Names |->
    CASE n = "architecture" -> Diagram \cup Part("bare", "screen") \cup Part("quoted", "screen") \cup Part("quoted", "database")
      [] n = "quickstart" -> {H("Prerequisites"), Plain("item", "item", "todo"), Word("verify")} \cup Steps
      [] n = "research" -> Fields("Decision") \cup Fields("Rationale")
      [] n = "test-plan" -> Body \cup {Word("unit"), Heading("other", 3, "blank"), H("other")}
      [] n \in {"pipeline-contract", "service-catalog"} -> WideTables \cup {H("other")}
      [] n \in {"api-contract", "compatibility-matrix", "business-process", "business-objects"} -> Tables \cup {H("other")}
      [] n = "permissions" -> Tables \cup {Row(<<"real">>), Word("can")}
      [] n = "data-model" -> Diagram \cup Part("quoted", "entity") \cup Part("quoted", "note")
      [] n \in {"backend"} -> Body \cup {H("Stack"), H("other"), Heading("Stack", 3, "bracketed")}
      [] n = "pipeline-debug" -> Fields("Symptom") \cup Fields("Root cause")
      [] n = "model-contract" -> {Row(<<"bracketed", "real">>), Row(<<"title", "title">>), Row(<<"prompt">>), Row(<<"real">>),
             Heading("Input", 2, "real"), H("Output"), Heading("Output", 2, "real"), Word("threshold"), Prose("bracketed")}
      [] n = "experiment-log" -> Fields("Hypothesis") \cup Fields("Result")
      [] n = "cli-contract" -> Tables \cup Own \cup {Word("--flag")}
      [] n = "release-guide" -> Body \cup {H("Versioning"), Word("publish")}
      [] n = "public-api" -> {Plain("text", "def f(", v) : v \in {"bracketed", "todo", "real"}}
      [] n = "service-contract" -> Tables \cup {Word("event")}
      [] n = "llm-contract" -> Fields("Model") \cup {H("System Prompt"), Prose("real"), Prose("bracketed"), Word("temperature")}
      [] n = "eval-spec" -> Body \cup {H("Criteria"), H("other"), Word("test case")}
      [] n = "prompt-library" -> Tables \cup {Plain("text", "[p](x-prompt.md)", "real")}
      [] n = "topology" -> Diagram \cup Part("quoted", "node") \cup Part("bare", "node")
      [] n = "runbook" -> Steps \cup Fields("Steps")
      [] n = "drift-policy" -> Fields("Cadence") \cup Fields("SLA")
      [] n = "mobile-contract" -> (Tables \ {Row(<<"rule", "rule", "rule">>)}) \cup Own \cup {Word("navigation")}
      [] n = "deployment" -> {Row(<<"title", "title", "title">>), Row(<<"link", "real", "real">>), H("Environment Variables"), Prose("todo"), Plain("item", "ENV_VAR", "real"),
             Plain("item", "ENV_VAR", "bracketed"), Word("scheduler")}
      [] n = "database" -> Body \cup {H("Main Entities"), Word("warehouse")}
      [] n = "distribution" -> Labelled("Package name") \cup {Word("publish")}
      [] n = "frontend" -> Body \cup {H("Page"), H("Stack")}
      [] n = "business-rules" -> Labelled("Description") \cup Labelled("Enforcement Layer") \cup {Word("BR-1")}
      [] n = "Pipeline Stage" -> {F("Format", "prompt"), F("Schema", "real"), Word("missing input"), Prose("real")}
      [] n \in {"Feature", "Resource Group"} -> {F("Function", "prompt"), F("File", "real"), Word("Not Supported")}
      [] n = "Background Job" -> {F("Trigger", "bracketed"), Word("on success"), Word("permanent"), Prose("real"), H("other")}
      [] n = "Shared Utility" -> Diagram \cup {Row(<<"real", "real">>), Row(<<"prompt", "blank">>), F("Used by", "blank")}
      [] n = "scan" -> {Prose("real"), H("Rules"), H("other"), Plain("item", "item", "real")}
      [] n = "logging-spec" -> {Prose("real"), Word("trace_id"), Word("row count"), Word("token")}
      [] n = "module-log" -> {Word("structured"), Word("trace_id"), Word("row count"), Word("token")}
      [] n = "test-report" -> {Row(<<"real", "0">>), Row(<<"bracketed", "1">>), Row(<<"real", "bracketed">>),
             H("Results by Module"), Heading("other", 1, "blank"), Word("overall status")}]

MCDrafts == [n \in Names |->
    CASE n = "test-plan" -> {<<H("Testing Strategy")>>}
      [] n = "database" -> {<<H("Database Engine"), Prose("bracketed"), H("Main Entities"), Prose("prompt")>>}
      [] n = "frontend" -> {<<>>, <<H("Page"), Prose("bracketed")>>}
      [] n = "quickstart" -> {<<>>, <<H("Prerequisites"), Plain("item", "item", "bracketed"), Plain("step", "step", "bracketed")>>}
      [] n = "model-contract" -> {<<Word("threshold")>>}
      [] n = "architecture" -> {<<>>, <<Plain("start", "start", "blank"), Plain("quoted", "screen", "bracketed")>>}
      [] n = "llm-contract" -> {<<H("System Prompt")>>, <<F("Model", "bracketed")>>}
      [] n = "deployment" -> {<<>>, <<Row(<<"bracketed", "prompt", "prompt">>)>>}
      [] n = "Pipeline Stage" -> {<<F("Input", "blank"), F("Source", "prompt"), F("Format", "bracketed"), F("Schema", "real"),
             Plain("text", "down arrow", "real"), F("Output", "blank"), F("Destination", "prompt"), F("Format", "prompt"),
             F("Error Handling", "blank"), Word("transient")>>}
      [] n = "Background Job" -> {<<F("Trigger", "bracketed"), Word("on success"), F("Error Handling", "blank"), Word("transient")>>}
      [] n = "Shared Utility" -> {<<Plain("start", "start", "blank"), Word("class"), Plain("method", "method", "prompt")>>,
             <<Plain("start", "start", "blank"), Word("class"), Plain("method", "method", "prompt"),
               Plain("end", "end", "blank"), F("Used by", "blank"), Row(<<"title", "title">>)>>}
      [] n = "scan" -> {<<H("Rules"), Prose("prompt"), Prose("todo"), Plain("item", "item", "bracketed"), Prose("bracketed")>>}
      [] n = "logging-spec" -> {<<H("Log Output Format"), Prose("real"), Prose("real"), Prose("prompt"),
             H("Required Log Points"), Prose("real"), Prose("real"), Prose("prompt"),
             H("Module Naming Convention"), Prose("real"), Prose("real"), Prose("todo")>>}
      [] n = "module-log" -> {<<>>, <<Word("print(")>>}
      [] n = "test-report" -> {<<H("Summary"), Row(<<"real", "bracketed">>), Word("overall status")>>,
             <<H("Summary"), Row(<<"real", "1">>), Word("overall status"), Heading("contract tests", 2, "blank"),
               Plain("text", "success=", "prompt"), Heading("fault injection", 2, "blank"), Row(<<"rule", "rule">>)>>}
      [] OTHER -> {<<>>}]

MCProjects == [n \in Names |->
    CASE n = "architecture" -> {{"web-app"}, {"mobile-app"}}
      [] n \in {"deployment", "database", "test-report"} -> {{"web-app"}, {"data-pipeline"}}
      [] n = "logging-spec" -> {{"cli-tool"}, {"data-pipeline", "llm-app"}}
      [] n = "module-log" -> {{"iac"}, {"cli-tool"}, {"data-pipeline", "llm-app"}}
      [] OTHER -> {{"web-app"}}]

MCMaxAdded == 3
==============================================================================
