-------------------------------- MODULE SpecCode --------------------------------
(***************************************************************************)
(* verify_spec_code.py beside a project in which the specification and the *)
(* code change, each by hand.  People think in operations; the modules that *)
(* follow say how an operation is written down on either side.             *)
(***************************************************************************)
EXTENDS SpecSections, Detectors

CONSTANTS
    Frameworks,         \* those explored
    Operations          \* [name, verb, arg, first, second, scalar]

(* Of the types people write, two that are one and one that is another.      *)
FieldTypes == {"", "str", "string", "int"}
FieldsOf(names) == {fields \in [names -> FieldTypes] : IsFiniteSet(names) /\ "" \notin names}

VARIABLES
    framework,          \* what the project is written in
    hint,               \* the adapter names it, not only its capability
    fault,              \* what is wrong with the first source file
    documented,         \* the operations of the specification
    implemented,        \* those of the code
    outcome             \* of the run since the last change: [mode, exit]

specCodeVars == <<framework, hint, fault, documented, implemented, outcome>>

-----------------------------------------------------------------------------
(* Each capability's detectors, in the order in which they run.             *)
StageDetectors == <<"airflow", "dagster", "prefect", "luigi">>
EndpointDetectors == <<"fastapi", "flask", "express", "django", "gin">>
CommandDetectors == <<"click", "typer">>
FunctionDetectors == <<"python_library", "typescript">>
ToolDetectors == <<"tool_schema", "langchain">>
ResourceDetectors == <<"terraform", "pulumi", "ansible">>
ScreenDetectors == <<"react_native", "flutter", "swiftui">>
LogDetectors == <<"python_logging", "javascript_logging">>

(* ADAPTER_REGISTRY.                                                        *)
Registered ==
    [c \in {"data-pipeline", "web-api", "cli", "library", "llm-app", "iac", "mobile", "logging"} |->
        CASE c = "data-pipeline" -> StageDetectors
          [] c = "web-api" -> EndpointDetectors
          [] c = "cli" -> CommandDetectors
          [] c = "library" -> FunctionDetectors
          [] c = "llm-app" -> ToolDetectors
          [] c = "iac" -> ResourceDetectors
          [] c = "mobile" -> ScreenDetectors
          [] c = "logging" -> LogDetectors]
Capability(f) == CHOOSE c \in DOMAIN Registered : f \in ToSet(Registered[c])

(* An operation and its fields have names, other than a template's.          *)
ASSUME SpecCodeAssumption ==
    /\ Frameworks \subseteq UNION {ToSet(Registered[c]) : c \in DOMAIN Registered}
    /\ \A o \in Operations :
        /\ o.name \notin PlaceholderNames \cup PlaceholderCommands
        /\ o = [name |-> o.name, verb |-> o.verb, arg |-> o.arg,
                first |-> o.first, second |-> o.second, scalar |-> o.scalar]
        /\ o.verb \in Verbs /\ o.scalar \in FieldTypes
        /\ o.first \in FieldsOf(DOMAIN o.first) /\ o.second \in FieldsOf(DOMAIN o.second)

Extensions(f) ==
    CASE f = "express" -> {"js", "ts"}
      [] f = "gin" -> {"go"}
      [] f = "typescript" -> {"ts", "tsx"}
      [] f = "tool_schema" -> {"py", "json"}
      [] f = "terraform" -> {"tf"}
      [] f = "ansible" -> {"yml"}
      [] f = "react_native" -> {"tsx", "jsx", "ts", "js"}
      [] f = "flutter" -> {"dart"}
      [] f = "swiftui" -> {"swift"}
      [] f = "javascript_logging" -> {"js", "jsx", "ts", "tsx"}
      [] OTHER -> {"py"}

Detect(f, src) ==
    CASE f = "airflow" -> AirflowStages(src)
      [] f = "dagster" -> DagsterStages(src)
      [] f = "prefect" -> PrefectStages(src)
      [] f = "luigi" -> LuigiStages(src)
      [] f = "fastapi" -> FastAPIEndpoints(src)
      [] f = "flask" -> FlaskEndpoints(src)
      [] f = "express" -> ExpressEndpoints(src)
      [] f = "django" -> DjangoEndpoints(src)
      [] f = "gin" -> GinEndpoints(src)
      [] f = "click" -> ClickCommands(src)
      [] f = "typer" -> TyperCommands(src)
      [] f = "python_library" -> PythonFunctions(src)
      [] f = "typescript" -> TypescriptFunctions(src)
      [] f = "tool_schema" -> SchemaTools(src)
      [] f = "langchain" -> LangchainTools(src)
      [] f = "terraform" -> TerraformResources(src)
      [] f = "pulumi" -> PulumiResources(src)
      [] f = "ansible" -> AnsibleResources(src)
      [] f = "react_native" -> ReactScreens(src)
      [] f = "flutter" -> FlutterScreens(src)
      [] f = "swiftui" -> SwiftuiScreens(src)
      [] f = "python_logging" -> PythonLogPoints(src)
      [] f = "javascript_logging" -> JavaScriptLogPoints(src)

(* A file that does not parse is left out; one that is not UTF-8 raises out  *)
(* of the detector, and _dispatch_detectors drops all it has found so far    *)
(* (python_logging alone catches that).                                     *)
RunDetector(f, src, wrong) ==
    LET files == Kept(src, LAMBDA d : d.lang \in Extensions(f))
        rest == Kept(files, LAMBDA d : d.file # 1)
        hit == rest # files
    IN  CASE wrong = "encoding" /\ hit /\ f \notin {"python_logging", "gin"} -> <<>>
          [] wrong = "encoding" /\ f = "python_logging" -> Detect(f, rest)
          [] wrong = "syntax" /\ Extensions(f) \cap {"py", "yml", "json"} # {} -> Detect(f, rest)
          [] OTHER -> Detect(f, files)

(* The detector the hint names, or those of the capability one after another. *)
Active(f, named) == IF named THEN <<f>> ELSE Registered[Capability(f)]
ExtractCode(f, named, src, wrong) ==
    LET active == Active(f, named)
    IN  FlattenSeq([i \in DOMAIN active |-> RunDetector(active[i], src, wrong)])

\* Variant: nothing found in the code is nothing to compare.
NoZeroCoverage(codeItems, src) == FALSE

(* Real files, and nothing recognised in any of them.                       *)
ZeroCoverage(codeItems, src) == codeItems = <<>> /\ src # <<>>

(* --strict; without it, with --dry-run, or where the adapter, the            *)
(* specification or the source is not configured, the exit is a success.     *)
ExitCode(mode, report, zero) ==
    IF mode = "strict" /\ (HasMismatches(report) \/ zero) THEN 1 ELSE 0

-----------------------------------------------------------------------------
(* How an operation is written down: in a section of the specification, and  *)
(* in the idiom each framework's own documentation shows.                   *)
Level(o) == IF o.scalar = "" THEN "info" ELSE "error"
Section(f, o) ==
    LET logged == Capability(f) = "logging"
    IN  [name |-> o.name, verb |-> IF logged THEN "start" ELSE o.verb, path |-> Path(o.name, "braces", o.arg),
         first |-> o.first, second |-> o.second, scalar |-> IF logged THEN Level(o) ELSE o.scalar]

Route(f, o) ==
    Path(o.name, CASE f = "fastapi" -> "braces" [] f \in {"flask", "django"} -> "converter" [] OTHER -> "colon", o.arg)
PythonDef(o) == [Blank EXCEPT !.name = o.name, !.params = o.first, !.literal = o.second, !.returns = o.scalar]
Decorated(o, tags) == [PythonDef(o) EXCEPT !.tags = tags]
Options(o) ==
    LET names == SetToSeq(DOMAIN o.first)
    IN  [i \in DOMAIN names |-> [Tag("option", TRUE, TRUE, names[i]) EXCEPT !.type = o.first[names[i]]]]
InFile(i, decls) == [j \in DOMAIN decls |-> [decls[j] EXCEPT !.file = i]]

WrittenIn(f, o) ==
    CASE f = "airflow" -> <<Decorated(o, <<Tag("task", FALSE, FALSE, "")>>)>>
      [] f = "dagster" -> <<Decorated(o, <<Tag("op", FALSE, FALSE, "")>>)>>
      [] f = "prefect" -> <<Decorated(o, <<Tag("task", FALSE, TRUE, "")>>)>>
      [] f = "luigi" -> <<[Blank EXCEPT !.kind = "class", !.name = o.name, !.names = {"Task"},
                             !.params = [n \in DOMAIN o.first |-> IF o.first[n] = "int" THEN "IntParameter" ELSE "Parameter"]]>>
      [] f = "fastapi" -> <<Decorated(o, <<[Tag(o.verb, TRUE, TRUE, "") EXCEPT !.path = Route(f, o)]>>)>>
      [] f = "flask" -> <<Decorated(o, <<[Tag("route", TRUE, TRUE, "") EXCEPT !.path = Route(f, o), !.verbs = {o.verb}]>>)>>
      [] f = "django" -> <<Decorated(o, <<[Tag("api_view", FALSE, TRUE, "") EXCEPT !.verbs = {o.verb}]>>),
                           [Blank EXCEPT !.kind = "url", !.name = o.name, !.path = Route(f, o)]>>
      [] f = "express" -> <<[Blank EXCEPT !.kind = "route", !.lang = "js", !.owner = "app", !.returns = o.verb, !.path = Route(f, o)]>>
      [] f = "gin" -> <<[Blank EXCEPT !.kind = "route", !.lang = "go", !.name = o.name, !.returns = o.verb, !.path = Route(f, o)],
                        [Blank EXCEPT !.kind = "function", !.lang = "go", !.name = o.name, !.owner = "In", !.returns = "Out"],
                        [Blank EXCEPT !.kind = "struct", !.lang = "go", !.name = "In", !.params = o.first],
                        [Blank EXCEPT !.kind = "struct", !.lang = "go", !.name = "Out", !.params = o.second]>>
      [] f = "click" -> <<[Blank EXCEPT !.name = o.name, !.tags = <<Tag("command", TRUE, TRUE, "")>> \o Options(o),
                             !.params = [n \in DOMAIN o.first |-> ""]]>>
      [] f = "typer" -> <<Decorated(o, <<Tag("command", TRUE, TRUE, o.name)>>)>>
      [] f \in {"python_library", "tool_schema"} -> <<PythonDef(o)>>
      [] f = "typescript" -> <<[Blank EXCEPT !.kind = "function", !.lang = "ts", !.name = o.name, !.params = o.first, !.returns = o.scalar],
                               [Blank EXCEPT !.kind = "barrel", !.lang = "ts", !.name = o.name, !.returns = o.name]>>
      [] f = "langchain" -> <<Decorated(o, <<Tag("tool", FALSE, FALSE, "")>>)>>
      [] f = "terraform" -> <<[Blank EXCEPT !.kind = "block", !.lang = "tf", !.name = o.name, !.params = o.first]>>
      [] f = "pulumi" -> <<[Blank EXCEPT !.kind = "assign", !.name = o.name, !.params = o.first]>>
      [] f = "ansible" -> <<[Blank EXCEPT !.kind = "task", !.lang = "yml", !.name = o.name, !.params = o.first]>>
      [] f = "react_native" -> <<[Blank EXCEPT !.kind = "component", !.lang = "tsx", !.name = o.name, !.params = o.first]>>
      [] f = "flutter" -> <<[Blank EXCEPT !.kind = "class", !.lang = "dart", !.name = o.name, !.names = {"StatelessWidget"}, !.params = o.first]>>
      [] f = "swiftui" -> <<[Blank EXCEPT !.kind = "struct", !.lang = "swift", !.name = o.name, !.names = {"View"}, !.params = o.first]>>
      [] f \in {"python_logging", "javascript_logging"} ->
            <<[Blank EXCEPT !.kind = "log", !.lang = IF f = "python_logging" THEN "py" ELSE "js", !.name = o.name, !.owner = "start",
                 !.returns = Level(o)]>>

Document(f, ops) == [i \in DOMAIN ops |-> Section(f, ops[i])]
Source(f, ops) == FlattenSeq([i \in DOMAIN ops |-> InFile(i, WrittenIn(f, ops[i]))])

-----------------------------------------------------------------------------
NotRun == [mode |-> "none", exit |-> 0]

SpecCodeTypeOK ==
    /\ framework \in Frameworks
    /\ documented \in Seq(Operations)
    /\ implemented \in Seq(Operations)
    /\ outcome \in [mode : {"none", "strict", "report"}, exit : {0, 1}]

SpecCodeInit ==
    /\ framework \in Frameworks
    /\ hint \in BOOLEAN
    /\ fault \in {"none", "syntax", "encoding"}
    /\ documented = <<>>
    /\ implemented = <<>>
    /\ outcome = NotRun

Dropped(ops, o) == RemoveFirstMatch(ops, LAMBDA p : p.name = o.name)
EditSpec ==
    /\ \E o \in Operations : documented' \in {Append(Dropped(documented, o), o), Dropped(documented, o)}
    /\ outcome' = NotRun
    /\ UNCHANGED <<framework, hint, fault, implemented>>
EditCode ==
    /\ \E o \in Operations : implemented' \in {Append(Dropped(implemented, o), o), Dropped(implemented, o)}
    /\ outcome' = NotRun
    /\ UNCHANGED <<framework, hint, fault, documented>>

(* main().                                                                  *)
Verify(mode) ==
    LET src == Source(framework, implemented)
        codeItems == ExtractCode(framework, hint, src, fault)
        report == Compare(ExtractSpec(Capability(framework), Document(framework, documented)), codeItems)
    IN  /\ outcome' = [mode |-> mode, exit |-> ExitCode(mode, report, ZeroCoverage(codeItems, src))]
        /\ UNCHANGED <<framework, hint, fault, documented, implemented>>

SpecCodeStep == EditSpec \/ EditCode \/ \E mode \in {"strict", "report"} : Verify(mode)

-----------------------------------------------------------------------------
SameType(t, u) == "" \in {t, u} \/ t = u \/ {t, u} = {"str", "string"}
SameFields(typed, fields, others) ==
    /\ DOMAIN fields = DOMAIN others
    /\ typed => \A n \in DOMAIN fields : SameType(fields[n], others[n])

(* What a framework's code shows of an operation at all.                    *)
Stagelike == {"airflow", "dagster", "prefect"}
ShowsSecond == Stagelike \cup {"fastapi", "flask", "django", "gin"}
ShowsTypes(f) == f # "react_native" /\ Capability(f) # "iac"

(* The fields a specification tells of an operation, and those its code      *)
(* shows.  They are compared as one dictionary: that a field has moved from  *)
(* what goes in to what comes out is not seen.                              *)
Told(f, o) ==
    CASE Capability(f) \in {"data-pipeline", "web-api"} -> Fields(o)
      [] Capability(f) = "logging" -> NoFields
      [] OTHER -> o.first
Shown(f, p) ==
    CASE f \in ShowsSecond -> Fields(p)
      [] f = "express" \/ Capability(f) = "logging" -> NoFields
      [] OTHER -> p.first

SameOperation(f, o, p) ==
    /\ o.name = p.name
    /\ Capability(f) = "web-api" => o.verb = p.verb /\ (o.arg = "" <=> p.arg = "")
    /\ SameFields(ShowsTypes(f), Told(f, o), Shown(f, p))
    /\ Capability(f) = "library" => SameType(o.scalar, p.scalar)
    /\ Capability(f) = "logging" => Level(o) = Level(p)
Agreed(f, ops, others) ==
    /\ \A o \in ToSet(ops) : \E p \in ToSet(others) : SameOperation(f, o, p)
    /\ \A p \in ToSet(others) : \E o \in ToSet(ops) : SameOperation(f, o, p)

(* Names of fields that a table takes for its header, and parameters that    *)
(* a detector takes for the framework's own.                                *)
Header(capability) ==
    CASE capability = "web-api" -> FieldHeader
      [] capability = "cli" -> FlagHeader
      [] capability \in {"library", "llm-app"} -> ParamsHeader
      [] capability = "iac" -> ConfigHeader
      [] capability = "mobile" -> PropsHeader
      [] OTHER -> {}
Skipped(f) ==
    CASE f \in Stagelike -> PipelineSkip
      [] f = "fastapi" -> FastAPISkip
      [] f \in {"flask", "django"} -> FlaskSkip
      [] f = "gin" -> {"-"}
      [] f = "typer" -> {"self", "ctx"}
      [] f \in {"python_library", "tool_schema", "langchain"} -> ParamSkip
      [] f = "pulumi" -> {"opts"}
      [] f = "react_native" -> {"children"}
      [] f = "flutter" -> {"key"}
      [] OTHER -> {}

(* What both notations can say.  An untyped field is none of a stage;        *)
(* stages, tools, screens and Pulumi resources with no field at all are not  *)
(* recognised.                                                              *)
Typed(fields) == \A n \in DOMAIN fields : fields[n] # ""
Expressible(f, o) ==
    /\ DOMAIN o.first \cap (Header(Capability(f)) \cup Skipped(f)) = {}
    /\ Capability(f) = "web-api" => DOMAIN o.second \cap (FieldHeader \cup {"-"}) = {}
    /\ Capability(f) = "data-pipeline" => Typed(o.first) /\ Typed(o.second)
    /\ f \in Stagelike \cup {"pulumi", "react_native", "tool_schema"} => o.first # NoFields
AllExpressible(f) == \A o \in ToSet(documented) \cup ToSet(implemented) : Expressible(f, o)

(* No drift between specification and code passes --strict: what they        *)
(* disagree in, of what the framework's code shows, fails the run, also if   *)
(* one file that is not UTF-8 blinds the detector for all of them.  Without  *)
(* a framework the same holds, but for Click, whose options Typer's detector *)
(* reads again from the parameters.                                         *)
DriftIsSeen ==
    /\ outcome.mode = "strict" /\ outcome.exit = 0
    /\ hint \/ framework # "click"
    /\ fault = "none" \/ (fault = "encoding" /\ framework \notin {"python_logging", "gin"})
    /\ AllExpressible(framework)
    => Agreed(framework, documented, implemented)

(* And a specification that agrees with the code passes, whatever notation   *)
(* the framework has for it: but Flask's path parameters stay Flask's, and   *)
(* an option of a command without a type is a string in the code.            *)
AgreementPasses ==
    /\ outcome.mode = "strict" /\ fault = "none"
    /\ hint \/ framework # "click"
    /\ AllExpressible(framework)
    /\ Agreed(framework, documented, implemented)
    /\ framework = "flask" => \A o \in ToSet(documented) : o.arg = ""
    /\ Capability(framework) = "cli" => \A p \in ToSet(implemented) : Typed(p.first)
    => outcome.exit = 0

(* The template says of the tables under Request Body that they are what the *)
(* comparison reads: an endpoint documented with the fields it has passes.   *)
DocumentedEndpointsPass ==
    /\ outcome.mode = "strict" /\ hint /\ fault = "none"
    /\ framework = "fastapi" /\ documented = implemented
    => outcome.exit = 0
=============================================================================
