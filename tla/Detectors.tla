------------------------------- MODULE Detectors --------------------------------
(***************************************************************************)
(* The framework detectors under _spec_code_adapters/: what each of them    *)
(* takes for an item of the code.  The code is the sequence of its          *)
(* declarations in the order in which the files and their trees are walked; *)
(* a declaration is a record with the fields of Blank, and a tag stands for *)
(* a decorator.                                                            *)
(***************************************************************************)
EXTENDS NormalizedForms

Blank ==
    [file |-> 1, lang |-> "py", kind |-> "def", name |-> "", owner |-> "", async |-> FALSE, tags |-> <<>>,
     params |-> NoFields,   \* parameters, attributes, properties or keys
     aliases |-> NoFields,  \* the flag names given to typer.Option
     doc |-> NoFields,      \* the Args: of a docstring
     returns |-> "", literal |-> NoFields,  \* annotation; keys of the dict returned
     path |-> Path("", "plain", ""), names |-> {}, count |-> 1]
(* on: whether the decorator is an attribute of something; given: its first *)
(* argument, if that is a constant.                                         *)
Tag(name, on, called, given) ==
    [name |-> name, on |-> on, called |-> called, given |-> given, type |-> "",
     path |-> Path("", "plain", ""), fixed |-> TRUE, verbs |-> {}]

Verbs == {"GET", "POST", "PUT", "DELETE", "PATCH", "HEAD", "OPTIONS"}

Defs(src) == Kept(src, LAMBDA d : d.kind = "def")
OfKind(src, kind) == Kept(src, LAMBDA d : d.kind = kind)
TagsOf(d, Test(_)) == Kept(d.tags, Test)
LastNamed(s, name) == s[CHOOSE i \in DOMAIN s : s[i].name = name /\ \A j \in (i + 1)..Len(s) : s[j].name # name]
Collect(s, F(_)) == [i \in DOMAIN s |-> F(s[i])]
OnceEach(forms) == At(forms, {i \in DOMAIN forms : \A j \in 1..(i - 1) : forms[j].key # forms[i].key})

(* The attributes of the class the annotation names, if the file has it,     *)
(* else the keys of what is returned.                                       *)
OutputFields(src, d) ==
    LET classes == {c \in ToSet(src) : c.kind = "class" /\ c.file = d.file /\ c.name = Bare(d.returns) /\ c.params # NoFields}
    IN  IF classes # {} THEN (CHOOSE c \in classes : TRUE).params ELSE d.literal

-----------------------------------------------------------------------------
(* Data pipelines.  A function is a stage if it takes or returns anything.   *)
PipelineSkip == {"self", "context", "kwargs", "args"}
Stages(src, found) ==
    Kept(Collect(Kept(Defs(src), LAMBDA d : d \in found),
                 LAMBDA d : Form(NameKey(d.name), Without(d.params, PipelineSkip), OutputFields(src, d), "")),
         LAMBDA f : f.first # NoFields \/ f.second # NoFields)

(* @task without a call, or any annotated function; async ones never.       *)
AirflowStages(src) ==
    Stages(src, {d \in ToSet(src) : ~d.async /\
        \/ TagsOf(d, LAMBDA t : t.name = "task" /\ ~t.called) # <<>>
        \/ \E n \in DOMAIN d.params : d.params[n] # ""})
PrefectStages(src) == Stages(src, {d \in ToSet(src) : TagsOf(d, LAMBDA t : t.name \in {"task", "flow"}) # <<>>})
DagsterStages(src) ==
    Stages(src, {d \in ToSet(src) : TagsOf(d, LAMBDA t : t.name \in {"op", "asset", "graph", "job"}) # <<>>})

\* OtherParameter stands for every class of that ending that is not listed.
ParamTypes ==
    [Parameter |-> "str", IntParameter |-> "int", FloatParameter |-> "float", BoolParameter |-> "bool",
     BooleanParameter |-> "bool", DateParameter |-> "date", DateHourParameter |-> "datetime",
     DateMinuteParameter |-> "datetime", DateSecondParameter |-> "datetime", DateIntervalParameter |-> "str",
     ListParameter |-> "list", DictParameter |-> "dict", TupleParameter |-> "tuple", PathParameter |-> "str",
     OtherParameter |-> "str"]
LuigiStages(src) ==
    Collect(Kept(src, LAMBDA d : d.kind = "class" /\ d.lang = "py" /\ d.names \cap {"Task", "ExternalTask"} # {}),
            LAMBDA d : LET given == {n \in DOMAIN d.params : d.params[n] \in DOMAIN ParamTypes}
                       IN  Form(NameKey(d.name), [n \in given |-> ParamTypes[d.params[n]]], NoFields, ""))

-----------------------------------------------------------------------------
(* Web APIs.                                                               *)
FastAPISkip == {"self", "request", "response", "db", "session", "background_tasks"}
FlaskSkip == {"self", "request", "kwargs"}
Endpoint(src, d, verb, path, skip) ==
    Form(EndpointKey(verb, path), Without(d.params, skip), OutputFields(src, d), "")
PerVerb(src, d, verbs, path) ==
    LET real == verbs \cap Verbs
        order == <<"GET", "POST", "PUT", "DELETE", "PATCH", "HEAD", "OPTIONS">>
    IN  Collect(Kept(order, LAMBDA v : v \in real), LAMBDA v : Endpoint(src, d, v, path, FlaskSkip))

(* The first decorator that names a method and a constant path.             *)
FastAPIEndpoints(src) ==
    LET routes(d) == TagsOf(d, LAMBDA t : t.called /\ t.on /\ t.name \in Verbs /\ t.fixed)
    IN  Collect(Kept(Defs(src), LAMBDA d : routes(d) # <<>>),
                LAMBDA d : Endpoint(src, d, routes(d)[1].name, routes(d)[1].path, FastAPISkip))

(* app.route only, one endpoint for each method; GET if none is listed.      *)
FlaskEndpoints(src) ==
    LET routes(d) == TagsOf(d, LAMBDA t : t.called /\ t.on /\ t.name = "route" /\ t.fixed)
        verbs(t) == IF t.verbs = {} THEN {"GET"} ELSE t.verbs
    IN  FlattenSeq(Collect(Kept(Defs(src), LAMBDA d : routes(d) # <<>>),
                          LAMBDA d : PerVerb(src, d, verbs(routes(d)[1]), routes(d)[1].path)))

(* Views and the urls they are wired to may be in different files; the last *)
(* of a name counts, on either side.                                        *)
DjangoEndpoints(src) ==
    LET view(d) == TagsOf(d, LAMBDA t : t.called /\ t.name = "api_view")
        urls == OfKind(src, "url")
        views == Kept(Defs(src), LAMBDA d : view(d) # <<>>)
        wired == {v.name : v \in ToSet(views)} \cap {u.name : u \in ToSet(urls)}
        last == Kept(views, LAMBDA d : d.name \in wired /\ LastNamed(views, d.name) = d)
        clean(p) == IF p.style = "converter" THEN [p EXCEPT !.style = "braces"] ELSE p
    IN  FlattenSeq(Collect(last, LAMBDA d : PerVerb(src, d, view(d)[1].verbs, clean(LastNamed(urls, d.name).path))))

(* Calls on the routers the file declares, or on app and router if it        *)
(* declares none; the handlers are not looked into.                         *)
ExpressEndpoints(src) ==
    LET declared(f) == {d.name : d \in {e \in ToSet(OfKind(src, "router")) : e.file = f}}
        routers(f) == IF declared(f) = {} THEN {"app", "router"} ELSE declared(f)
        calls == Kept(src, LAMBDA d : d.kind = "route" /\ d.owner \in routers(d.file))
    IN  Collect(calls, LAMBDA d : Form(EndpointKey(d.returns, d.path), NoFields, NoFields, ""))

(* The json names of a struct of the file; "-" is not one.                   *)
StructFields(src, file, name) ==
    LET structs == {s \in ToSet(OfKind(src, "struct")) : s.file = file /\ s.name = name}
    IN  IF structs = {} THEN NoFields ELSE Without((CHOOSE s \in structs : TRUE).params, {"-"})

(* A handler that is named and defined in the file tells the structs bound  *)
(* and answered.                                                           *)
GinEndpoints(src) ==
    LET routes == Kept(src, LAMBDA d : d.kind = "route" /\ d.returns \in Verbs /\ d.name # "")
        handlers(d) == Kept(src, LAMBDA h : h.kind = "function" /\ h.file = d.file /\ h.name = d.name)
        bound(d) == LastNamed(handlers(d), d.name)
    IN  Collect(routes, LAMBDA d :
            IF handlers(d) = <<>> THEN Form(EndpointKey(d.returns, d.path), NoFields, NoFields, "")
            ELSE Form(EndpointKey(d.returns, d.path),
                      StructFields(src, d.file, bound(d).owner), StructFields(src, d.file, bound(d).returns), ""))

-----------------------------------------------------------------------------
(* Command lines.                                                          *)
Commands(d) == TagsOf(d, LAMBDA t : t.called /\ t.on /\ t.name = "command")
CommandName(d) == IF Commands(d)[1].given = "" THEN d.name ELSE Commands(d)[1].given

(* The options are decorators of their own, str unless typed.               *)
ClickCommands(src) ==
    LET options(d) == TagsOf(d, LAMBDA t : t.called /\ t.on /\ t.name \in {"option", "argument"} /\ t.given # "")
        flags(d) == [n \in {t.given : t \in ToSet(options(d))} |->
                        LET t == CHOOSE o \in ToSet(options(d)) : o.given = n
                        IN  IF t.type = "" THEN "str" ELSE t.type]
    IN  Collect(Kept(Defs(src), LAMBDA d : ~d.async /\ Commands(d) # <<>>),
                LAMBDA d : Form(NameKey(CommandName(d)), flags(d), NoFields, ""))

(* The options are the parameters, str unless annotated.                    *)
TyperCommands(src) ==
    LET params(d) == Without(d.params, {"self", "ctx"})
        flag(d, n) == IF n \in DOMAIN d.aliases THEN d.aliases[n] ELSE n
        flags(d) == [f \in {flag(d, n) : n \in DOMAIN params(d)} |->
                        LET t == params(d)[CHOOSE n \in DOMAIN params(d) : flag(d, n) = f]
                        IN  IF t = "" THEN "str" ELSE t]
    IN  Collect(Kept(Defs(src), LAMBDA d : Commands(d) # <<>>),
                LAMBDA d : Form(NameKey(CommandName(d)), flags(d), NoFields, ""))

-----------------------------------------------------------------------------
(* Libraries.  The names in the __all__ of any file are the public ones of   *)
(* all; without one, those that do not begin with an underscore.            *)
ParamSkip == {"self", "cls", "kwargs", "args"}
Private(d) == d.owner = "_"
PythonFunctions(src) ==
    LET public == UNION {d.names : d \in ToSet(OfKind(src, "all"))}
        exported == Kept(Defs(src), LAMBDA d : IF public # {} THEN d.name \in public ELSE ~Private(d))
    IN  OnceEach(Collect(exported, LAMBDA d : Form(NameKey(d.name), Without(d.params, ParamSkip), NoFields, d.returns)))

(* Functions and arrows that are exported where they stand, and those an    *)
(* export { a as b } of any file names.                                     *)
TypescriptFunctions(src) ==
    LET barrel == OfKind(src, "barrel")
        listed(d) == \E b \in ToSet(barrel) : b.name = d.name
        exposed(d) == IF d.owner = "export" THEN d.name ELSE LastNamed(barrel, d.name).returns
        found == Kept(src, LAMBDA d : d.kind = "function" /\ (d.owner = "export" \/ listed(d)))
    IN  OnceEach(Collect(found, LAMBDA d : Form(NameKey(exposed(d)), d.params, NoFields, d.returns)))

-----------------------------------------------------------------------------
(* Tools of a language model: every function with parameters, typed by       *)
(* annotations or else by the docstring, and every entry of a JSON schema.   *)
SchemaTools(src) ==
    LET params(d) == Without(d.params, ParamSkip)
        typed(d) == \E n \in DOMAIN params(d) : params(d)[n] # ""
        shown(d) == IF d.kind = "entry" THEN d.params
                    ELSE IF typed(d) \/ d.doc = NoFields THEN params(d) ELSE d.doc
        tools == Kept(src, LAMBDA d : d.kind = "entry" \/ (d.kind = "def" /\ ~Private(d) /\ shown(d) # NoFields))
    IN  Collect(tools, LAMBDA d : Form(NameKey(d.name), shown(d), NoFields, ""))

LangchainTools(src) ==
    LET tool(d) == TagsOf(d, LAMBDA t : t.name = "tool")
        name(d) == IF tool(d)[1].called /\ tool(d)[1].given # "" THEN tool(d)[1].given ELSE d.name
    IN  Collect(Kept(Defs(src), LAMBDA d : tool(d) # <<>>),
                LAMBDA d : Form(NameKey(name(d)), Without(d.params, ParamSkip), NoFields, ""))

-----------------------------------------------------------------------------
(* Infrastructure.  Keys behind a block with a block in it (names) are lost. *)
TerraformResources(src) ==
    Collect(OfKind(src, "block"), LAMBDA d :
        Form(NameKey(d.name), [n \in DOMAIN d.params \ d.names |-> ""], NoFields, ""))
(* Assigned calls of a class with a constant name and some keyword.         *)
PulumiResources(src) ==
    LET keys(d) == [n \in DOMAIN d.params \ {"opts"} |-> ""]
    IN  Collect(Kept(src, LAMBDA d : d.kind = "assign" /\ d.name # "" /\ keys(d) # NoFields),
                LAMBDA d : Form(NameKey(d.name), keys(d), NoFields, ""))
(* Tasks with exactly one module; the module's name argument goes before     *)
(* the task's.                                                              *)
AnsibleResources(src) ==
    LET title(d) == IF d.owner # "" THEN d.owner ELSE d.name
    IN  Collect(Kept(src, LAMBDA d : d.kind = "task" /\ d.count = 1 /\ title(d) # ""),
                LAMBDA d : Form(NameKey(title(d)), [n \in DOMAIN d.params \ {"name"} |-> ""], NoFields, ""))

-----------------------------------------------------------------------------
(* Screens.  Components that name their props somewhere; types are unknown.  *)
ReactScreens(src) ==
    OnceEach(Collect(Kept(src, LAMBDA d : d.kind = "component" /\ (d.params # NoFields \/ d.owner \in {"class", "props"})),
        LAMBDA d : Form(NameKey(d.name), [n \in DOMAIN d.params \ {"children"} |-> ""], NoFields, "")))
(* Classes of the four widget bases whose braces nest once at most.         *)
FlutterScreens(src) ==
    LET bases == {"StatelessWidget", "StatefulWidget", "ConsumerWidget", "HookWidget"}
    IN  OnceEach(Collect(Kept(src, LAMBDA d : d.kind = "class" /\ d.names \cap bases # {} /\ d.count <= 1),
                         LAMBDA d : Form(NameKey(d.name), Without(d.params, {"key"}), NoFields, "")))
(* Structs that are Views, with their stored properties that are not private. *)
SwiftuiScreens(src) ==
    Collect(Kept(src, LAMBDA d : d.kind = "struct" /\ "View" \in d.names),
            LAMBDA d : Form(NameKey(d.name), d.params, NoFields, ""))

-----------------------------------------------------------------------------
(* Log calls in a function whose message has the form "operation - state".   *)
Levels == [m \in {"info", "warning", "warn", "error", "debug"} |-> IF m = "warning" THEN "warn" ELSE m]
LogStates == {"start", "end", "failed", "warning"}
LogPoints(src, langs) ==
    Collect(Kept(src, LAMBDA d : /\ d.kind = "log" /\ d.lang \in langs /\ d.name # ""
                                      /\ d.returns \in DOMAIN Levels /\ d.owner \in LogStates),
            LAMBDA d : Form(LogKey(d.name, d.owner), NoFields, NoFields, Levels[d.returns]))
PythonLogPoints(src) == LogPoints(src, {"py"})
(* The function is found by counting braces outside strings and comments.    *)
JavaScriptLogPoints(src) == LogPoints(src, {"js", "ts", "tsx", "jsx"})
=============================================================================
