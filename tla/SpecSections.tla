------------------------------ MODULE SpecSections ------------------------------
(***************************************************************************)
(* What the capability adapters read out of a specification: one item per  *)
(* level-3 heading of the capability's form, with the fields of the tables *)
(* under it.  A section is [name, verb, path, first, second, scalar]; a log *)
(* document is one of rows.                                                *)
(***************************************************************************)
EXTENDS NormalizedForms

(* A row of a table is skipped as its header for the word in its first      *)
(* column, wherever in the table it stands.                                 *)
FieldHeader == {"field", "name", "parameter", "property"}
FlagHeader == {"flag", "name", "option"}
ParamsHeader == {"name", "parameter", "param"}
ConfigHeader == {"key", "name", "attribute", "property"}
PropsHeader == {"name", "prop", "property"}
FieldTable(fields) == Without(fields, FieldHeader)
FlagTable(fields) == Without(fields, FlagHeader)
ParamsTable(fields) == Without(fields, ParamsHeader)
ConfigTable(keys) == [n \in DOMAIN keys \ ConfigHeader |-> ""]
PropsTable(fields) == Without(fields, PropsHeader)

(* name: type, name: type, ...; what has no type is no field.                *)
SchemaRow(fields) == [n \in {m \in DOMAIN fields : fields[m] # ""} |-> fields[n]]

(* The parts of the shipped templates nobody has filled in.                 *)
PlaceholderNames == {"stage name", "stage", ""}
PlaceholderCommands == {"subcommand", "tool-name", ""}

(* The adapters' extract_spec.                                              *)
StageSections(doc) ==
    LET real == Kept(doc, LAMBDA s : s.name \notin PlaceholderNames)
    IN  [i \in DOMAIN real |-> Form(NameKey(real[i].name), SchemaRow(real[i].first), SchemaRow(real[i].second), "")]

EndpointSections(doc) ==
    LET routes == Kept(doc, LAMBDA s : s.verb # "")
    IN  [i \in DOMAIN routes |->
            Form(EndpointKey(routes[i].verb, routes[i].path),
                 FieldTable(routes[i].first), FieldTable(routes[i].second), "")]

CommandSections(doc) ==
    LET real == Kept(doc, LAMBDA s : s.name \notin PlaceholderCommands)
    IN  [i \in DOMAIN real |-> Form(NameKey(real[i].name), FlagTable(real[i].first), NoFields, "")]

FunctionSections(doc) ==
    [i \in DOMAIN doc |-> Form(NameKey(doc[i].name), ParamsTable(doc[i].first), NoFields, doc[i].scalar)]

ToolSections(doc) ==
    [i \in DOMAIN doc |-> Form(NameKey(doc[i].name), ParamsTable(doc[i].first), NoFields, "")]

ResourceSections(doc) ==
    [i \in DOMAIN doc |-> Form(NameKey(doc[i].name), ConfigTable(doc[i].first), NoFields, "")]

ScreenSections(doc) ==
    [i \in DOMAIN doc |-> Form(NameKey(doc[i].name), PropsTable(doc[i].first), NoFields, "")]

(* A row counts only with a function and a state; its level is a scalar.    *)
LogRows(doc) ==
    LET rows == Kept(doc, LAMBDA s : s.name # "" /\ s.verb # "")
    IN  [i \in DOMAIN rows |-> Form(LogKey(rows[i].name, rows[i].verb), NoFields, NoFields, rows[i].scalar)]

ExtractSpec(capability, doc) ==
    CASE capability = "data-pipeline" -> StageSections(doc)
      [] capability = "web-api" -> EndpointSections(doc)
      [] capability = "cli" -> CommandSections(doc)
      [] capability = "library" -> FunctionSections(doc)
      [] capability = "llm-app" -> ToolSections(doc)
      [] capability = "iac" -> ResourceSections(doc)
      [] capability = "mobile" -> ScreenSections(doc)
      [] capability = "logging" -> LogRows(doc)
=============================================================================
