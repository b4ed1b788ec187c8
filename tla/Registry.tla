------------------------------ MODULE Registry --------------------------------
(***************************************************************************)
(* document-registry.yaml and its readers.  verify_registry.py and         *)
(* build-context.py load it with PyYAML; the validators and build_pdf.py   *)
(* share _registry.py, which parses it line by line.  A field is kept as   *)
(* how it is spelled and what it says.                                     *)
(***************************************************************************)
EXTENDS Naturals, Sequences, SequencesExt

CONSTANTS
    Doc,         \* keys of documents
    ProjectType, \* VALID_TYPES
    Registries,  \* the registries people may write: sequences of entries
    Declarable     \* the sets of types a project may declare

VARIABLES
    text,        \* the registry as written
    declared,       \* project_type
    lite,        \* doc_profile: lite
    present      \* the documents the project has
registryVars == <<text, declared, lite, present>>

(* Spellings of a field: not there, "[a, b]" on one line, a block list, an *)
(* inline list that goes on on the next line, a value followed by a        *)
(* comment, nothing after the colon.                                       *)
Spellings == {"absent", "inline", "block", "wrapped", "noted", "empty"}
Absent == [form |-> "absent", value |-> {}]
Fields(entry) == {entry.required, entry.optional, entry.lite}

(* A field that is not there says nothing; and the gates refuse a project    *)
(* type that is not valid, or none.                                          *)
ASSUME RegistryAssumption ==
    /\ Registries \subseteq Seq(UNION {Range(registry) : registry \in Registries})
    /\ \A registry \in Registries : \A entry \in Range(registry) : \A field \in Fields(entry) :
          field.form = "absent" => field.value = {}
    /\ \A types \in Declarable : types # {} /\ types \subseteq ProjectType

(* _parse_registry.  A key with a comment is no key: its fields go to the  *)
(* entry above.  A list that does not close on its line, or is followed by *)
(* a comment, is kept as text, and no type is found in it.                 *)
HandList(field) == IF field.form \in {"inline", "block"} THEN field.value ELSE {}
HandScalar(field) ==
    CASE field.form = "absent" -> "none"
      [] field.form = "empty" -> "list"      \* an empty block list
      [] field.form = "noted" -> "text"      \* the value with its comment
      [] OTHER -> "optional"
NoMeta == [required |-> {}, optional |-> {}, lite |-> "none"]
Overridden(meta, entry) ==
    [required |-> IF entry.required.form = "absent" THEN meta.required ELSE HandList(entry.required),
     optional |-> IF entry.optional.form = "absent" THEN meta.optional ELSE HandList(entry.optional),
     lite |-> IF entry.lite.form = "absent" THEN meta.lite ELSE HandScalar(entry.lite)]
HandStep(read, entry) ==
    IF entry.key = "plain"
    THEN [current |-> entry.doc,
          metas |-> [d \in DOMAIN read.metas \cup {entry.doc} |->
                        IF d = entry.doc THEN Overridden(NoMeta, entry) ELSE read.metas[d]]]
    ELSE IF DOMAIN read.metas = {} THEN read
    ELSE [read EXCEPT !.metas[read.current] = Overridden(@, entry)]
HandRead == FoldLeft(HandStep, [current |-> "none", metas |-> <<>>], text).metas

(* yaml.safe_load: comments and line breaks do not matter, an empty field  *)
(* is null, and of two entries with one key the later counts.              *)
YamlScalar(field) == IF field.form \in {"absent", "empty"} THEN "none" ELSE "optional"
YamlRead ==
    [d \in {e.doc : e \in Range(text)} |->
        LET entry == text[SelectLastInSeq(text, LAMBDA e : e.doc = d)]
        IN  [required |-> entry.required.value, optional |-> entry.optional.value,
             lite |-> YamlScalar(entry.lite)]]

(* verify_registry.py, of what PyYAML read: a list must be one and name    *)
(* valid types only, a lite_downgrade may be null, and the other fields    *)
(* must be there and sound.                                                *)
ValidEntry(entry) ==
    /\ entry.sound
    /\ \A field \in {entry.required, entry.optional} :
            field.form # "empty" /\ field.value \subseteq ProjectType
ValidRegistry == \A entry \in Range(text) : ValidEntry(entry)

----------------------------------------------------------------------------
(* build_matrix, build_type_docs and get_universal_docs decide three times *)
(* what doc_profile: lite leaves out; a value that is a list is no key of  *)
(* the first one's table, and the import of every validator fails.         *)
Importable(metas) == \A d \in DOMAIN metas : metas[d].lite # "list"
Rating(meta, t) ==
    CASE t \in meta.required -> IF lite /\ meta.lite = "optional" THEN "O" ELSE "R"
      [] t \notin meta.required /\ t \in meta.optional -> "O"
      [] OTHER -> "N"
(* Variant: in the full profile too.                                        *)
DroppedAlways(meta) == meta.lite \in {"optional", "text"}
Dropped(meta) == lite /\ meta.lite \in {"optional", "text"}
TypeDocs(metas, t) == {d \in DOMAIN metas : ~Dropped(metas[d]) /\ t \in metas[d].required}
UniversalDocs(metas) == {d \in DOMAIN metas : ~Dropped(metas[d]) /\ ProjectType \subseteq metas[d].required}

(* effective_status of verify_docs.py: the strictest rating of a hybrid.   *)
EffectiveStatus(meta) ==
    LET ratings == {Rating(meta, t) : t \in declared}
    IN  IF "R" \in ratings THEN "R" ELSE IF "O" \in ratings THEN "O" ELSE "N"
AuditRow(meta, there) ==
    CASE EffectiveStatus(meta) = "N" -> IF there THEN "orphan" ELSE "na"
      [] EffectiveStatus(meta) # "N" /\ there -> "present"
      [] EffectiveStatus(meta) = "R" /\ ~there -> "missing_required"
      [] OTHER -> "missing_optional"
RequiredDocs(metas) == {d \in DOMAIN metas : EffectiveStatus(metas[d]) = "R"}
DocsStrict(metas) == \A d \in DOMAIN metas : AuditRow(metas[d], d \in present) # "missing_required"

(* get_docs_for_types of verify_content.py, and the presence half of its   *)
(* strict verdict.                                                         *)
ContentDocs(metas) == UniversalDocs(metas) \cup UNION {TypeDocs(metas, t) : t \in declared}
ContentPresent(metas) == ContentDocs(metas) \subseteq present

(* _classify of build-context.py: what an agent is told to read.           *)
Classify(meta, tasks, task) ==
    IF declared \cap meta.required # {} THEN "required"
    ELSE IF declared \cap meta.optional = {} THEN "skip"
    ELSE IF task = "unset" THEN "if_present"
    ELSE IF task = "milestone-end" THEN "required"
    ELSE IF tasks = {} \/ task \in tasks THEN "if_present" ELSE "skip"
ReadList(metas, task) == {d \in DOMAIN metas : Classify(metas[d], {}, task) = "required"}

----------------------------------------------------------------------------
RegistryInit == text \in Registries /\ declared \in Declarable /\ lite \in BOOLEAN /\ present = {}

(* The project's documents come and go, and its profile changes.           *)
WriteDocument(d) == present' = present \cup {d} /\ UNCHANGED <<text, declared, lite>>
RemoveDocument(d) == present' = present \ {d} /\ UNCHANGED <<text, declared, lite>>
SwitchProfile == lite' = ~lite /\ UNCHANGED <<text, declared, present>>

RegistryStep == SwitchProfile \/ \E d \in Doc : WriteDocument(d) \/ RemoveDocument(d)

RegistryRuns == RegistryInit /\ [][RegistryStep]_registryVars

Plainly(field) == field.form \in {"absent", "inline", "block"}
PlainText == \A e \in Range(text) : e.key = "plain" /\ Plainly(e.required) /\ Plainly(e.optional) /\ Plainly(e.lite)

(* For a registry written plainly, and valid, the two gates agree although *)
(* three functions "kept in sync by hand" (_registry.py:215) feed them: a  *)
(* document verify_docs.py misses is one verify_content.py misses, in both *)
(* profiles and for hybrids, and an agent is told to read it.              *)
GatesAgree ==
    PlainText /\ ValidRegistry =>
        LET metas == HandRead
        IN  /\ Importable(metas)
            /\ DocsStrict(metas) <=> ContentPresent(metas)
            /\ RequiredDocs(metas) \subseteq ReadList(YamlRead, "unset")
===============================================================================
