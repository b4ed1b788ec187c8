---------------------------- MODULE ModuleChecks -----------------------------
(***************************************************************************)
(* templates/script/validators/verify_module_docs.py: the quality check of *)
(* a module's data-flow document by the bucket of its module type, and     *)
(* what makes a module fail the strict audit.                              *)
(***************************************************************************)
EXTENDS Documents

(* The lines after the first line with the label, up to the first stop. *)
Block(doc, label, stops) ==
    LET at == LabelLines(doc, {"field"}, {label}) IN
    IF at = {} THEN {} ELSE LinesAfter(doc, First(at), stops)
FirstInBlock(doc, block, label) ==
    LET at == LabelLines(doc, {"field"}, {label}) \cap block IN
    /\ at # {}
    /\ Filled(Captured(doc, First(at)))
    /\ doc[First(at)].fill = "blank" => First(at) + 1 \in block

TopHeadings(doc) == {i \in DOMAIN doc : doc[i].form = "heading" /\ doc[i].level = 2}

(* Error Handling: the section runs to the next "## ", must name the two   *)
(* failure cases of the type, and must have three lines, the rest of the   *)
(* label's own line included.                                              *)
ErrorHandling(doc, cases) ==
    LET at == LabelLines(doc, {"field"}, {"Error Handling"})
        body == Block(doc, "Error Handling", TopHeadings(doc))
        own == IF at # {} /\ doc[First(at)].fill # "blank" THEN 1 ELSE 0
    IN  /\ \A c \in cases : \E i \in body : doc[i].name = c
        /\ Cardinality(body) + own >= 3

PipelineStage(doc) ==
    LET Arrow == {i \in DOMAIN doc : doc[i].name = "down arrow"}
        input == Block(doc, "Input", LabelLines(doc, {"field"}, {"Output"}) \cup Arrow)
        output == Block(doc, "Output", LabelLines(doc, {"field"}, {"Error Handling"}) \cup
                                       {i \in DOMAIN doc : doc[i].form = "heading" /\ doc[i].level > 1})
    IN  /\ FirstInBlock(doc, input, "Source") /\ FirstInBlock(doc, input, "Format")
        /\ \E i \in LabelLines(doc, {"field"}, {"Schema"}) \cap input :
              doc[i].fill # "blank" \/ i + 1 \in input
        /\ FirstInBlock(doc, output, "Destination") /\ FirstInBlock(doc, output, "Format")
        /\ ErrorHandling(doc, {"transient", "missing input"})

(* A module whose operations are all marked Not Supported passes without a *)
(* function; once it names a function it must name a file.                 *)
Feature(doc) ==
    IF AnyField(doc, "Function") THEN AnyField(doc, "File") ELSE Mentions(doc, "Not Supported")

BackgroundJob(doc) ==
    /\ FirstField(doc, {"Trigger"})
    /\ Mentions(doc, "on success")
    /\ ErrorHandling(doc, {"transient", "permanent"})

SharedUtility(doc) ==
    LET used == LabelLines(doc, Field, {"Used by"}) IN
    /\ HasDiagram(doc)
    /\ \E p \in DiagramParts(doc) : p.name = "class"
    /\ \E p \in DiagramParts(doc) : p.form = "method" /\ Filled(Whole(p))
    /\ used # {}
    /\ \E i \in Rows(doc, 2) : i > First(used) /\ Written(doc[i].cells[1])

----------------------------------------------------------------------------
(* check_quality looks the label of the header up in the registry of       *)
(* module types; a document with no known label is "unknown", which is not *)
(* a failure.                                                              *)
Buckets == {"Pipeline Stage", "Feature", "Background Job", "Shared Utility", "Resource Group"}
ModuleNoIssue(bucket, doc) ==
    CASE bucket = "Pipeline Stage" -> PipelineStage(doc)
      [] bucket \in {"Feature", "Resource Group"} -> Feature(doc)
      [] bucket = "Background Job" -> BackgroundJob(doc)
      [] bucket = "Shared Utility" -> SharedUtility(doc)
ModuleQuality(bucket, doc) ==
    IF bucket \notin Buckets THEN "unknown" ELSE IF ModuleNoIssue(bucket, doc) THEN "pass" ELSE "fail"
==============================================================================
