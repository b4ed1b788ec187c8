---------------------------- MODULE DocumentGate -----------------------------
(***************************************************************************)
(* A document while its author works on it, and the verdict its validator  *)
(* would give of every version: verify_content.py, verify_module_docs.py,  *)
(* verify_docs.py --content, verify_logs.py and verify_tests.py are run    *)
(* after any edit, by hand, by the hooks and in CI.                        *)
(***************************************************************************)
EXTENDS ContentChecks, ModuleChecks, SpecAudits

CONSTANTS
    Drafts,     \* name of a document -> the documents an author may start from
    Additions,   \* name of a document -> the lines an author may add at its end
    Projects,   \* name of a document -> the sets of project types it is read for
    MaxAdded    \* bound: lines added to a draft

VARIABLES name, types, doc, added
documentVars == <<name, types, doc, added>>

Graded == {"scan", "logging-spec", "module-log", "test-report"}
Names == Checked \cup Buckets \cup Graded

ScanSections == {"Rules"}    \* CONTENT_SECTIONS of business-rules.md

(* The words authors know.  A link is a text somebody wrote; verify_logs.py *)
(* audits the specification of types that log only.  Nobody takes a line of *)
(* placeholders for progress where the share of filled lines is measured,   *)
(* nor a raw print where the code that prints is what is complained of.     *)
Words == UNION {{l.name : l \in Additions[n]} : n \in Names}
         \cup UNION {UNION {{d[i].name : i \in DOMAIN d} : d \in Drafts[n]} : n \in Names}
Linked(line) == line.name = "[p](x-prompt.md)" => line.fill = "real"
ASSUME DocumentAssumption ==
    /\ \A n \in Names : \A l \in Additions[n] : l \in Lines(Words) /\ Linked(l)
    /\ \A n \in Names : \A d \in Drafts[n] : d \in Seq(Lines(Words)) /\ \A i \in DOMAIN d : Linked(d[i])
    /\ \A ts \in Projects["logging-spec"] : ts \cap LoggingTypes # {}
    /\ \A l \in Additions["scan"] : ContentLine(l) => FilledLine(l)
    /\ \A l \in Additions["module-log"] : l.name # "print("
    /\ MaxAdded \in Nat

(* The verdict, as a grade: 0 fails, 1 warns, 2 passes. *)
Grade ==
    LET verdict ==
            IF name \in Checked THEN Quality(name, doc, types, {})
            ELSE IF name \in Buckets THEN ModuleQuality(name, doc)
            ELSE IF name = "scan" THEN ScanStatus(doc, ScanSections)
            ELSE IF name = "logging-spec" THEN Verdict(LoggingSpec(doc, types))
            ELSE IF name = "module-log" THEN Verdict(ModuleLog(doc, types))
            ELSE Verdict(TestReport(doc, types))
    IN  IF verdict \in {"fail", "poor"} THEN 0 ELSE IF verdict \in {"warn", "partial"} THEN 1 ELSE 2

DocumentInit ==
    /\ name \in Names
    /\ types \in Projects[name]
    /\ doc \in Drafts[name]
    /\ added = 0

(* The author adds a line at the end of the document. *)
AddLine ==
    /\ added < MaxAdded
    /\ \E l \in Additions[name] : doc' = Append(doc, l)
    /\ added' = added + 1
    /\ UNCHANGED <<name, types>>

(* The author replaces an unfilled value by a real one. *)
FillIn ==
    /\ \E i \in DOMAIN doc :
          \/ /\ doc[i].form # "row" /\ Placeholder(doc[i].fill)
             /\ doc' = [doc EXCEPT ![i].fill = "real"]
          \/ \E k \in DOMAIN doc[i].cells :
                /\ Placeholder(doc[i].cells[k]) \/ doc[i].cells[k] = "blank"
                /\ doc' = [doc EXCEPT ![i].cells[k] = "real"]
    /\ UNCHANGED <<name, types, added>>

DocumentStep == AddLine \/ FillIn

DocumentSpec == DocumentInit /\ [][DocumentStep]_documentVars

----------------------------------------------------------------------------
(* Working on a document never makes its verdict worse: a value filled in  *)
(* or a line added at the end cannot turn a pass into a warning or a       *)
(* failure.  The checkers take the first match of some labels, the body up *)
(* to the next heading of others and a ratio in a third, so this has to    *)
(* hold for each of them.  Three steps are excepted: a module whose        *)
(* operations are all Not Supported passes until it names a function       *)
(* (verify_module_docs.py:144-166); the screen a mobile app's diagram must *)
(* show is only seen inside brackets, so filling in the quoted label       *)
(* "[Login Screen]" loses it (verify_content.py:1025-1038); and the word   *)
(* TODO counts as an environment variable until it is replaced             *)
(* (verify_content.py:668-676).                                            *)
NamesFunction == name \in {"Feature", "Resource Group"}
UnbracketsScreen ==
    name = "architecture" /\ \E i \in DOMAIN doc : doc[i].name = "screen" /\ doc'[i] # doc[i]
ReplacesTodo ==
    name = "deployment" /\ \E i \in DOMAIN doc : "todo" \in Marks(doc[i]) /\ doc'[i] # doc[i]
ProgressNeverHurts ==
    [][NamesFunction \/ UnbracketsScreen \/ ReplacesTodo \/ Grade <= Grade']_documentVars

(* Nobody has written anything: every value is blank, a placeholder, a     *)
(* column title or the rule of a table.                                    *)
Unwritten ==
    \A i \in DOMAIN doc :
        /\ doc[i].fill # "real"
        /\ \A k \in DOMAIN doc[i].cells : doc[i].cells[k] \notin {"real", "link", "0", "1"}

(* The placeholders stand alone: no value behind a bullet or a bold label, *)
(* no label without a value, nothing behind a heading, and no list, table  *)
(* or sub-heading inside a section.                                        *)
Bare ==
    /\ \A i \in DOMAIN doc : doc[i].form \notin {"item", "bold", "labelled", "bare"}
    /\ \A i \in DOMAIN doc : doc[i].form \in {"field", "step"} => doc[i].fill # "blank"
    /\ \A i \in DOMAIN doc : doc[i].form = "heading" =>
          /\ doc[i].fill = "blank"
          /\ \A j \in 1..i - 1 : doc[j].form = "heading" => doc[i].level <= doc[j].level
    /\ (\E i \in DOMAIN doc : doc[i].form = "heading") =>
          \A i \in DOMAIN doc : doc[i].form \in {"heading", "text"}

(* Checks satisfied by a word anywhere in the text or by a count of lines. *)
WordChecks == {"service-contract", "test-plan", "module-log", "Feature", "Resource Group"}

(* A document whose placeholders stand alone is never taken for a filled   *)
(* one by a check that asks for a value.                                   *)
BareDraftFails ==
    Unwritten /\ Bare /\ name \notin WordChecks
    /\ ~(name \in {"deployment", "database"} /\ types \cap Pipelines # {})
    => Grade < 2

(* verify_content.py:120: "at least one decision entry with non-           *)
(* placeholder Rationale; Decision field not blank".  A research document  *)
(* nobody wrote anything in does not pass.  The code disagrees: of the     *)
(* template's "**Decision:** [Final choice]" and "**Rationale:**" it       *)
(* captures the closing asterisks too, so neither value is blank nor one   *)
(* bracket span.                                                           *)
PlaceholderRationaleFails == Unwritten /\ name = "research" => Grade < 2
==============================================================================
