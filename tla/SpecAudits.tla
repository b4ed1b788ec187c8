----------------------------- MODULE SpecAudits ------------------------------
(***************************************************************************)
(* The three audits that grade a document instead of passing it: the fill  *)
(* scan of verify_docs.py --content, verify_logs.py and verify_tests.py.   *)
(* A check that was made and its status are kept, its wording is not.      *)
(***************************************************************************)
EXTENDS Documents

----------------------------------------------------------------------------
(* scan_content: the share of content lines that are no placeholder, in    *)
(* per cent rounded down, and the "## " sections with fewer than three     *)
(* filled lines.  A heading and a comment line are no content.             *)
MinSectionLines == 3
ContentLine(line) == line.form # "heading" /\ ~(line.form = "text" /\ line.fill = "todo")
FilledLine(line) == ContentLine(line) /\ Filled(Whole(line))

FillPct(doc) ==
    LET content == {i \in DOMAIN doc : ContentLine(doc[i])}
        filled == {i \in content : FilledLine(doc[i])}
    IN  (100 * Cardinality(filled)) \div (IF content = {} THEN 1 ELSE Cardinality(content))

(* Sections of the same title share one body; any other "## " ends it. *)
UnderTitle(doc, title) ==
    {i \in DOMAIN doc : \E h \in 1..i - 1 :
        /\ doc[h].form = "heading" /\ doc[h].level = 2 /\ doc[h].name = title /\ doc[h].fill = "blank"
        /\ \A k \in h + 1..i : ~(doc[k].form = "heading" /\ doc[k].level = 2)}
ScanStatus(doc, sections) ==
    LET Thin(title) == Cardinality({i \in UnderTitle(doc, title) : FilledLine(doc[i])}) < MinSectionLines
        unfilled == {t \in sections : Thin(t)}
    IN  IF FillPct(doc) >= 80 /\ unfilled = {} THEN "full"
        ELSE IF FillPct(doc) >= 50 THEN "partial" ELSE "poor"

----------------------------------------------------------------------------
(* verify_logs.py: a thin section or a missing field warns, a missing      *)
(* trace id in the specification fails; in a module's log document a raw   *)
(* print fails.                                                            *)
LoggingTypes == {"web-app", "cli-tool", "data-pipeline", "ml-pipeline", "microservices", "mobile-app", "llm-app"}
TracedTypes == LoggingTypes \ {"cli-tool"}
PipelineTypes == {"data-pipeline", "ml-pipeline"}
Status(ok, otherwise) == IF ok THEN "pass" ELSE otherwise

LoggingSpec(doc, types) ==
    LET FilledIn(line) == line.form # "heading" /\ Filled(Stripped(line))
        sections == {"Log Output Format", "Required Log Points", "Module Naming Convention"}
    IN  IF types \cap LoggingTypes = {} THEN {}
        ELSE {Status(BodyLines(doc, {s}, FilledIn) >= MinSectionLines, "warn") : s \in sections}
             \cup (IF types \cap TracedTypes = {} THEN {} ELSE {Status(Mentions(doc, "trace_id"), "fail")})
             \cup (IF types \cap PipelineTypes = {} THEN {} ELSE {Status(Mentions(doc, "row count"), "warn")})
             \cup (IF "llm-app" \in types THEN {Status(Mentions(doc, "token"), "warn")} ELSE {})

ModuleLog(doc, types) ==
    {Status(Mentions(doc, "structured"), "warn"), Status(~Mentions(doc, "print("), "fail")}
    \cup (IF types \cap TracedTypes = {} THEN {} ELSE {Status(Mentions(doc, "trace_id"), "warn")})
    \cup (IF types \cap PipelineTypes = {} THEN {} ELSE {Status(Mentions(doc, "row count"), "warn")})
    \cup (IF "llm-app" \in types THEN {Status(Mentions(doc, "token"), "warn")} ELSE {})

----------------------------------------------------------------------------
(* verify_tests.py: check_test_report.  The rows are read after bracket    *)
(* spans are gone: a row of results is real when it follows a table rule   *)
(* and some cell is not empty.                                             *)
ResultRow(doc, body, i) ==
    /\ doc[i].form = "row" /\ doc[i].cells[1] # "rule"
    /\ \E r \in body : r < i /\ doc[r].form = "row" /\ doc[r].cells[1] = "rule"
    /\ \E k \in DOMAIN doc[i].cells : doc[i].cells[k] \notin {"blank", "bracketed", "prompt"}
NumberRow(line) ==
    line.form = "row" /\ \E k \in 2..Len(line.cells) :
        line.cells[k] \in {"0", "1"} /\ line.cells[k - 1] \notin {"rule", "link", "todo"}
SectionLines(doc, name) ==
    IF HasSection(doc, {name}) THEN {l[2] : l \in SectionBody(doc, {name})} ELSE {}
RealResults(doc, body) == \E i \in body : ResultRow(doc, body, i)

(* The two sections of a pipeline report are looked for anywhere in the    *)
(* text, not as headings: what is found runs to the next heading of the    *)
(* first level, the sections after it included.                            *)
FromMention(doc, word) ==
    LinesAfter(doc, First({i \in DOMAIN doc : doc[i].name = word}),
               {i \in DOMAIN doc : doc[i].form = "heading" /\ doc[i].level = 1})

TestReport(doc, types) ==
    LET numbers == {i \in SectionLines(doc, "Summary") : NumberRow(doc[i])}
        positive == \E i \in numbers : \E k \in DOMAIN doc[i].cells : doc[i].cells[k] = "1"
        Results(word) ==
            Status(Mentions(doc, word) /\ RealResults(doc, FromMention(doc, word)), "fail")
        GEResult == \E i \in DOMAIN doc : doc[i].name = "success=" /\ doc[i].fill = "real"
                        /\ i \in FromMention(doc, "contract tests")
    IN  {IF numbers = {} THEN "fail" ELSE Status(positive, "warn"),
         Status(Mentions(doc, "overall status"), "fail")}
        \cup IF types \cap PipelineTypes = {}
             THEN {Status(RealResults(doc, SectionLines(doc, "Results by Module")), "fail")}
             ELSE {Results("fault injection"),
                   IF Mentions(doc, "contract tests") /\ GEResult THEN "pass" ELSE Results("contract tests")}

Verdict(statuses) == IF "fail" \in statuses THEN "fail" ELSE IF "warn" \in statuses THEN "warn" ELSE "pass"
==============================================================================
