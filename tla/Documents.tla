------------------------------ MODULE Documents ------------------------------
(***************************************************************************)
(* A Markdown document as the validators read it                           *)
(* (templates/script/validators/_verify_common.py).  A line is what their  *)
(* regular expressions can tell apart: its form, the label, title or word  *)
(* it carries ("name"), and how far its value is filled in.  Blank lines   *)
(* are skipped by every expression and are left out.                       *)
(***************************************************************************)
EXTENDS Integers, Sequences, FiniteSets

(* How far a value is filled in: nothing; one bracket span around all of   *)
(* it, "[Component A]"; a prompt recognised anywhere in a text, "[e.g. x]";*)
(* an HTML comment "<!-- TODO -->"; or a text somebody wrote.  A table     *)
(* cell may also be part of the rule under the header, a column title the  *)
(* checker skips, a text that starts with a link, "[a](b)", or a number.   *)
Fill == {"blank", "bracketed", "prompt", "todo", "real"}
Cell == Fill \cup {"rule", "title", "link", "0", "1"}

NoCells == <<>>
Heading(name, level, rest) ==
    [form |-> "heading", name |-> name, level |-> level, fill |-> rest, cells |-> NoCells]
Plain(form, name, fill) ==
    [form |-> form, name |-> name, level |-> 0, fill |-> fill, cells |-> NoCells]
Row(cells) ==
    [form |-> "row", name |-> "row", level |-> 0, fill |-> "blank", cells |-> cells]

(* The form of a line: "Label: v" and "**Label:** v", "| Label | v |", a   *)
(* bullet, a numbered step, prose, and in a diagram "[Label]", kind        *)
(* "Label" and a method "+ m()" between @startuml and @enduml.             *)
Forms == {"heading", "row", "field", "bold", "labelled", "item", "step", "text",
          "start", "bare", "quoted", "method", "end"}
Lines(names) ==
    {line \in [form : Forms, name : names, level : 0..3, fill : Fill, cells : UNION {[1..n -> Cell] : n \in 0..3}] :
        line.form # "row" <=> line.cells = NoCells}

(* Variant: without the catch-all pattern for a value in one bracket span. *)
PlaceholderByWord(fill) == fill \in {"prompt", "todo"}

(* A value for which _is_placeholder answers yes. *)
Placeholder(fill) == fill \in {"bracketed", "prompt", "todo"}
Filled(fill) == fill # "blank" /\ ~Placeholder(fill)

(* A whole line taken as one value: a bracketed value inside a longer line *)
(* is no longer bracketed from end to end.                                 *)
Marks(line) == {line.fill} \cup {line.cells[i] : i \in DOMAIN line.cells}
Whole(line) ==
    IF "todo" \in Marks(line) THEN "todo"
    ELSE IF "prompt" \in Marks(line) THEN "prompt"
    ELSE IF line.form = "text" THEN line.fill ELSE "real"

(* A line of a section body, where _strip_bracket_blocks has removed every *)
(* bracket span: a line that was only a span is blank, a longer line keeps *)
(* its bullet, label or bars.                                              *)
Stripped(line) ==
    IF "todo" \in Marks(line) THEN "todo"
    ELSE IF line.form \in {"text", "rest"} /\ line.fill # "real" THEN "blank" ELSE "real"

(* What  Label\s*:\s*(.+)  captures at line i: after a blank value the     *)
(* white space runs on and the next line is captured whole; after          *)
(* "**Label:**" the closing asterisks are captured too, and a label in a   *)
(* table row brings the bar at the end of the row.                         *)
Captured(doc, i) ==
    LET line == doc[i] IN
    IF line.form \in {"bold", "labelled"} THEN Whole(line)
    ELSE IF line.fill # "blank" THEN line.fill
    ELSE IF i < Len(doc) THEN Whole(doc[i + 1]) ELSE "blank"

First(S) == CHOOSE i \in S : \A j \in S : i <= j
LabelLines(doc, forms, names) ==
    {i \in DOMAIN doc : doc[i].form \in forms /\ doc[i].name \in names}
AnyCaptured(doc, forms, names) ==
    \E i \in LabelLines(doc, forms, names) : Filled(Captured(doc, i))
(* Variant: a label given twice counts with its last value. *)
LastCaptured(doc, forms, names) ==
    LET at == LabelLines(doc, forms, names) IN
    at # {} /\ Filled(Captured(doc, CHOOSE i \in at : \A j \in at : j <= i))
FirstCaptured(doc, forms, names) ==
    LET at == LabelLines(doc, forms, names) IN at # {} /\ Filled(Captured(doc, First(at)))
Field == {"field", "bold"}
AnyField(doc, name) == AnyCaptured(doc, Field, {name})
FirstField(doc, names) == FirstCaptured(doc, Field, names)
Mentions(doc, word) == \E i \in DOMAIN doc : doc[i].name = word

(* The lines after line i, up to the first stop. *)
LinesAfter(doc, i, stops) == i + 1..First({s \in stops : s > i} \cup {Len(doc) + 1}) - 1

(* The body of the first section whose heading starts with one of the      *)
(* names: the rest of the heading's own line, then the lines up to the     *)
(* next heading of the same or a higher level.                             *)
SectionStarts(doc, names) == LabelLines(doc, {"heading"}, names)
HasSection(doc, names) == SectionStarts(doc, names) # {}
SectionBody(doc, names) ==
    LET start == First(SectionStarts(doc, names))
        ends == {j \in DOMAIN doc : doc[j].form = "heading" /\ doc[j].level <= doc[start].level}
    IN  {<<[doc[start] EXCEPT !.form = "rest"], start>>} \cup
        {<<doc[j], j>> : j \in LinesAfter(doc, start, ends)}
BodyLines(doc, names, want(_)) ==
    IF HasSection(doc, names) THEN Cardinality({l \in SectionBody(doc, names) : want(l[1])}) ELSE 0
RealLine(line) == Filled(Stripped(line))
SectionFilled(doc, names) == BodyLines(doc, names, RealLine) > 0

(* Table rows with at least n cells whose first cells are all written:     *)
(* neither the rule, a skipped title, blank nor a placeholder.  (A row     *)
(* with too few cells is not joined with the line below it, as the         *)
(* expressions would when that line is no row.)                            *)
Written(cell) == cell \notin {"rule", "title"} /\ Filled(cell)
Rows(doc, n) == {i \in DOMAIN doc : doc[i].form = "row" /\ Len(doc[i].cells) >= n}
AnyRow(doc, n, needed) ==
    \E i \in Rows(doc, n) : \A k \in 1..needed : Written(doc[i].cells[k])
AnyUnlinkedRow(doc, n) ==
    \E i \in Rows(doc, n) : Written(doc[i].cells[1]) /\ doc[i].cells[1] # "link"

(* The first @startuml with an @enduml after it, and the lines between.    *)
DiagramStarts(doc) ==
    {i \in DOMAIN doc : doc[i].form = "start" /\ \E j \in i + 1..Len(doc) : doc[j].form = "end"}
HasDiagram(doc) == DiagramStarts(doc) # {}
DiagramParts(doc) ==
    {doc[k] : k \in LinesAfter(doc, First(DiagramStarts(doc)), {e \in DOMAIN doc : doc[e].form = "end"})}
==============================================================================
