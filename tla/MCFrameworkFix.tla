----------------------------- MODULE MCFrameworkFix -----------------------------
(* Two developers, of one project type or of two; a document with two wanted     *)
(* sections, one of whose headings contains the other's and whose branches have  *)
(* the same name in one of the types, and a document without a template.         *)
EXTENDS FrameworkFix

CONSTANTS errors, errorsInDepth, extra, shipped, own1, d1, d2, webApp, cli, b1, b2, b3

MCDocOf == [g \in Gap |-> IF g = extra THEN own1 ELSE shipped]
MCProjects == {[d \in Developer |-> webApp], [d \in Developer |-> IF d = d1 THEN webApp ELSE cli]}
MCBranchOf == [t \in ProjectType |-> [g \in Gap |-> IF t = webApp THEN b1
                                                    ELSE IF g = errors THEN b2 ELSE b3]]
MCContaining == [g \in Gap |-> IF g = errors THEN {errors, errorsInDepth} ELSE {g}]
MCResembling == MCContaining
MCReports == {<<errors, errorsInDepth>>, <<extra, errors>>}
=============================================================================
