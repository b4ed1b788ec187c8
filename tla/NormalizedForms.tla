----------------------------- MODULE NormalizedForms -----------------------------
(***************************************************************************)
(* What a specification and the code are turned into before they are       *)
(* compared (_spec_code_adapters/_base.py), and verify_spec_code.py's       *)
(* comparison of the two lists.  Names, paths and types are tokens; they    *)
(* are compared without case, so that they are written in one.              *)
(***************************************************************************)
EXTENDS Naturals, SequencesExt

(* The items of s at the places I, in their order; those that pass a test    *)
(* (SelectSeq, whose definition is out of a proof's reach).                  *)
At(s, I) == FlattenSeq([i \in DOMAIN s |-> IF i \in I THEN <<s[i]>> ELSE <<>>])
Kept(s, Test(_)) == At(s, {i \in DOMAIN s : Test(s[i])})

(* Fields are a function from names to types, "" where none is known.       *)
NoFields == [n \in {} |-> ""]
Without(fields, names) == [n \in DOMAIN fields \ names |-> fields[n]]

(* One item of either side: an endpoint, a stage, a command, ..., with its  *)
(* two lists of fields and the one attribute that is compared beside them.  *)
Form(key, first, second, scalar) ==
    [key |-> key, first |-> first, second |-> second, scalar |-> scalar]

-----------------------------------------------------------------------------
(* Optional[x], list[x], x | None and x? are taken for x.                   *)
Wraps == [t \in {"Optional[str]", "list[str]", "str | None", "list[Row]"} |->
            IF t = "list[Row]" THEN "Row" ELSE "str"]
Bare(t) == IF t \in DOMAIN Wraps THEN Wraps[t] ELSE t

AliasGroups ==
    {{"string", "str", "text", "char", "varchar"}, {"boolean", "bool"},
     {"integer", "int", "long", "number", "float", "double", "decimal"},
     {"array", "list", "list[]"}, {"object", "dict", "map"}}

(* The words a type may be written as.                                      *)
NormalizeType(t) ==
    {Bare(t)} \cup UNION {g \in AliasGroups : Bare(t) \in g}

TypesMatch(t, u) == NormalizeType(t) = NormalizeType(u)

\* Variant: a parameter keeps its name and its framework's notation.
PathAsWritten(p) == p

(* {id} and :id both become :param.  Of Flask's <int:id> the last part does,  *)
(* its <id> stays.                                                          *)
NormalizePath(p) ==
    CASE p.style \in {"braces", "colon"} -> [p EXCEPT !.style = "param", !.arg = ""]
      [] p.style = "converter" -> [p EXCEPT !.arg = ""]
      [] OTHER -> p

(* The keys of _FORM_HANDLERS, all of one shape.                            *)
Path(route, style, arg) == [route |-> route, style |-> IF arg = "" THEN "plain" ELSE style, arg |-> arg]
EndpointKey(verb, path) == [verb |-> verb, path |-> NormalizePath(path)]
NameKey(name) == [verb |-> "", path |-> Path(name, "plain", "")]
LogKey(function, state) == [verb |-> state, path |-> Path(function, "plain", "")]

-----------------------------------------------------------------------------
(* Of two items with one key the later one is kept.                         *)
ByKey(forms) ==
    [k \in {forms[i].key : i \in DOMAIN forms} |->
        forms[CHOOSE i \in DOMAIN forms :
            forms[i].key = k /\ \A j \in (i + 1)..Len(forms) : forms[j].key # k]]

(* One dictionary for both lists of fields, the second over the first.      *)
Fields(form) ==
    [n \in DOMAIN form.first \cup DOMAIN form.second |->
        IF n \in DOMAIN form.second THEN form.second[n] ELSE form.first[n]]

(* A type or a scalar only one side knows is not compared.                  *)
Changed(t, u) == t # "" /\ u # "" /\ ~TypesMatch(t, u)

\* Variant: a field the specification does not name is no mismatch.
MismatchedIfDeclared(s, c) ==
    {n \in DOMAIN Fields(s) :
        n \notin DOMAIN Fields(c) \/ Changed(Fields(s)[n], Fields(c)[n])}
        \cup (IF Changed(s.scalar, c.scalar) THEN {"return"} ELSE {})

(* Removed from the code, added in the code, or of another type.            *)
Mismatched(s, c) ==
    LET sf == Fields(s)
        cf == Fields(c)
    IN  (DOMAIN sf \ DOMAIN cf) \cup (DOMAIN cf \ DOMAIN sf)
            \cup {n \in DOMAIN sf \cap DOMAIN cf : Changed(sf[n], cf[n])}
            \cup (IF Changed(s.scalar, c.scalar) THEN {"return"} ELSE {})

Compare(specItems, codeItems) ==
    LET s == ByKey(specItems)
        c == ByKey(codeItems)
    IN  [missing |-> DOMAIN s \ DOMAIN c,
         extra |-> DOMAIN c \ DOMAIN s,
         mismatched |-> {k \in DOMAIN s \cap DOMAIN c : Mismatched(s[k], c[k]) # {}}]

HasMismatches(r) == r.missing # {} \/ r.extra # {} \/ r.mismatched # {}
=============================================================================
