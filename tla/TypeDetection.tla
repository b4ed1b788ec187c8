---------------------------- MODULE TypeDetection -----------------------------
(***************************************************************************)
(* detect_type.py: a project's type inferred from its files, dependencies  *)
(* and requirements.  A rule of the tables is kept as the type it speaks   *)
(* for and its points, and one signal stands for the rules of one table    *)
(* that give the same points to the same type.                             *)
(***************************************************************************)
EXTENDS Integers, FiniteSets, FiniteSetsExt, Sequences, SequencesExt

(* VALID_TYPES, in the order in which equal scores are ranked. *)
ValidTypes == <<"web-app", "cli-tool", "library", "data-pipeline", "ml-pipeline",
                "microservices", "llm-app", "iac", "mobile-app">>
Types == ToSet(ValidTypes)

PrimaryThreshold == 20
HybridThreshold == 10
ConfidentThreshold == 40

(* The points each table gives a type.                                     *)
FileRules == ("iac" :> {15, 18, 20, 25} @@ "mobile-app" :> {10, 20, 25, 30} @@ "web-app" :> {12, 15, 20, 25}
              @@ "ml-pipeline" :> {12, 15, 18} @@ "library" :> {10, 12, 15} @@ "cli-tool" :> {15})
DirRules == ("iac" :> {12, 15, 25} @@ "mobile-app" :> {8, 18} @@ "microservices" :> {15, 18, 20}
             @@ "data-pipeline" :> {12, 18, 25} @@ "ml-pipeline" :> {5, 12, 15, 18}
             @@ "web-app" :> {5, 8, 10, 12, 18, 20} @@ "llm-app" :> {12, 18, 20, 22})
PythonRules == ("web-app" :> {15, 18, 20, 22, 25} @@ "data-pipeline" :> {8, 15, 18, 22, 25, 28, 30}
                @@ "ml-pipeline" :> {15, 18, 20, 22, 25, 28} @@ "llm-app" :> {20, 22, 25, 28}
                @@ "cli-tool" :> {8, 10, 12, 15, 22} @@ "iac" :> {8, 20, 22, 25})
NodeRules == ("web-app" :> {20, 22, 25} @@ "mobile-app" :> {22, 25, 28, 30} @@ "llm-app" :> {15, 20, 25}
              @@ "cli-tool" :> {15, 18, 20} @@ "microservices" :> {15, 18, 20, 22, 25})
GlobRules == ("iac" :> {15, 18, 20, 25} @@ "ml-pipeline" :> {12, 15, 20} @@ "mobile-app" :> {18, 25}
              @@ "data-pipeline" :> {12, 20})
KeywordRules == ("web-app" :> {8, 10, 12, 15, 18, 20} @@ "cli-tool" :> {8, 18, 20, 22, 25}
                 @@ "library" :> {8, 15, 20, 22} @@ "data-pipeline" :> {8, 15, 20, 22, 25}
                 @@ "ml-pipeline" :> {8, 12, 15, 18, 20, 22, 25} @@ "microservices" :> {12, 15, 18, 22, 25}
                 @@ "llm-app" :> {18, 20, 22, 25} @@ "iac" :> {15, 18, 22, 25} @@ "mobile-app" :> {20, 22, 25})

Tables == [file |-> FileRules, dir |-> DirRules, python |-> PythonRules, node |-> NodeRules,
           glob |-> GlobRules, keyword |-> KeywordRules]

(* A signal says which table spoke, for which type, with how many points   *)
(* and how often: only file patterns and *-service directories are counted. *)
Signals ==
    UNION {UNION {{[table |-> t, type |-> p, points |-> w, times |-> n] :
                        w \in Tables[t][p], n \in IF t = "glob" THEN 1..3 ELSE {1}} :
                    p \in DOMAIN Tables[t]} : t \in DOMAIN Tables}
    \cup {[table |-> "services", type |-> "microservices", points |-> 20, times |-> n] : n \in 1..3}

(* Files count up to three times, each for half the points, and one service *)
(* directory alone says nothing.                                           *)
Points(signal) ==
    CASE signal.table = "glob" -> (signal.times * signal.points) \div 2 + signal.points \div 2
      [] signal.table = "services" -> IF signal.times >= 2 THEN signal.points * signal.times ELSE 0
      [] OTHER -> signal.points

(* Every signal adds its points to its type.  scan is off under --no-scan, *)
(* and for requirements without a path; told says whether requirements     *)
(* were given at all.                                                      *)
Add(signal, scores) == [scores EXCEPT ![signal.type] = @ + Points(signal)]
Read(found, scan, told) == {s \in found : IF s.table = "keyword" THEN told ELSE scan}
Scores(found, scan, told) == FoldSet(Add, [t \in Types |-> 0], Read(found, scan, told))

Rank(t) == CHOOSE i \in DOMAIN ValidTypes : ValidTypes[i] = t
Outranks(scores, t, u) ==
    scores[t] > scores[u] \/ (scores[t] = scores[u] /\ Rank(t) < Rank(u))

(* The other types whose score is enough for the second half of a hybrid.  *)
(* Variant: a type that ties with the best is not among them.               *)
BelowTop(scores, top) ==
    {t \in Types \ {top} :
        scores[t] >= HybridThreshold /\ 10 * scores[t] >= 4 * scores[top] /\ scores[t] < scores[top]}
Near(scores, top) ==
    {t \in Types \ {top} : scores[t] >= HybridThreshold /\ 10 * scores[t] >= 4 * scores[top]}

(* The best type, and with it the next one that scored enough.  Without a  *)
(* signal the best type is web-app.                                        *)
Recommend(scores) ==
    LET top == CHOOSE t \in Types : \A u \in Types \ {t} : Outranks(scores, t, u)
        near == Near(scores, top)
    IN  IF scores[top] < PrimaryThreshold THEN {top}
        ELSE {top} \cup {t \in near : \A u \in near \ {t} : Outranks(scores, t, u)}

Confidence(scores) ==
    LET top == Max({scores[t] : t \in Types})
    IN  IF top >= ConfidentThreshold THEN "high" ELSE IF top >= PrimaryThreshold THEN "medium" ELSE "low"
Authoritative(scores) == Confidence(scores) # "low"

(* The adapter rows: which signal, for which type, suggests one.  Only a   *)
(* recommendation of one type gets a suggestion.                           *)
AdapterSignals == [python |-> {"web-app", "cli-tool", "data-pipeline", "llm-app", "iac"},
                   node |-> {"web-app", "llm-app", "mobile-app"},
                   file |-> {"mobile-app"}, glob |-> {"iac", "mobile-app"}]
Suggests(signal, type) ==
    signal.type = type /\ signal.table \in DOMAIN AdapterSignals /\ type \in AdapterSignals[signal.table]
SuggestSpecCode(found, scan, recommended) ==
    scan /\ Cardinality(recommended) = 1 /\ \E s \in found, t \in recommended : Suggests(s, t)
===============================================================================
