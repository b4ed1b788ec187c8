------------------------------- MODULE MCSpecCode -------------------------------
(* One operation in five variants and a second one, in every framework.     *)
EXTENDS SpecCode

Operation(name, arg, first, second, scalar) ==
    [name |-> name, verb |-> "GET", arg |-> arg, first |-> first, second |-> second, scalar |-> scalar]
MCOperations ==
    {Operation("load", "", "id" :> t, "total" :> "int", "") : t \in {"str", "int"}}
        \cup {Operation("load", "", "id" :> "", NoFields, "int"), Operation("load", "id", "id" :> "string", NoFields, "str"),
              Operation("load", "", NoFields, NoFields, ""), Operation("save", "", "id" :> "str", NoFields, "")}

(* And one with a field that has the name of a column.                      *)
MCNamedOperations ==
    {Operation("load", "", n :> "str", NoFields, "") : n \in {"id", "name"}}
MCFrameworks == UNION {ToSet(Registered[c]) : c \in DOMAIN Registered}
=============================================================================
