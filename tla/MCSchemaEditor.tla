---------------------------- MODULE MCSchemaEditor ----------------------------
(* SchemaEditor for TLC: keys of three types, and every combination of a       *)
(* column's attributes with at most one of check, default and foreign key.     *)
EXTENDS SchemaEditor

Plain == [column |-> "c", type |-> "int", null |-> FALSE, unique |-> FALSE, pk |-> FALSE,
          index |-> FALSE, rel |-> FALSE, check |-> "none", default |-> "none"]

Keys == {[Plain EXCEPT !.pk = TRUE, !.unique = TRUE, !.type = t] : t \in {"auto", "int", "big"}}

Columns == {[Plain EXCEPT !.null = n, !.unique = u, !.index = i] : n, u, i \in BOOLEAN}

Variants(f) == {
    f,
    [f EXCEPT !.type = "big"],
    [f EXCEPT !.rel = TRUE],
    [f EXCEPT !.check = "positive"],
    [f EXCEPT !.default = "d1"] }

MCFields ==
    Keys \cup UNION {Variants(f) : f \in Columns} \cup {
        [Plain EXCEPT !.default = "implicit"],
        [Plain EXCEPT !.default = "d2", !.type = "big"],
        [Plain EXCEPT !.check = "small", !.default = "d1"],
        [Plain EXCEPT !.column = "d", !.rel = TRUE, !.index = TRUE],
        [Plain EXCEPT !.column = "d", !.type = "big", !.default = "d1"] }

\* A foreign key and its column without NULL, for the counterexamples.
FewFields == {
    [Plain EXCEPT !.rel = TRUE, !.index = TRUE],
    [Plain EXCEPT !.rel = TRUE, !.index = TRUE, !.null = TRUE],
    [Plain EXCEPT !.unique = TRUE] }
==============================================================================
