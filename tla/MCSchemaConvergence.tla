------------------------- MODULE MCSchemaConvergence -------------------------
(***************************************************************************)
(* Instances of SchemaConvergence for TLC: four releases of one table.     *)
(***************************************************************************)
EXTENDS SchemaConvergence

id == 1
a == 2
b == 3
extra == 4

Col(pos, from, ty, nullable, unique) ==
  [pos |-> pos, from |-> from, ty |-> ty, nullable |-> nullable, pk |-> FALSE,
   unique |-> unique, hasDefault |-> FALSE]
Pk(c) == [c EXCEPT !.pk = TRUE, !.nullable = FALSE]
On(cols, unique) == [cols |-> cols, unique |-> unique]

Pair(n, c, m, d) == [x \in {n, m} |-> IF x = n THEN c ELSE d]

MCNames == 1..5
MCMigKey == 5

\* The first release; one that renames a, makes it unique and changes its
\* index; one that changes a type; one without a primary key.
First == [col |-> Pair(id, Pk(Col(0, NoName, "text", FALSE, FALSE)),
                       a, Col(1, NoName, "text", TRUE, FALSE)),
          indexes |-> {On(<<a>>, FALSE)}]
Renamed == [col |-> Pair(id, Pk(Col(0, NoName, "text", FALSE, FALSE)),
                         b, Col(1, a, "text", TRUE, TRUE)),
            indexes |-> {On(<<b, id>>, TRUE)}]
Retyped == [col |-> Pair(id, Pk(Col(1, NoName, "text", FALSE, FALSE)),
                         a, [Col(0, NoName, "bigint", FALSE, FALSE) EXCEPT !.hasDefault = TRUE]),
            indexes |-> {On(<<a>>, FALSE)}]
Keyless == [col |-> Pair(a, Col(0, NoName, "text", TRUE, FALSE),
                         b, Col(1, NoName, "text", TRUE, FALSE)),
            indexes |-> {}]
MCSpecs == {First, Renamed, Retyped, Keyless}

Cfg(order, exact, drops, renames, migKey) ==
  [order |-> order, exact |-> exact, drops |-> drops, renames |-> renames, migKey |-> migKey]
MCCfgs == {Cfg(FALSE, FALSE, FALSE, TRUE, FALSE), Cfg(FALSE, FALSE, FALSE, FALSE, TRUE),
           Cfg(TRUE, TRUE, FALSE, TRUE, FALSE), Cfg(TRUE, TRUE, TRUE, TRUE, TRUE)}

\* No table; one made elsewhere, with a column too many, a gap where one was
\* dropped, and a partial unique index.
Foreign(n) == [ty |-> "text", nullable |-> n # id,
               key |-> IF n = id THEN "primary" ELSE "none", pos |-> n - 1, data |-> n]
MCTables ==
  {[live |-> Empty, attrs |-> 0, indexes |-> {}],
   [live |-> [n \in Names |-> IF n \in {id, a, extra} THEN Foreign(n) ELSE NoCol],
    attrs |-> 4,
    indexes |-> {[name |-> <<"other", FALSE, <<a>>>>, cols |-> <<a>>, unique |-> TRUE,
                  plain |-> FALSE, on |-> 0, valid |-> TRUE]}]}
=============================================================================
