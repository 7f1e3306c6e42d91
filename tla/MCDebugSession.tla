--------------------------- MODULE MCDebugSession ---------------------------
(* Scripts with a line that begins no statement, with a name declared in a block above one that
   shadows nothing yet, and with a var that is read before its line. *)
EXTENDS DebugSession

CONSTANTS r1, r2
Line(statement, declares, block) == [statement |-> statement, declares |-> declares, block |-> block]
Let(name, block) == [name |-> name, block |-> block, hoisted |-> FALSE]
Var(name) == [name |-> name, block |-> <<>>, hoisted |-> TRUE]
Plain == <<Line(TRUE, {Var("a")}, <<"block">>), Line(FALSE, {}, <<>>), Line(TRUE, {}, <<>>)>>
Shadowed == <<Line(TRUE, {Let("b", <<"block">>)}, <<"block">>), Line(TRUE, {}, <<>>), Line(TRUE, {Let("b", <<>>)}, <<>>)>>
MCPrograms == {Plain, Shadowed}
MCRequests == {{1, 2}, {3}}
=============================================================================
