----------------------------- MODULE MCModHost -----------------------------
(* An instance of ModHost for TLC: two modules, each with an export behind a gate the host
   did not open that the other registers or exports freely, so that their entries can be
   open together, and a two-script mod with a gated export and a fill that names it. *)
EXTENDS ModHost, TLC

CONSTANTS a, b, c

MCMods == {a, b, c}
MCCatalog ==
    a :> [format |-> "module", declares |-> [n \in {"f"} |-> "ungranted"], scripts |-> <<{"g"}>>,
          exports |-> {"f", "g"}, fills |-> <<[hook |-> "h", handler |-> "g"]>>]
    @@ b :> [format |-> "script", declares |-> [n \in {"g"} |-> "ungranted"], scripts |-> <<{"g"}, {}>>,
          exports |-> {}, fills |-> <<[hook |-> "h", handler |-> "g"]>>]
    @@ c :> [format |-> "module", declares |-> [n \in {"g"} |-> "ungranted"], scripts |-> <<{"f"}>>,
          exports |-> {"g"}, fills |-> <<>>]

=============================================================================
