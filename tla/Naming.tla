------------------------------- MODULE Naming -------------------------------
(* The names generated declarations are given (tools/typegen/src). An id becomes an identifier by
   dropping what an identifier cannot hold, so two ids may give one name; where the generator
   keeps a list of the names taken, the later one is numbered. *)
EXTENDS Naturals, SequencesExt, TLC

CONSTANT Pascal   \* the identifier an id gives: a function from ids

PascalCase(id) == Pascal[id]

(* A mutated form: the first number is used whether or not it is free. *)
NumbersOnce(used, base) == Append(used, IF base \in Range(used) THEN base \o "2" ELSE base)
(* The first of base, base2, base3, ... that is not taken. *)
TakeName(used, base) ==
    LET Spelt(n) == IF n = 1 THEN base ELSE base \o ToString(n)
        free == CHOOSE n \in 1..(Len(used) + 1) : Spelt(n) \notin Range(used) /\ \A k \in 1..(n - 1) : Spelt(k) \in Range(used)
    IN  Append(used, Spelt(free))
(* A name for each id, none of them one of `taken`. *)
UniqueNames(taken, ids) == SubSeq(FoldLeft(LAMBDA used, id : TakeName(used, PascalCase(id)), taken, ids), Len(taken) + 1, Len(taken) + Len(ids))
=============================================================================
