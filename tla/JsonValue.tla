----------------------------- MODULE JsonValue -----------------------------
(* JSON as the manifest tools read it: a value is an object, a list, a string, a number or a
   boolean, and an object is a function from the keys it has. They are records with different
   fields, so any two values can be compared. *)
EXTENDS Sequences, FiniteSets

Obj(f) == [fields |-> f]
Arr(s) == [items |-> s]
Str(x) == [string |-> x]
Num(n) == [number |-> n]
True == [boolean |-> TRUE]
False == [boolean |-> FALSE]
Empty == [k \in {} |-> True]

IsObject(v) == "fields" \in DOMAIN v
IsList(v) == "items" \in DOMAIN v
IsString(v) == "string" \in DOMAIN v
IsNumber(v) == "number" \in DOMAIN v
IsBoolean(v) == "boolean" \in DOMAIN v

(* obj?.key, for an object given as its function. *)
Undefined == [undefined |-> "undefined"]
Get(f, k) == IF k \in DOMAIN f THEN f[k] ELSE Undefined

(* What an object's own entries are, and none for anything else. *)
FieldsOf(v) == IF IsObject(v) THEN v.fields ELSE Empty
ItemsOf(v) == IF IsList(v) THEN v.items ELSE <<>>

(* What a key of an object holds, and the same one key further down. *)
At(v, k) == Get(FieldsOf(v), k)
Has(v, k) == k \in DOMAIN FieldsOf(v)
StringsOf(v) == {i.string : i \in {j \in {ItemsOf(v)[n] : n \in DOMAIN ItemsOf(v)} : IsString(j)}}

(* {...base, ...child} *)
Spread(base, child) ==
    [k \in DOMAIN base \cup DOMAIN child |-> IF k \in DOMAIN child THEN child[k] ELSE base[k]]
Drop(f, keys) == [k \in DOMAIN f \ keys |-> f[k]]
Keep(f, keys) == [k \in DOMAIN f \cap keys |-> f[k]]
=============================================================================
