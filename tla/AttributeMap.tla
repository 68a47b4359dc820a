---------------------------- MODULE AttributeMap ----------------------------
(***************************************************************************)
(* Attribute bags (src/src/authzen/attribute.rs): a map from keys to       *)
(* attributes that are known, known to be absent, or unknown because the   *)
(* application could not read them.  An attribute nobody could read has no *)
(* form on the wire, so the server can never refuse a request for it.      *)
(***************************************************************************)
EXTENDS Sequences

Absent == [is |-> "absent", value |-> <<>>]
Unknown == [is |-> "unknown", value |-> <<>>]
Known == [is |-> "known", value |-> <<>>]            \* of some JSON that is no object
KnownMap(map) == [is |-> "known", value |-> <<map>>]  \* of a nested map

EmptyMap == [k \in {} |-> Known]

insert(map, key, attribute) ==
    [k \in DOMAIN map \cup {key} |-> IF k = key THEN attribute ELSE map[k]]

holds_unresolved(map, key) == key \in DOMAIN map /\ map[key].is = "unknown"

Mutant_record(map, key, attribute) == insert(map, key, attribute)

(* A key that holds an attribute nobody could read keeps it.               *)
record(map, key, attribute) ==
    IF holds_unresolved(map, key) THEN map ELSE insert(map, key, attribute)

IsNested(map, key) == key \in DOMAIN map /\ map[key].value # <<>>

(* nested_for_write: <<>>, or the map to write under the key, made anew    *)
(* over anything that is not one.                                          *)
nested_for_write(map, key) ==
    IF holds_unresolved(map, key) THEN <<>>
    ELSE IF IsNested(map, key) THEN map[key].value ELSE <<EmptyMap>>

(* set_query and set_correlation write one key of a nested map.            *)
record_nested(map, key, inner, attribute) ==
    LET nested == nested_for_write(map, key)
    IN IF nested = <<>> THEN map
       ELSE insert(map, key, KnownMap(record(Head(nested), inner, attribute)))

AllRead(map) == \A k \in DOMAIN map : map[k].is # "unknown"

(* It has an unknown attribute, at any depth: it is neither valid nor can  *)
(* it be serialised.  Bound: bags nest two deep, as the builders nest them.*)
unreadable(map) ==
    \/ ~AllRead(map)
    \/ \E k \in DOMAIN map : IsNested(map, k) /\ ~AllRead(Head(map[k].value))

bag_refusal(map) == IF unreadable(map) THEN "evaluation_unavailable" ELSE "valid"
=============================================================================
