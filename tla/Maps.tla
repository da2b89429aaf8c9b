-------------------------------- MODULE Maps --------------------------------
(* Go's maps as TLA+ functions: a key that is absent from the map is outside *)
(* the function's domain.                                                    *)

\* The empty map, make(map[K]V).
EmptyMap == [k \in {} |-> k]

\* m[key] = value
Put(m, key, value) ==
  [k \in DOMAIN m \cup {key} |-> IF k = key THEN value ELSE m[k]]

\* delete(m, key)
Delete(m, key) == [k \in DOMAIN m \ {key} |-> m[k]]
=============================================================================
