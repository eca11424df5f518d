-------------------------------- MODULE Maps --------------------------------
(***************************************************************************)
(* Functions as the code's maps.  Put and Both are TLC's (k :> v) @@ map   *)
(* and f @@ g in plain TLA+, of which theorems can be proved.              *)
(***************************************************************************)

\* HashMap::insert.
Put(map, k, v) == [x \in DOMAIN map \cup {k} |-> IF x = k THEN v ELSE map[x]]

\* Of keys in both, the first map's values.
Both(f, g) ==
  [x \in DOMAIN f \cup DOMAIN g |-> IF x \in DOMAIN f THEN f[x] ELSE g[x]]
=============================================================================
