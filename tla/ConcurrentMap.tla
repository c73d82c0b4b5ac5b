--------------------------- MODULE ConcurrentMap ---------------------------
(***************************************************************************)
(* The key/value maps of the code (xsync.Map and plain Go maps) as TLA+    *)
(* functions whose DOMAIN is the set of keys present.  xsync.Map is a      *)
(* library: Store, Delete and Compute act on one key atomically.           *)
(***************************************************************************)

EmptyMap == [k \in {} |-> k]

\* m.Store(k, v)
MapPut(m, k, v) == [x \in DOMAIN m \cup {k} |-> IF x = k THEN v ELSE m[x]]

\* m.Delete(k)
MapDelete(m, k) == [x \in DOMAIN m \ {k} |-> m[x]]

\* Keep only the keys of S.
MapKeep(m, S) == [x \in DOMAIN m \cap S |-> m[x]]

\* m maps some keys of K to values of V.
IsMap(m, K, V) == DOMAIN m \subseteq K /\ m \in [DOMAIN m -> V]
=============================================================================
