------------------------ MODULE ConcurrentMapProofs ------------------------
(* What the map operations of ConcurrentMap preserve and return. *)
EXTENDS ConcurrentMap, TLAPS

\* The empty map has every map type.
LEMMA EmptyMapType ==
    ASSUME NEW K, NEW V
    PROVE  IsMap(EmptyMap, K, V) /\ DOMAIN EmptyMap = {}
BY DEF IsMap, EmptyMap

\* Store keeps the map's type, adds one key and changes no other.
LEMMA MapPutType ==
    ASSUME NEW K, NEW V, NEW m, IsMap(m, K, V), NEW k \in K, NEW v \in V
    PROVE  /\ IsMap(MapPut(m, k, v), K, V)
           /\ DOMAIN MapPut(m, k, v) = DOMAIN m \cup {k}
           /\ MapPut(m, k, v)[k] = v
           /\ \A x \in DOMAIN m \ {k} : MapPut(m, k, v)[x] = m[x]
BY DEF IsMap, MapPut

\* Delete keeps the map's type, removes one key and changes no other.
LEMMA MapDeleteType ==
    ASSUME NEW K, NEW V, NEW m, IsMap(m, K, V), NEW k
    PROVE  /\ IsMap(MapDelete(m, k), K, V)
           /\ DOMAIN MapDelete(m, k) = DOMAIN m \ {k}
           /\ \A x \in DOMAIN m \ {k} : MapDelete(m, k)[x] = m[x]
BY DEF IsMap, MapDelete

\* So does deleting every key outside a set.
LEMMA MapKeepType ==
    ASSUME NEW K, NEW V, NEW m, IsMap(m, K, V), NEW S
    PROVE  /\ IsMap(MapKeep(m, S), K, V)
           /\ DOMAIN MapKeep(m, S) = DOMAIN m \cap S
           /\ \A x \in DOMAIN m \cap S : MapKeep(m, S)[x] = m[x]
BY DEF IsMap, MapKeep

\* Updating a present key keeps the map's type and its keys.
LEMMA MapExceptType ==
    ASSUME NEW K, NEW V, NEW m, IsMap(m, K, V), NEW k \in DOMAIN m, NEW v \in V
    PROVE  /\ IsMap([m EXCEPT ![k] = v], K, V)
           /\ DOMAIN [m EXCEPT ![k] = v] = DOMAIN m
           /\ [m EXCEPT ![k] = v][k] = v
           /\ \A x \in DOMAIN m \ {k} : [m EXCEPT ![k] = v][x] = m[x]
BY DEF IsMap

\* What a map's type says of one of its values.
LEMMA MapValueType ==
    ASSUME NEW K, NEW V, NEW m, IsMap(m, K, V), NEW k \in DOMAIN m
    PROVE  k \in K /\ m[k] \in V
BY DEF IsMap
=============================================================================
