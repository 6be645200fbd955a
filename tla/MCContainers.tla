----------------------------- MODULE MCContainers -----------------------------
(* A behaviour uses one of the two hash tables.  Map: three keys that share *)
(* a bucket of the first table of two; two of them share one of the second, *)
(* of eight.  Set: three values that share a bucket of the first table of   *)
(* four; two of them share one of the second, of eight.                     *)
EXTENDS HashMap, HashSet

CONSTANTS k1, k2, k3, v1, v2, v3
MCKey     == {k1, k2, k3}
MCHash    == (k1 :> 0 @@ k2 :> 2 @@ k3 :> 8)
MCValue   == {v1, v2, v3}
MCSetHash == (v1 :> 0 @@ v2 :> 4 @@ v3 :> 16)

VARIABLE container   \* "HashMap" or "HashSet"

ContainersInit == Init /\ SetInit /\ container \in {"HashMap", "HashSet"}

ContainersNext ==
  \/ container = "HashMap" /\ Next /\ UNCHANGED <<setVars, container>>
  \/ container = "HashSet" /\ SetNext /\ UNCHANGED <<vars, container>>

ContainersSpec == ContainersInit /\ [][ContainersNext]_<<vars, setVars, container>>

\* Slots of a set used up before the model stops: enough to fill the first table.
FewSlots == hashSet.currentValueIndex <= 5
=============================================================================
