----------------------------- MODULE Dictionary -----------------------------
(* What the Map interface (Map.aml) promises: a partial function from keys  *)
(* to values, and the answer every call gives about it.                     *)
EXTENDS Functions, FiniteSets, Integers

CONSTANTS Key, Val, None

VARIABLES
  dict,    \* the function
  answer   \* the last query made and what it returned

vars == <<dict, answer>>

Silent == [query |-> "none", of |-> None, result |-> None]
Answer(q, of, result) == [query |-> q, of |-> of, result |-> result]

Init == dict = <<>> /\ answer = Silent

Set(k, v) ==
  /\ answer' = Silent
  /\ dict' = [x \in DOMAIN dict \cup {k} |-> IF x = k THEN v ELSE dict[x]]

Remove(k) ==
  /\ answer' = Answer("remove", k, k \in DOMAIN dict)
  /\ dict' = Restrict(dict, DOMAIN dict \ {k})

Clear == answer' = Silent /\ dict' = <<>>

\* get throws and getOrNull returns null on a missing key.
Get(k) ==
  /\ answer' = Answer("get", k, IF k \in DOMAIN dict THEN dict[k] ELSE None)
  /\ UNCHANGED dict

ContainsValue(v) ==
  /\ answer' = Answer("containsValue", v, \E k \in DOMAIN dict : dict[k] = v)
  /\ UNCHANGED dict

\* keys() lists every key once; getSize() agrees with it.
Keys ==
  /\ answer' = Answer("keys", DOMAIN dict, Cardinality(DOMAIN dict))
  /\ UNCHANGED dict

Next ==
  \/ Clear \/ Keys
  \/ \E k \in Key : Remove(k) \/ Get(k) \/ \E v \in Val : Set(k, v)
  \/ \E v \in Val : ContainsValue(v)

Spec == Init /\ [][Next]_vars
=============================================================================
