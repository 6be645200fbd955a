------------------------------- MODULE Chains -------------------------------
(* Linked chains of slots as HashSet.aml and HashMap.aml keep them: a link  *)
(* is a slot index plus one, and 0 ends the chain, so slots count from 1.   *)
EXTENDS Integers, SequencesExt

\* Walk(next)[<<left, s>>] is what following next from s meets in left steps.
Walk(next) ==
  LET n == Len(next)
      walk[p \in (0 .. n + 1) \X (0 .. n)] ==
        IF p[1] = 0 \/ p[2] = 0 THEN <<>> ELSE <<p[2]>> \o walk[<<p[1] - 1, next[p[2]]>>]
  IN  walk

\* The slots met when following next from head; a cycle shows as a repetition.
Chain(next, head) == Walk(next)[<<Len(next) + 1, head>>]

\* All the slots on the chains of a table with these bucket heads.
Linked(next, heads) == UNION {ToSet(Chain(next, heads[b])) : b \in DOMAIN heads}

\* Every slot is on one chain at most, and there once.
Disjoint(next, heads) ==
  /\ \A b \in DOMAIN heads : IsInjective(Chain(next, heads[b]))
  /\ \A b, c \in DOMAIN heads :
       b # c => ToSet(Chain(next, heads[b])) \cap ToSet(Chain(next, heads[c])) = {}
=============================================================================
