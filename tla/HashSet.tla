------------------------------ MODULE HashSet ------------------------------
(***************************************************************************)
(* Am.Collections.HashSet: a chained hash table whose chains run through   *)
(* an array of slots that are handed out in order and never given back.    *)
(* An operation is one step: a set belongs to one isolate and its methods  *)
(* do not call back into it.  SetBuckets is 1024 and SetGrowth 4 in the    *)
(* code; a value's hash is all the model knows of it.                      *)
(***************************************************************************)
EXTENDS Integers, FiniteSets, Chains

CONSTANTS
  Value,
  SetHash,         \* SetHash[v]: what v.hash() returns
  SetBuckets,
  SetGrowth,
  MaxSetBuckets,   \* bounds the number of times the model grows a set
  Null             \* the content of a slot that was never written

ASSUME HashSetAssumption ==
  /\ SetHash \in [Value -> Nat]
  /\ SetBuckets \in Nat \ {0}
  /\ SetGrowth \in Nat \ {0, 1}
  /\ Null \notin Value

VARIABLES
  hashSet,  \* the HashSet object
  members,  \* what a set of values would hold after the same calls
  removed,  \* some value was removed since the slots were last numbered afresh
  threw     \* add() indexed past the end of its arrays

setVars == <<hashSet, members, removed, threw>>

\* Arrays of n zeroes; n = 0 is the set before its first add.
EmptySet(n) ==
  [bucketSize |-> n, valueIndexes |-> [b \in 0 .. n - 1 |-> 0],
   nextIndexes |-> [s \in 1 .. n |-> 0], values |-> [s \in 1 .. n |-> Null],
   currentValueIndex |-> 0, currentIndex |-> n, size |-> 0]

SetBucket(t, v) == SetHash[v] % t.bucketSize
Found(t, v) == \E s \in ToSet(Chain(t.nextIndexes, t.valueIndexes[SetBucket(t, v)])) :
                 t.values[s] = v
has(t, v)   == t.bucketSize # 0 /\ Found(t, v)

\* A new value takes the next slot and becomes the head of its bucket.
privateSetValue(t, v) ==
  LET b == SetBucket(t, v)  s == t.currentValueIndex + 1 IN
  IF Found(t, v) THEN t
  ELSE [t EXCEPT !.values[s] = v, !.nextIndexes[s] = t.valueIndexes[b],
                 !.valueIndexes[b] = s, !.currentValueIndex = s, !.size = @ + 1,
                 !.currentIndex = IF t.valueIndexes[b] = 0 THEN @ ELSE @ + 1]

NeedsGrowth(t) == t.size * 4 >= t.bucketSize * 2 \/ t.currentIndex >= t.bucketSize * 2

\* Mutant of SetGrown: the last slot is left behind.
SetGrownShort(t) ==
  LET entered[s \in 0 .. t.currentValueIndex] ==
        IF s = 0 THEN EmptySet(t.bucketSize * SetGrowth)
        ELSE IF s = t.currentValueIndex THEN entered[s - 1]
        ELSE privateSetValue(entered[s - 1], t.values[s])
  IN  entered[t.currentValueIndex]

\* The values are entered again slot by slot, whether or not still chained.
SetGrown(t) ==
  LET entered[s \in 0 .. t.currentValueIndex] ==
        IF s = 0 THEN EmptySet(t.bucketSize * SetGrowth)
        ELSE privateSetValue(entered[s - 1], t.values[s])
  IN  entered[t.currentValueIndex]

SetPrepared(t) ==
  LET a == IF t.bucketSize = 0 THEN EmptySet(SetBuckets) ELSE t
  IN  IF NeedsGrowth(a) THEN SetGrown(a) ELSE a

SetInit == hashSet = EmptySet(0) /\ members = {} /\ removed = FALSE /\ threw = FALSE

\* values[currentValueIndex] = value throws when the slots are used up.
add(v) ==
  LET t == SetPrepared(hashSet)
      full == ~Found(t, v) /\ t.currentValueIndex = t.bucketSize
  IN  /\ t.bucketSize <= MaxSetBuckets
      /\ hashSet' = IF full THEN t ELSE privateSetValue(t, v)
      /\ members' = IF full THEN members ELSE members \cup {v}
      /\ removed' = IF t.bucketSize # hashSet.bucketSize THEN FALSE ELSE removed
      /\ threw'   = full

\* Mutant of SetUnlinked: a chain of one slot is not cut.
SetUnlinkedExceptLast(t, s, b) ==
  LET chain == Chain(t.nextIndexes, t.valueIndexes[b])
  IN  IF Len(chain) = 1 THEN t
      ELSE IF chain[1] = s THEN [t EXCEPT !.valueIndexes[b] = t.nextIndexes[s]]
      ELSE LET p == CHOOSE k \in ToSet(chain) : t.nextIndexes[k] = s
           IN  [t EXCEPT !.nextIndexes[p] = t.nextIndexes[s]]

\* Slot s of bucket b leaves its chain: its predecessor, or the head, skips it.
SetUnlinked(t, s, b) ==
  IF t.valueIndexes[b] = s
  THEN [t EXCEPT !.valueIndexes[b] = t.nextIndexes[s]]
  ELSE LET p == CHOOSE k \in ToSet(Chain(t.nextIndexes, t.valueIndexes[b])) :
                  t.nextIndexes[k] = s
       IN  [t EXCEPT !.nextIndexes[p] = t.nextIndexes[s]]

removeValue(v) ==
  /\ has(hashSet, v)
  /\ LET b == SetBucket(hashSet, v)
         s == CHOOSE k \in ToSet(Chain(hashSet.nextIndexes, hashSet.valueIndexes[b])) :
                hashSet.values[k] = v
     IN  hashSet' = [SetUnlinked(hashSet, s, b) EXCEPT !.size = @ - 1]
  /\ members' = members \ {v}
  /\ removed' = TRUE
  /\ threw' = FALSE

\* Mutant of clearSet: the bucket heads stay.
clearSetKeepsHeads ==
  /\ hashSet' = [hashSet EXCEPT !.size = 0, !.currentValueIndex = 0,
                                !.currentIndex = hashSet.bucketSize]
  /\ members' = {}
  /\ removed' = FALSE
  /\ threw' = FALSE

\* The buckets are emptied; slots are numbered from 0 again, links and values stay.
clearSet ==
  /\ hashSet' = [hashSet EXCEPT !.size = 0, !.currentValueIndex = 0,
                                !.currentIndex = hashSet.bucketSize,
                                !.valueIndexes = [b \in 0 .. hashSet.bucketSize - 1 |-> 0]]
  /\ members' = {}
  /\ removed' = FALSE
  /\ threw' = FALSE

SetNext == clearSet \/ \E v \in Value : add(v) \/ removeValue(v)

SetSpec == SetInit /\ [][SetNext]_setVars

-----------------------------------------------------------------------------
SetSlots == Linked(hashSet.nextIndexes, hashSet.valueIndexes)
Content  == {hashSet.values[s] : s \in SetSlots}

SetTypeOK ==
  /\ hashSet.valueIndexes \in [0 .. hashSet.bucketSize - 1 -> 0 .. hashSet.bucketSize]
  /\ hashSet.nextIndexes \in [1 .. hashSet.bucketSize -> 0 .. hashSet.bucketSize]
  /\ hashSet.values \in [1 .. hashSet.bucketSize -> Value \cup {Null}]
  /\ hashSet.currentValueIndex \in 0 .. hashSet.bucketSize
  /\ hashSet.size \in 0 .. hashSet.bucketSize
  /\ hashSet.currentIndex \in Nat
  /\ members \subseteq Value
  /\ removed \in BOOLEAN /\ threw \in BOOLEAN

(* The chains stay a partition of slots in use, each value in the bucket    *)
(* its hash selects and in one slot only: lookups terminate and find it.    *)
(* getSize, and with it the length of toArray's result, is their number.    *)
ChainsSound ==
  /\ SetTypeOK
  /\ Disjoint(hashSet.nextIndexes, hashSet.valueIndexes)
  /\ \A s \in SetSlots : s <= hashSet.currentValueIndex
  /\ \A b \in DOMAIN hashSet.valueIndexes :
       \A s \in ToSet(Chain(hashSet.nextIndexes, hashSet.valueIndexes[b])) :
         hashSet.values[s] \in Value /\ SetBucket(hashSet, hashSet.values[s]) = b
  /\ Cardinality(Content) = Cardinality(SetSlots)
  /\ hashSet.size = Cardinality(Content)

(* Growing, chaining and unlinking lose no value that is still a member: a  *)
(* value entered and not removed since is found by contains() in whatever   *)
(* table the set has grown to.                                              *)
NothingLost == members \subseteq Content

(* The set holds exactly its members until it grows after a removal.        *)
ExactBetweenGrowths ==
  [][Content = members /\ ~(removed /\ hashSet'.bucketSize # hashSet.bucketSize)
       => Content' = members']_setVars

(* HashSet.aml:188 says remove() "Removes a value from the set": a value    *)
(* removed and not added again is not in it.  Growth enters it again.       *)
NoResurrection == Content \subseteq members

(* HashSet.aml:8-10 says a HashSet that sees a lot of add/remove churn      *)
(* "keeps growing its backing arrays", and :188-189 that such churn grows   *)
(* them over time: add() never runs out of slots.  Growth counts the live   *)
(* values and not the slots spent, so it does.                              *)
AddSucceeds == ~threw
=============================================================================
