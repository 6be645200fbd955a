------------------------------ MODULE HashMap ------------------------------
(***************************************************************************)
(* Am.Collections.HashMap: the chained hash table of HashSet with the      *)
(* vacated slots kept on a free list, threaded through the array that      *)
(* otherwise links the chains.  An operation is one step: a map belongs to *)
(* one isolate and its methods do not call back into it.  InitialBuckets   *)
(* is 8 and Growth 8 in the code; a key's hash is all the model knows.     *)
(***************************************************************************)
EXTENDS Integers, FiniteSets, Chains

CONSTANTS
  Key, Val,
  Hash,            \* Hash[k]: what k.hash() returns
  InitialBuckets,
  Growth,
  MaxBuckets,      \* bounds the number of times the model grows a map
  None             \* default(K), default(V): the content of an unused slot

ASSUME HashMapAssumption ==
  /\ Hash \in [Key -> Nat]
  /\ InitialBuckets \in Nat \ {0}
  /\ Growth \in Nat \ {0, 1}
  /\ None \notin Key \cup Val

VARIABLES
  map,     \* the HashMap object
  answer   \* the last query made and what it returned

vars == <<map, answer>>

\* Arrays of n slots; n = 0 is the map before its first set.
Empty(n) ==
  [bucketSize |-> n, keyIndexes |-> [b \in 0 .. n - 1 |-> 0],
   nextIndexes |-> [s \in 1 .. n |-> 0], keys |-> [s \in 1 .. n |-> None],
   values |-> [s \in 1 .. n |-> None], currentEntryIndex |-> 0, freeHead |-> 0,
   size |-> 0]

Bucket(t, k)  == Hash[k] % t.bucketSize
Entries(t, b) == Chain(t.nextIndexes, t.keyIndexes[b])

\* The slots findEntry can return for key k: at most one.
Slots(t, k) == IF t.bucketSize = 0 THEN {}
               ELSE {s \in ToSet(Entries(t, Bucket(t, k))) : t.keys[s] = k}
SlotOf(t, k) == CHOOSE s \in Slots(t, k) : TRUE

\* Mutant of NewEntry: the popped slot stays the head of the free list.
NewEntryKeepsFree(t, k, v) ==
  LET b == Bucket(t, k)
      s == IF t.freeHead > 0 THEN t.freeHead ELSE t.currentEntryIndex + 1
  IN  [t EXCEPT !.keys[s] = k, !.values[s] = v, !.nextIndexes[s] = t.keyIndexes[b],
                !.keyIndexes[b] = s, !.size = @ + 1,
                !.currentEntryIndex = IF t.freeHead > 0 THEN @ ELSE s]

\* Mutant of NewEntry: the free list is never used.
NewEntryExtends(t, k, v) ==
  LET b == Bucket(t, k)
      s == t.currentEntryIndex + 1
  IN  [t EXCEPT !.keys[s] = k, !.values[s] = v, !.nextIndexes[s] = t.keyIndexes[b],
                !.keyIndexes[b] = s, !.size = @ + 1, !.currentEntryIndex = s]

\* A new key takes a vacated slot, else the next one, and heads its bucket.
NewEntry(t, k, v) ==
  LET b == Bucket(t, k)
      s == IF t.freeHead > 0 THEN t.freeHead ELSE t.currentEntryIndex + 1
  IN  [t EXCEPT !.keys[s] = k, !.values[s] = v, !.nextIndexes[s] = t.keyIndexes[b],
                !.keyIndexes[b] = s, !.size = @ + 1,
                !.freeHead = IF t.freeHead > 0 THEN t.nextIndexes[s] ELSE 0,
                !.currentEntryIndex = IF t.freeHead > 0 THEN @ ELSE s]

privateSetKeyValue(t, k, v) ==
  IF Slots(t, k) # {} THEN [t EXCEPT !.values[SlotOf(t, k)] = v]
  ELSE NewEntry(t, k, v)

\* All the slots on bucket chains, bucket by bucket.
Live(t) == FlattenSeq([b \in 1 .. t.bucketSize |-> Entries(t, b - 1)])

\* The entries on the old chains are entered again into larger arrays.
Grown(t) ==
  LET list == Live(t)
      entered[i \in 0 .. Len(list)] ==
        IF i = 0 THEN Empty(t.bucketSize * Growth)
        ELSE privateSetKeyValue(entered[i - 1], t.keys[list[i]], t.values[list[i]])
  IN  entered[Len(list)]

Prepared(t) ==
  LET a == IF t.bucketSize = 0 THEN Empty(InitialBuckets) ELSE t
  IN  IF a.size * 4 >= a.bucketSize * 2 THEN Grown(a) ELSE a

Silent == [query |-> "none", of |-> None, result |-> None]
Answer(q, of, result) == [query |-> q, of |-> of, result |-> result]

Init == map = Empty(0) /\ answer = Silent

set(k, v) ==
  LET t == Prepared(map)
  IN  /\ t.bucketSize <= MaxBuckets
      /\ map' = privateSetKeyValue(t, k, v)
      /\ answer' = Silent

freeSlot(t, s) ==
  [t EXCEPT !.nextIndexes[s] = t.freeHead, !.freeHead = s,
            !.keys[s] = None, !.values[s] = None]

\* The predecessor of slot s in bucket b, or the head, skips it.
Unlinked(t, b, s) ==
  IF t.keyIndexes[b] = s
  THEN [t EXCEPT !.keyIndexes[b] = t.nextIndexes[s]]
  ELSE LET p == CHOOSE x \in ToSet(Entries(t, b)) : t.nextIndexes[x] = s
       IN  [t EXCEPT !.nextIndexes[p] = t.nextIndexes[s]]

remove(k) ==
  /\ IF Slots(map, k) = {} THEN UNCHANGED map
     ELSE LET s == SlotOf(map, k)
              u == Unlinked(map, Bucket(map, k), s)
          IN  map' = [freeSlot(u, s) EXCEPT !.size = @ - 1]
  /\ answer' = Answer("remove", k, Slots(map, k) # {})

\* Mutant of clear: the free list survives.
clearKeepsFree ==
  /\ map' = [map EXCEPT !.size = 0, !.currentEntryIndex = 0,
                        !.keyIndexes = [b \in 0 .. map.bucketSize - 1 |-> 0]]
  /\ answer' = Silent

\* The buckets and the free list are emptied; links, keys and values stay.
clear ==
  /\ map' = [map EXCEPT !.size = 0, !.currentEntryIndex = 0, !.freeHead = 0,
                        !.keyIndexes = [b \in 0 .. map.bucketSize - 1 |-> 0]]
  /\ answer' = Silent

\* get, getOrNull and containsKey.
get(k) ==
  /\ answer' = Answer("get", k, IF Slots(map, k) = {} THEN None
                                ELSE map.values[SlotOf(map, k)])
  /\ UNCHANGED map

LiveSlots == Linked(map.nextIndexes, map.keyIndexes)

containsValue(v) ==
  /\ answer' = Answer("containsValue", v, \E s \in LiveSlots : map.values[s] = v)
  /\ UNCHANGED map

\* The result of keys and the length of that list.
buildKeys ==
  /\ LET list == Live(map)
     IN  answer' = Answer("keys", {map.keys[s] : s \in ToSet(list)}, Len(list))
  /\ UNCHANGED map

Next ==
  \/ clear \/ buildKeys
  \/ \E k \in Key : remove(k) \/ get(k) \/ \E v \in Val : set(k, v)
  \/ \E v \in Val : containsValue(v)

Spec == Init /\ [][Next]_vars

-----------------------------------------------------------------------------
FreeList == Chain(map.nextIndexes, map.freeHead)

TypeOK ==
  /\ map.keyIndexes \in [0 .. map.bucketSize - 1 -> 0 .. map.bucketSize]
  /\ map.nextIndexes \in [1 .. map.bucketSize -> 0 .. map.bucketSize]
  /\ map.keys \in [1 .. map.bucketSize -> Key \cup {None}]
  /\ map.values \in [1 .. map.bucketSize -> Val \cup {None}]
  /\ map.currentEntryIndex \in 0 .. map.bucketSize
  /\ map.freeHead \in 0 .. map.bucketSize
  /\ map.size \in 0 .. map.bucketSize

(* Every slot handed out is on exactly one bucket chain or on the free      *)
(* list, never on both: a vacated slot is neither lost nor used twice, and  *)
(* (HashMap.aml:300-303) pins neither the key nor the value it held.        *)
SlotsPartitioned ==
  /\ TypeOK
  /\ Disjoint(map.nextIndexes, map.keyIndexes) /\ IsInjective(FreeList)
  /\ LiveSlots \cap ToSet(FreeList) = {}
  /\ LiveSlots \cup ToSet(FreeList) = 1 .. map.currentEntryIndex
  /\ map.size = Cardinality(LiveSlots)
  /\ \A s \in ToSet(FreeList) : map.keys[s] = None /\ map.values[s] = None

(* HashMap.aml:22-23: new slots are used only when every one handed out is  *)
(* live, so their number stays within the peak number of entries.           *)
HighWaterMark ==
  [][map'.bucketSize = map.bucketSize /\ map'.currentEntryIndex > map.currentEntryIndex
       => map'.size = map'.currentEntryIndex]_vars

(* The map is the dictionary of the Map interface: every get, containsKey,  *)
(* containsValue, keys, getSize and remove answers as it would, through     *)
(* collisions, removals, slot reuse, clear and growth.                      *)
Contents ==
  LET live == LiveSlots
  IN  [k \in {map.keys[s] : s \in live} |->
         map.values[CHOOSE s \in live : map.keys[s] = k]]
Dict == INSTANCE Dictionary WITH dict <- Contents
ImplementsDictionary == Dict!Spec
=============================================================================
