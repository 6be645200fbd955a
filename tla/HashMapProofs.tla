---------------------------- MODULE HashMapProofs ----------------------------
(***************************************************************************)
(* For every set of keys, every hash and every size of table: the slots of *)
(* a HashMap are partitioned into chains and free list, new slots are      *)
(* taken only when every old one is live, and the map is the dictionary of *)
(* the Map interface.                                                      *)
(***************************************************************************)
EXTENDS HashMap, ChainProofs

Fields == {"bucketSize", "keyIndexes", "nextIndexes", "keys", "values", "currentEntryIndex", "freeHead", "size"}

Arrays(t) ==
  /\ DOMAIN t = Fields /\ t.bucketSize \in Nat
  /\ t.keyIndexes \in [0 .. t.bucketSize - 1 -> 0 .. t.bucketSize]
  /\ t.nextIndexes \in [1 .. t.bucketSize -> 0 .. t.bucketSize]
  /\ t.keys \in [1 .. t.bucketSize -> Key \cup {None}]
  /\ t.values \in [1 .. t.bucketSize -> Val \cup {None}]
  /\ t.currentEntryIndex \in 0 .. t.bucketSize
  /\ t.freeHead \in 0 .. t.bucketSize
  /\ t.size \in Nat

\* The buckets, and the free list as one more.
Heads(t) == [b \in 0 .. t.bucketSize |-> IF b = t.bucketSize THEN t.freeHead ELSE t.keyIndexes[b]]

OnBucket(t, b) == On(t.nextIndexes, t.keyIndexes[b])
Free(t)        == On(t.nextIndexes, t.freeHead)
LiveOf(t)      == Linked(t.nextIndexes, t.keyIndexes)

\* A live slot holds a key of its bucket and a value; no two hold the same key.
Entered(t) ==
  /\ \A b \in 0 .. t.bucketSize - 1 : \A s \in OnBucket(t, b) :
       t.keys[s] \in Key /\ t.values[s] \in Val /\ Bucket(t, t.keys[s]) = b
  /\ \A r, s \in LiveOf(t) : t.keys[r] = t.keys[s] => r = s

Vacated(t) == \A s \in Free(t) : t.keys[s] = None /\ t.values[s] = None

Good(t) ==
  /\ Arrays(t) /\ Sound(t.bucketSize, t.nextIndexes, Heads(t))
  /\ LiveOf(t) \cup Free(t) = 1 .. t.currentEntryIndex
  /\ t.size = Cardinality(LiveOf(t))
  /\ Entered(t) /\ Vacated(t)

\* The function a table stands for.
DictOf(t) == [k \in {t.keys[s] : s \in LiveOf(t)} |-> t.values[CHOOSE s \in LiveOf(t) : t.keys[s] = k]]

\* The live slots are those of the buckets.
LEMMA LiveIs ==
  ASSUME NEW t, Arrays(t)
  PROVE  \A s : s \in LiveOf(t) <=> \E b \in 0 .. t.bucketSize - 1 : s \in OnBucket(t, b)
BY DEF LiveOf, Linked, OnBucket, On, Arrays

\* What the heads of a sound table say of the chains.
LEMMA Partition ==
  ASSUME NEW t, Arrays(t), Sound(t.bucketSize, t.nextIndexes, Heads(t))
  PROVE  /\ Sound(t.bucketSize, t.nextIndexes, t.keyIndexes)
         /\ \A b, c \in 0 .. t.bucketSize - 1 : b # c => OnBucket(t, b) \cap OnBucket(t, c) = {}
         /\ \A b \in 0 .. t.bucketSize - 1 : OnBucket(t, b) \cap Free(t) = {}
         /\ LiveOf(t) \cap Free(t) = {} /\ LiveOf(t) \subseteq 1 .. t.bucketSize /\ Free(t) \subseteq 1 .. t.bucketSize
         /\ IsFiniteSet(LiveOf(t))
<1> DEFINE n == t.bucketSize
           H == Heads(t)
<1>1. n \in Nat /\ t.keyIndexes \in [0 .. n - 1 -> 0 .. n]
  BY DEF Arrays
<1>2. DOMAIN H = 0 .. n /\ H[n] = t.freeHead /\ \A b \in 0 .. n - 1 : b # n /\ H[b] = t.keyIndexes[b]
  <2>1. DOMAIN H = 0 .. n
    BY DEF Heads
  <2>2. \A b \in 0 .. n : H[b] = IF b = n THEN t.freeHead ELSE t.keyIndexes[b]
    BY DEF Heads
  <2>3. n \in 0 .. n /\ \A b \in 0 .. n - 1 : b # n /\ b \in 0 .. n
    BY <1>1
  <2> QED BY <2>1, <2>2, <2>3
<1>3. 0 .. n - 1 \subseteq DOMAIN H /\ n \in DOMAIN H
  BY <1>1, <1>2
<1>4. Sound(n, t.nextIndexes, t.keyIndexes)
  <2>1. t.keyIndexes = [b \in 0 .. n - 1 |-> H[b]]
    BY <1>1, <1>2
  <2>2. Sound(n, t.nextIndexes, H)
    OBVIOUS
  <2> HIDE DEF n, H
  <2> QED BY <2>1, <2>2, <1>3, SoundPart
<1>5. \A b \in 0 .. n - 1 : OnBucket(t, b) = On(t.nextIndexes, H[b])
  BY <1>2 DEF OnBucket
<1>6. Free(t) = On(t.nextIndexes, H[n])
  BY <1>2 DEF Free
<1>7. \A b, c \in DOMAIN H : b # c => On(t.nextIndexes, H[b]) \cap On(t.nextIndexes, H[c]) = {}
  BY SoundApart
<1>8. \A b \in DOMAIN H : On(t.nextIndexes, H[b]) \subseteq 1 .. n
  BY SoundList
<1> HIDE DEF H, n
<1>9. \A b, c \in 0 .. n - 1 : b # c => OnBucket(t, b) \cap OnBucket(t, c) = {}
  BY <1>3, <1>5, <1>7
<1>10. \A b \in 0 .. n - 1 : OnBucket(t, b) \cap Free(t) = {} /\ OnBucket(t, b) \subseteq 1 .. n
  <2> SUFFICES ASSUME NEW b \in 0 .. n - 1 PROVE OnBucket(t, b) \cap Free(t) = {} /\ OnBucket(t, b) \subseteq 1 .. n
    OBVIOUS
  <2>1. b \in DOMAIN H /\ b # n
    BY <1>2, <1>3
  <2> QED BY <2>1, <1>3, <1>5, <1>6, <1>7, <1>8
<1>11. Free(t) \subseteq 1 .. n
  BY <1>3, <1>6, <1>8
<1>12. \A s : s \in LiveOf(t) <=> \E b \in 0 .. n - 1 : s \in OnBucket(t, b)
  BY LiveIs DEF n
<1>13. LiveOf(t) \cap Free(t) = {} /\ LiveOf(t) \subseteq 1 .. n
  BY <1>10, <1>12
<1>14. IsFiniteSet(LiveOf(t))
  <2>1. DOMAIN t.keyIndexes = 0 .. n - 1
    BY <1>1
  <2> QED BY <2>1, <1>1, <1>4, ChainsInLine DEF LiveOf
<1> QED BY <1>4, <1>9, <1>10, <1>11, <1>13, <1>14 DEF n

\* findEntry finds the live slot of a key.
LEMMA SlotFound ==
  ASSUME NEW t, Good(t), NEW k \in Key
  PROVE  /\ Slots(t, k) = {s \in LiveOf(t) : t.keys[s] = k}
         /\ t.bucketSize # 0 => Bucket(t, k) \in 0 .. t.bucketSize - 1
         /\ \A s \in Slots(t, k) :
              /\ s = SlotOf(t, k) /\ s \in LiveOf(t) /\ s \in 1 .. t.bucketSize /\ t.keys[s] = k
              /\ t.bucketSize # 0 /\ s \in OnBucket(t, Bucket(t, k))
<1> DEFINE n == t.bucketSize
<1>1. Arrays(t) /\ n \in Nat /\ Entered(t)
  BY DEF Good, Arrays
<1>2. \A s : s \in LiveOf(t) <=> \E b \in 0 .. n - 1 : s \in OnBucket(t, b)
  BY <1>1, LiveIs
<1>3. LiveOf(t) \subseteq 1 .. n
  BY <1>1, Partition DEF Good
<1>4. n # 0 => Bucket(t, k) \in 0 .. n - 1
  <2>1. Hash[k] \in Nat
    BY HashMapAssumption
  <2>2. \A a, b \in Nat : b # 0 => a % b \in 0 .. b - 1
    OBVIOUS
  <2> QED BY <2>1, <2>2, <1>1 DEF Bucket
<1>5. ASSUME NEW s PROVE s \in Slots(t, k) <=> s \in LiveOf(t) /\ t.keys[s] = k
  <2>1. CASE n = 0
    <3>1. s \notin Slots(t, k)
      BY <2>1 DEF Slots
    <3>2. s \notin LiveOf(t)
      BY <2>1, <1>3
    <3> QED BY <3>1, <3>2
  <2>2. CASE n # 0
    <3>1. s \in Slots(t, k) <=> s \in OnBucket(t, Bucket(t, k)) /\ t.keys[s] = k
      BY <2>2 DEF Slots, OnBucket, On, Entries
    <3>2. \A b \in 0 .. n - 1 : s \in OnBucket(t, b) => Bucket(t, t.keys[s]) = b
      BY <1>1 DEF Entered
    <3> QED BY <2>2, <3>1, <3>2, <1>2, <1>4
  <2> QED BY <2>1, <2>2
<1>6. Slots(t, k) = {s \in LiveOf(t) : t.keys[s] = k}
  BY <1>5
<1>7. ASSUME NEW s \in Slots(t, k)
      PROVE  /\ s = SlotOf(t, k) /\ s \in LiveOf(t) /\ s \in 1 .. n /\ t.keys[s] = k
             /\ n # 0 /\ s \in OnBucket(t, Bucket(t, k))
  <2>1. s \in LiveOf(t) /\ t.keys[s] = k
    BY <1>5
  <2>2. SlotOf(t, k) \in Slots(t, k)
    BY DEF SlotOf
  <2>3. SlotOf(t, k) \in LiveOf(t) /\ t.keys[SlotOf(t, k)] = k
    BY <2>2, <1>5
  <2>4. \A q, r \in LiveOf(t) : t.keys[q] = t.keys[r] => q = r
    BY <1>1 DEF Entered
  <2>5. s = SlotOf(t, k)
    BY <2>1, <2>3, <2>4
  <2>6. n # 0
    BY <2>1, <1>3
  <2>7. s \in OnBucket(t, Bucket(t, k))
    BY <2>6 DEF Slots, OnBucket, On, Entries
  <2> QED BY <2>1, <2>5, <2>6, <2>7, <1>3
<1> QED BY <1>4, <1>6, <1>7

\* The dictionary of a table, without the choice of a slot.
LEMMA DictIs ==
  ASSUME NEW t, Good(t)
  PROVE  /\ DOMAIN DictOf(t) = {t.keys[s] : s \in LiveOf(t)}
         /\ \A s \in LiveOf(t) : DictOf(t)[t.keys[s]] = t.values[s] /\ t.keys[s] \in Key /\ t.values[s] \in Val
         /\ DictOf(t) = [k \in DOMAIN DictOf(t) |-> DictOf(t)[k]]
<1>1. DOMAIN DictOf(t) = {t.keys[s] : s \in LiveOf(t)} /\ DictOf(t) = [k \in DOMAIN DictOf(t) |-> DictOf(t)[k]]
  BY DEF DictOf
<1>2. ASSUME NEW s \in LiveOf(t) PROVE DictOf(t)[t.keys[s]] = t.values[s]
  <2> DEFINE r == CHOOSE q \in LiveOf(t) : t.keys[q] = t.keys[s]
  <2>1. r \in LiveOf(t) /\ t.keys[r] = t.keys[s]
    OBVIOUS
  <2>2. DictOf(t)[t.keys[s]] = t.values[r]
    BY DEF DictOf
  <2>3. r = s
    BY <2>1 DEF Good, Entered
  <2> QED BY <2>2, <2>3
<1>3. ASSUME NEW s \in LiveOf(t) PROVE t.keys[s] \in Key /\ t.values[s] \in Val
  BY LiveIs DEF Good, Entered
<1> QED BY <1>1, <1>2, <1>3

-----------------------------------------------------------------------------
(* Entering a key.                                                         *)

\* New arrays.
LEMMA EmptyGood ==
  ASSUME NEW n \in Nat
  PROVE  /\ Good(Empty(n)) /\ LiveOf(Empty(n)) = {} /\ Free(Empty(n)) = {}
         /\ Empty(n).bucketSize = n /\ Empty(n).size = 0 /\ Empty(n).freeHead = 0
         /\ Empty(n).currentEntryIndex = 0
<1> DEFINE t == Empty(n)
<1>1. /\ DOMAIN t = Fields /\ t.bucketSize = n /\ t.size = 0 /\ t.freeHead = 0 /\ t.currentEntryIndex = 0
      /\ t.keyIndexes = [b \in 0 .. n - 1 |-> 0] /\ t.nextIndexes = [s \in 1 .. n |-> 0]
      /\ t.keys = [s \in 1 .. n |-> None] /\ t.values = [s \in 1 .. n |-> None]
  BY DEF Empty, Fields
<1> HIDE DEF t
<1>2. Arrays(t)
  BY <1>1 DEF Arrays
<1>3. Heads(t) = [b \in 0 .. n |-> 0]
  BY <1>1 DEF Heads
<1>4. /\ Sound(t.bucketSize, t.nextIndexes, Heads(t))
      /\ \A b \in 0 .. n : On(t.nextIndexes, Heads(t)[b]) = {}
  <2>1. t.nextIndexes \in [1 .. n -> 0 .. n]
    BY <1>1
  <2> QED BY <2>1, <1>1, <1>3, NoChains
<1>5. \A b \in 0 .. n : On(t.nextIndexes, 0) = {}
  BY <1>3, <1>4
<1>6. On(t.nextIndexes, 0) = {}
  <2>1. n \in 0 .. n
    OBVIOUS
  <2> QED BY <2>1, <1>5
<1>7. Free(t) = {}
  BY <1>1, <1>6 DEF Free
<1>8. LiveOf(t) = {}
  <2>1. \A b \in 0 .. n - 1 : OnBucket(t, b) = {}
    BY <1>1, <1>6 DEF OnBucket
  <2> QED BY <2>1, <1>1, <1>2, LiveIs
<1>9. Entered(t) /\ Vacated(t)
  <2>1. \A b \in 0 .. n - 1 : OnBucket(t, b) = {}
    BY <1>1, <1>6 DEF OnBucket
  <2> QED BY <2>1, <1>1, <1>7, <1>8 DEF Entered, Vacated
<1>10. LiveOf(t) \cup Free(t) = 1 .. t.currentEntryIndex /\ t.size = Cardinality(LiveOf(t))
  BY <1>1, <1>7, <1>8, FS_EmptySet
<1>11. Good(t)
  BY <1>2, <1>4, <1>9, <1>10 DEF Good
<1> QED BY <1>1, <1>7, <1>8, <1>11 DEF t

\* Room for one more entry.
Room(t) == t.bucketSize # 0 /\ (t.freeHead # 0 \/ t.currentEntryIndex < t.bucketSize)

\* The slot a new key takes.
NewSlot(t) == IF t.freeHead > 0 THEN t.freeHead ELSE t.currentEntryIndex + 1

\* What NewEntry writes, field by field.
LEMMA NewEntryIs ==
  ASSUME NEW t, Arrays(t), NEW k \in Key, NEW v \in Val, Bucket(t, k) \in 0 .. t.bucketSize - 1,
         NewSlot(t) \in 1 .. t.bucketSize
  PROVE  LET u == NewEntry(t, k, v)  s == NewSlot(t) IN
         /\ DOMAIN u = Fields /\ u.bucketSize = t.bucketSize
         /\ Update(u.keys, t.keys, s, k) /\ Update(u.values, t.values, s, v)
         /\ Update(u.nextIndexes, t.nextIndexes, s, t.keyIndexes[Bucket(t, k)])
         /\ Update(u.keyIndexes, t.keyIndexes, Bucket(t, k), s)
         /\ u.size = t.size + 1
         /\ u.freeHead = IF t.freeHead > 0 THEN t.nextIndexes[s] ELSE 0
         /\ u.currentEntryIndex = IF t.freeHead > 0 THEN t.currentEntryIndex ELSE s
<1> DEFINE b == Bucket(t, k)
           s == NewSlot(t)
<1>1. DOMAIN t = Fields
  BY DEF Arrays
<1>2. NewEntry(t, k, v) =
        [t EXCEPT !.keys[s] = k, !.values[s] = v, !.nextIndexes[s] = t.keyIndexes[b],
                  !.keyIndexes[b] = s, !.size = @ + 1,
                  !.freeHead = IF t.freeHead > 0 THEN t.nextIndexes[s] ELSE 0,
                  !.currentEntryIndex = IF t.freeHead > 0 THEN @ ELSE s]
  BY DEF NewEntry, NewSlot
<1> HIDE DEF b, s
<1>3. /\ DOMAIN NewEntry(t, k, v) = Fields /\ NewEntry(t, k, v).bucketSize = t.bucketSize
      /\ NewEntry(t, k, v).size = t.size + 1
      /\ NewEntry(t, k, v).freeHead = IF t.freeHead > 0 THEN t.nextIndexes[s] ELSE 0
      /\ NewEntry(t, k, v).currentEntryIndex = IF t.freeHead > 0 THEN t.currentEntryIndex ELSE s
  BY <1>1, <1>2 DEF Fields
<1>4. /\ Update(NewEntry(t, k, v).keys, t.keys, s, k) /\ Update(NewEntry(t, k, v).values, t.values, s, v)
      /\ Update(NewEntry(t, k, v).nextIndexes, t.nextIndexes, s, t.keyIndexes[b])
      /\ Update(NewEntry(t, k, v).keyIndexes, t.keyIndexes, b, s)
  BY <1>1, <1>2 DEF Fields, Update
<1> QED BY <1>3, <1>4 DEF b, s

\* u is t with the key k entered: one more slot is live, and holds it with its value.
Entry(t, u, k, v) ==
  \E s : /\ s \notin LiveOf(t) /\ LiveOf(u) = LiveOf(t) \cup {s}
         /\ u.keys[s] = k /\ u.values[s] = v
         /\ \A r \in LiveOf(t) : u.keys[r] = t.keys[r] /\ u.values[r] = t.values[r]

\* The slot a new key takes is not live: the head of the free list, or the one after the last.
LEMMA NewSlotIs ==
  ASSUME NEW t, Good(t), Room(t)
  PROVE  /\ NewSlot(t) \in 1 .. t.bucketSize /\ NewSlot(t) \notin LiveOf(t)
         /\ t.freeHead # 0 => NewSlot(t) = t.freeHead /\ NewSlot(t) \in Free(t) /\ NewSlot(t) \in 1 .. t.currentEntryIndex
         /\ t.freeHead = 0 => NewSlot(t) = t.currentEntryIndex + 1 /\ Free(t) = {}
<1> DEFINE n == t.bucketSize
           H == Heads(t)
<1>1. n \in Nat /\ t.freeHead \in 0 .. n /\ t.currentEntryIndex \in 0 .. n /\ Arrays(t) /\ Sound(n, t.nextIndexes, H)
  BY DEF Good, Arrays
<1>2. n \in DOMAIN H /\ H[n] = t.freeHead
  BY <1>1 DEF Heads
<1>3. /\ t.freeHead = 0 <=> Free(t) = {}
      /\ t.freeHead # 0 => t.freeHead \in Free(t)
  <2> HIDE DEF n, H
  <2> QED BY <1>1, <1>2, SoundHead DEF Free
<1>4. LiveOf(t) \cap Free(t) = {} /\ Free(t) \subseteq 1 .. n
  BY <1>1, Partition
<1>5. LiveOf(t) \cup Free(t) = 1 .. t.currentEntryIndex
  BY DEF Good
<1> HIDE DEF n, H
<1>6. CASE t.freeHead # 0
  <2>1. NewSlot(t) = t.freeHead
    BY <1>1, <1>6 DEF NewSlot
  <2> QED BY <2>1, <1>3, <1>4, <1>5, <1>6 DEF n
<1>7. CASE t.freeHead = 0
  <2>1. NewSlot(t) = t.currentEntryIndex + 1 /\ t.currentEntryIndex < n
    BY <1>7 DEF NewSlot, Room, n
  <2>2. NewSlot(t) \in 1 .. n /\ NewSlot(t) \notin 1 .. t.currentEntryIndex
    BY <2>1, <1>1
  <2> QED BY <2>1, <2>2, <1>3, <1>5, <1>7 DEF n
<1> QED BY <1>6, <1>7

\* Taking the slot off the free list leaves the buckets alone.
LEMMA Popped ==
  ASSUME NEW t, Good(t), Room(t)
  PROVE  \E H : /\ Sound(t.bucketSize, t.nextIndexes, H) /\ DOMAIN H = 0 .. t.bucketSize
                /\ \A b \in 0 .. t.bucketSize - 1 : H[b] = t.keyIndexes[b]
                /\ H[t.bucketSize] = IF t.freeHead > 0 THEN t.nextIndexes[NewSlot(t)] ELSE 0
                /\ On(t.nextIndexes, H[t.bucketSize]) = Free(t) \ {NewSlot(t)}
<1> DEFINE n == t.bucketSize
           H == Heads(t)
           next == t.nextIndexes
<1>1. n \in Nat /\ t.freeHead \in 0 .. n /\ Sound(n, next, H) /\ next \in [1 .. n -> 0 .. n]
      /\ t.keyIndexes \in [0 .. n - 1 -> 0 .. n]
  BY DEF Good, Arrays
<1>2. DOMAIN H = 0 .. n /\ H[n] = t.freeHead /\ \A b \in 0 .. n - 1 : H[b] = t.keyIndexes[b]
  <2>1. DOMAIN H = 0 .. n /\ \A b \in 0 .. n : H[b] = IF b = n THEN t.freeHead ELSE t.keyIndexes[b]
    BY DEF Heads
  <2>2. n \in 0 .. n /\ \A b \in 0 .. n - 1 : b # n /\ b \in 0 .. n
    BY <1>1
  <2> HIDE DEF H, n
  <2> QED BY <2>1, <2>2
<1>3. n \in DOMAIN H
  BY <1>1, <1>2
<1>4. Free(t) = On(next, H[n])
  BY <1>2 DEF Free
<1>5. CASE t.freeHead = 0
  <2>1. Free(t) = {}
    BY <1>5, NewSlotIs
  <2>2. H[n] = IF t.freeHead > 0 THEN next[NewSlot(t)] ELSE 0
    BY <1>2, <1>5
  <2>3. On(next, H[n]) = Free(t) \ {NewSlot(t)}
    BY <2>1, <1>4
  <2> QED BY <1>1, <1>2, <2>2, <2>3
<1>6. CASE t.freeHead # 0
  <2> DEFINE G == [H EXCEPT ![n] = next[t.freeHead]]
  <2>1. NewSlot(t) = t.freeHead /\ t.freeHead > 0
    BY <1>1, <1>6, NewSlotIs
  <2>2. Update(G, H, n, next[H[n]]) /\ H[n] # 0
    BY <1>2, <1>6 DEF Update
  <2> HIDE DEF H, n, next
  <2>3. DOMAIN G = 0 .. n /\ G[n] = next[t.freeHead] /\ \A b \in 0 .. n : b # n => G[b] = H[b]
    BY <1>2, <1>3
  <2> HIDE DEF G
  <2>4. Sound(n, next, G) /\ On(next, G[n]) = On(next, H[n]) \ {H[n]}
    BY <1>1, <1>3, <2>2, DropFirst
  <2>5. \A b \in 0 .. n - 1 : G[b] = t.keyIndexes[b]
    <3>1. \A b \in 0 .. n - 1 : b \in 0 .. n /\ b # n
      BY <1>1
    <3> QED BY <3>1, <2>3, <1>2
  <2>6. G[n] = IF t.freeHead > 0 THEN next[NewSlot(t)] ELSE 0
    BY <2>1, <2>3
  <2>7. On(next, G[n]) = Free(t) \ {NewSlot(t)}
    BY <2>1, <2>4, <1>2, <1>4
  <2> QED BY <2>3, <2>4, <2>5, <2>6, <2>7 DEF n, next
<1> QED BY <1>5, <1>6

\* A new key takes its slot from the free list and no other, and heads its bucket.
LEMMA NewEntryGood ==
  ASSUME NEW t, Good(t), NEW k \in Key, NEW v \in Val, Slots(t, k) = {}, Room(t)
  PROVE  LET u == NewEntry(t, k, v) IN
         /\ Good(u) /\ Entry(t, u, k, v) /\ u.bucketSize = t.bucketSize /\ u.size = t.size + 1
         /\ t.freeHead = 0 => u.freeHead = 0 /\ u.currentEntryIndex = t.currentEntryIndex + 1
         /\ t.freeHead # 0 => u.currentEntryIndex = t.currentEntryIndex
<1> DEFINE u == NewEntry(t, k, v)
           n == t.bucketSize
           s == NewSlot(t)
           b == Bucket(t, k)
           next == t.nextIndexes
<1>1. n \in Nat /\ n # 0 /\ Arrays(t) /\ b \in 0 .. n - 1
  BY SlotFound DEF Good, Arrays, Room
<1>2. /\ s \in 1 .. n /\ s \notin LiveOf(t)
      /\ t.freeHead # 0 => s = t.freeHead /\ s \in Free(t) /\ s \in 1 .. t.currentEntryIndex
      /\ t.freeHead = 0 => s = t.currentEntryIndex + 1 /\ Free(t) = {}
  BY NewSlotIs
<1>3. /\ DOMAIN u = Fields /\ u.bucketSize = n
      /\ Update(u.keys, t.keys, s, k) /\ Update(u.values, t.values, s, v)
      /\ Update(u.nextIndexes, next, s, t.keyIndexes[b])
      /\ Update(u.keyIndexes, t.keyIndexes, b, s)
      /\ u.size = t.size + 1
      /\ u.freeHead = IF t.freeHead > 0 THEN next[s] ELSE 0
      /\ u.currentEntryIndex = IF t.freeHead > 0 THEN t.currentEntryIndex ELSE s
  BY <1>1, <1>2, NewEntryIs
<1>4. PICK H : /\ Sound(n, next, H) /\ DOMAIN H = 0 .. n /\ \A a \in 0 .. n - 1 : H[a] = t.keyIndexes[a]
               /\ H[n] = IF t.freeHead > 0 THEN next[s] ELSE 0
               /\ On(next, H[n]) = Free(t) \ {s}
  BY Popped
<1>5. /\ t.keyIndexes \in [0 .. n - 1 -> 0 .. n] /\ next \in [1 .. n -> 0 .. n]
      /\ t.keys \in [1 .. n -> Key \cup {None}] /\ t.values \in [1 .. n -> Val \cup {None}]
      /\ t.currentEntryIndex \in 0 .. n /\ t.freeHead \in 0 .. n /\ t.size \in Nat
  BY <1>1 DEF Arrays
<1>6. LiveOf(t) \cup Free(t) = 1 .. t.currentEntryIndex /\ t.size = Cardinality(LiveOf(t)) /\ Entered(t) /\ Vacated(t)
  BY DEF Good
<1>7. LiveOf(t) \cap Free(t) = {} /\ LiveOf(t) \subseteq 1 .. n /\ IsFiniteSet(LiveOf(t))
  BY <1>1, Partition DEF Good
<1> HIDE DEF u, n, s, b, next
<1>8. \A a \in 0 .. n - 1 : a \in DOMAIN H /\ a # n /\ On(next, H[a]) = OnBucket(t, a)
  BY <1>1, <1>4 DEF OnBucket, next
<1>9. \A x : x \in LiveOf(t) <=> \E a \in 0 .. n - 1 : x \in OnBucket(t, a)
  BY <1>1, LiveIs DEF n
<1>10. \A a \in DOMAIN H : s \notin On(next, H[a])
  <2> SUFFICES ASSUME NEW a \in DOMAIN H PROVE s \notin On(next, H[a])
    OBVIOUS
  <2>1. CASE a = n
    BY <2>1, <1>4
  <2>2. CASE a # n
    <3>1. a \in 0 .. n - 1
      BY <2>2, <1>1, <1>4
    <3> QED BY <3>1, <1>2, <1>8, <1>9
  <2> QED BY <2>1, <2>2
<1>11. Heads(u)[n] = H[n] /\ Update(Heads(u), H, b, s) /\ DOMAIN Heads(u) = 0 .. n
       /\ \A a \in 0 .. n - 1 : Heads(u)[a] = u.keyIndexes[a]
  <2>1. Heads(u) = [a \in 0 .. n |-> IF a = n THEN u.freeHead ELSE u.keyIndexes[a]]
    BY <1>3 DEF Heads
  <2>2. n \in 0 .. n /\ b # n /\ \A a \in 0 .. n : a # n => a \in 0 .. n - 1
    BY <1>1
  <2>3. \A a \in 0 .. n - 1 : u.keyIndexes[a] = IF a = b THEN s ELSE t.keyIndexes[a]
    BY <1>3, <1>5 DEF Update
  <2>4. ASSUME NEW a \in 0 .. n PROVE Heads(u)[a] = IF a = b THEN s ELSE H[a]
    <3>1. CASE a = n
      BY <3>1, <2>1, <2>2, <1>3, <1>4
    <3>2. CASE a # n
      BY <3>2, <2>1, <2>2, <2>3, <1>4
    <3> QED BY <3>1, <3>2
  <2>5. [H EXCEPT ![b] = s] = [a \in 0 .. n |-> IF a = b THEN s ELSE H[a]]
    BY <1>4
  <2>6. Heads(u) = [H EXCEPT ![b] = s]
    BY <2>1, <2>4, <2>5
  <2>7. \A a \in 0 .. n - 1 : a \in 0 .. n /\ a # n
    BY <1>1
  <2> QED BY <2>1, <2>2, <2>4, <2>6, <2>7 DEF Update
<1>12. H[b] = t.keyIndexes[b] /\ b \in DOMAIN H
  BY <1>1, <1>4, <1>8
<1>13. /\ Sound(n, u.nextIndexes, Heads(u))
       /\ On(u.nextIndexes, Heads(u)[b]) = On(next, H[b]) \cup {s}
       /\ \A a \in DOMAIN H : a # b => On(u.nextIndexes, Heads(u)[a]) = On(next, H[a])
  <2> DEFINE next2 == u.nextIndexes
             G == Heads(u)
  <2>1. Update(next2, next, s, H[b])
    BY <1>3, <1>12
  <2>2. Update(G, H, b, s)
    BY <1>11
  <2>3. Sound(n, next, H)
    BY <1>4
  <2> HIDE DEF next2, G
  <2>4. /\ Sound(n, next2, G) /\ On(next2, G[b]) = On(next, H[b]) \cup {s}
        /\ \A a \in DOMAIN H : a # b => On(next2, G[a]) = On(next, H[a])
    BY <1>2, <1>10, <1>12, <2>1, <2>2, <2>3, Push
  <2> QED BY <2>4 DEF next2, G
<1>14. /\ u.keyIndexes \in [0 .. n - 1 -> 0 .. n] /\ u.nextIndexes \in [1 .. n -> 0 .. n]
       /\ u.keys \in [1 .. n -> Key \cup {None}] /\ u.keys[s] = k
       /\ u.values \in [1 .. n -> Val \cup {None}] /\ u.values[s] = v
       /\ \A x \in 1 .. n : x # s => u.keys[x] = t.keys[x] /\ u.values[x] = t.values[x]
  <2>1. u.keyIndexes \in [0 .. n - 1 -> 0 .. n] /\ u.keyIndexes[b] = s /\ \A y \in 0 .. n - 1 : y # b => u.keyIndexes[y] = t.keyIndexes[y]
    <3>1. Update(u.keyIndexes, t.keyIndexes, b, s)
      BY <1>3
    <3>2. t.keyIndexes \in [0 .. n - 1 -> 0 .. n]
      BY <1>5
    <3>3. b \in 0 .. n - 1 /\ s \in 0 .. n
      BY <1>1, <1>2
    <3> QED BY <3>1, <3>2, <3>3 DEF Update
  <2>2. u.nextIndexes \in [1 .. n -> 0 .. n] /\ u.nextIndexes[s] = t.keyIndexes[b] /\ \A y \in 1 .. n : y # s => u.nextIndexes[y] = next[y]
    <3>1. Update(u.nextIndexes, next, s, t.keyIndexes[b])
      BY <1>3
    <3>2. next \in [1 .. n -> 0 .. n]
      BY <1>5
    <3>3. s \in 1 .. n /\ t.keyIndexes[b] \in 0 .. n
      BY <1>1, <1>2, <1>5
    <3> QED BY <3>1, <3>2, <3>3 DEF Update
  <2>3. u.keys \in [1 .. n -> Key \cup {None}] /\ u.keys[s] = k /\ \A y \in 1 .. n : y # s => u.keys[y] = t.keys[y]
    <3>1. Update(u.keys, t.keys, s, k)
      BY <1>3
    <3>2. t.keys \in [1 .. n -> Key \cup {None}]
      BY <1>5
    <3>3. s \in 1 .. n /\ k \in Key \cup {None}
      BY <1>2
    <3> QED BY <3>1, <3>2, <3>3 DEF Update
  <2>4. u.values \in [1 .. n -> Val \cup {None}] /\ u.values[s] = v /\ \A y \in 1 .. n : y # s => u.values[y] = t.values[y]
    <3>1. Update(u.values, t.values, s, v)
      BY <1>3
    <3>2. t.values \in [1 .. n -> Val \cup {None}]
      BY <1>5
    <3>3. s \in 1 .. n /\ v \in Val \cup {None}
      BY <1>2
    <3> QED BY <3>1, <3>2, <3>3 DEF Update
  <2> QED BY <2>1, <2>2, <2>3, <2>4
<1>15. u.currentEntryIndex \in 0 .. n /\ u.freeHead \in 0 .. n /\ u.size \in Nat
  BY <1>2, <1>3, <1>5
<1>16. Arrays(u)
  BY <1>1, <1>3, <1>14, <1>15 DEF Arrays
<1>17. OnBucket(u, b) = OnBucket(t, b) \cup {s} /\ \A a \in 0 .. n - 1 : a # b => OnBucket(u, a) = OnBucket(t, a)
  <2>1. \A a \in 0 .. n - 1 : OnBucket(u, a) = On(u.nextIndexes, Heads(u)[a])
    BY <1>11 DEF OnBucket
  <2> QED BY <2>1, <1>1, <1>8, <1>13
<1>18. Free(u) = Free(t) \ {s}
  <2>1. Heads(u)[n] = u.freeHead
    BY <1>3, <1>4, <1>11
  <2>2. n \in DOMAIN H /\ n # b
    BY <1>1, <1>4
  <2>3. On(u.nextIndexes, Heads(u)[n]) = On(next, H[n])
    BY <2>2, <1>13
  <2> QED BY <2>1, <2>3, <1>4 DEF Free
<1>19. LiveOf(u) = LiveOf(t) \cup {s}
  <2>1. \A x : x \in LiveOf(u) <=> \E a \in 0 .. n - 1 : x \in OnBucket(u, a)
    BY <1>3, <1>16, LiveIs
  <2>2. \A x : x \in LiveOf(u) <=> x \in LiveOf(t) \/ x = s
    BY <2>1, <1>1, <1>9, <1>17
  <2> QED BY <2>2
<1>20. LiveOf(u) \cup Free(u) = 1 .. u.currentEntryIndex
  <2>1. CASE t.freeHead # 0
    <3>1. s \in Free(t) /\ u.currentEntryIndex = t.currentEntryIndex
      BY <2>1, <1>2, <1>3, <1>5
    <3> QED BY <3>1, <1>6, <1>18, <1>19
  <2>2. CASE t.freeHead = 0
    <3>1. Free(t) = {} /\ u.currentEntryIndex = s /\ s = t.currentEntryIndex + 1
      BY <2>2, <1>2, <1>3
    <3>2. 1 .. s = (1 .. t.currentEntryIndex) \cup {s}
      BY <3>1, <1>5
    <3> QED BY <3>1, <3>2, <1>6, <1>18, <1>19
  <2> QED BY <2>1, <2>2
<1>21. u.size = Cardinality(LiveOf(u))
  <2>1. Cardinality(LiveOf(t) \cup {s}) = Cardinality(LiveOf(t)) + 1
    BY <1>2, <1>7, FS_AddElement
  <2> QED BY <2>1, <1>3, <1>6, <1>19
<1>22. \A x \in LiveOf(t) : x # s /\ u.keys[x] = t.keys[x] /\ u.values[x] = t.values[x]
  BY <1>2, <1>7, <1>14
<1>23. Entry(t, u, k, v)
  BY <1>2, <1>14, <1>19, <1>22 DEF Entry
<1>24. Entered(u)
  <2>1. ASSUME NEW a \in 0 .. n - 1, NEW x \in OnBucket(u, a)
        PROVE  u.keys[x] \in Key /\ u.values[x] \in Val /\ Bucket(u, u.keys[x]) = a
    <3>0. \A y : Bucket(u, y) = Bucket(t, y)
      BY <1>3 DEF Bucket, n
    <3>1. CASE x = s
      <4>1. x \notin OnBucket(t, a)
        BY <3>1, <1>2, <1>9
      <4>2. a = b
        BY <4>1, <1>17, <2>1
      <4> QED BY <3>0, <3>1, <4>2, <1>14 DEF b
    <3>2. CASE x # s
      <4>1. x \in OnBucket(t, a)
        BY <3>2, <1>17, <2>1
      <4>2. t.keys[x] \in Key /\ t.values[x] \in Val /\ Bucket(t, t.keys[x]) = a
        BY <4>1, <1>6 DEF Entered, n
      <4>3. u.keys[x] = t.keys[x] /\ u.values[x] = t.values[x]
        BY <4>1, <1>9, <1>22
      <4> QED BY <3>0, <4>2, <4>3
    <3> QED BY <3>1, <3>2
  <2>2. ASSUME NEW x \in LiveOf(u), NEW y \in LiveOf(u), u.keys[x] = u.keys[y] PROVE x = y
    <3>1. \A z \in LiveOf(t) : t.keys[z] # k
      <4>1. Slots(t, k) = {z \in LiveOf(t) : t.keys[z] = k}
        BY SlotFound
      <4> QED BY <4>1
    <3>2. \A p, q \in LiveOf(t) : t.keys[p] = t.keys[q] => p = q
      BY <1>6 DEF Entered
    <3> QED BY <3>1, <3>2, <2>2, <1>14, <1>19, <1>22
  <2> QED BY <2>1, <2>2, <1>3 DEF Entered
<1>25. Vacated(u)
  <2>1. \A x \in Free(u) : x \in Free(t) /\ x # s /\ x \in 1 .. n
    <3>1. Free(t) \subseteq 1 .. n
      BY <1>1, Partition DEF Good, n
    <3> QED BY <3>1, <1>18
  <2> QED BY <2>1, <1>6, <1>14 DEF Vacated
<1>26. Good(u)
  BY <1>3, <1>13, <1>16, <1>20, <1>21, <1>24, <1>25 DEF Good
<1>27. /\ t.freeHead = 0 => u.freeHead = 0 /\ u.currentEntryIndex = t.currentEntryIndex + 1
       /\ t.freeHead # 0 => u.currentEntryIndex = t.currentEntryIndex
  BY <1>2, <1>3, <1>5
<1> QED BY <1>3, <1>23, <1>26, <1>27 DEF u, n

-----------------------------------------------------------------------------
(* What a set does to the dictionary.                                      *)

\* A dictionary with a key set.
Put(d, k, v) == [x \in DOMAIN d \cup {k} |-> IF x = k THEN v ELSE d[x]]

\* Two functions with the same domain and the same values.
LEMMA SameFunction ==
  ASSUME NEW f, NEW g, f = [x \in DOMAIN f |-> f[x]], g = [x \in DOMAIN g |-> g[x]],
         DOMAIN f = DOMAIN g, \A x \in DOMAIN f : f[x] = g[x]
  PROVE  f = g
OBVIOUS

\* A key is in the dictionary if findEntry finds a slot, and the slot holds its value.
LEMMA Known ==
  ASSUME NEW t, Good(t), NEW k \in Key
  PROVE  /\ Slots(t, k) # {} <=> k \in DOMAIN DictOf(t)
         /\ k \in DOMAIN DictOf(t) => DictOf(t)[k] = t.values[SlotOf(t, k)]
<1>1. Slots(t, k) = {s \in LiveOf(t) : t.keys[s] = k}
  BY SlotFound
<1>2. \A s \in Slots(t, k) : s = SlotOf(t, k) /\ s \in LiveOf(t) /\ t.keys[s] = k
  BY SlotFound
<1>3. DOMAIN DictOf(t) = {t.keys[s] : s \in LiveOf(t)} /\ \A s \in LiveOf(t) : DictOf(t)[t.keys[s]] = t.values[s]
  BY DictIs
<1>4. Slots(t, k) # {} <=> k \in DOMAIN DictOf(t)
  BY <1>1, <1>3
<1>5. ASSUME Slots(t, k) # {} PROVE DictOf(t)[k] = t.values[SlotOf(t, k)]
  BY <1>2, <1>3, <1>5
<1> QED BY <1>4, <1>5

\* To the dictionary a new entry adds a key.
LEMMA EntryPuts ==
  ASSUME NEW t, Good(t), NEW u, Good(u), NEW k \in Key, NEW v, Entry(t, u, k, v), k \notin DOMAIN DictOf(t)
  PROVE  DictOf(u) = Put(DictOf(t), k, v)
<1> DEFINE d == DictOf(t)
           e == DictOf(u)
<1>1. PICK s : /\ s \notin LiveOf(t) /\ LiveOf(u) = LiveOf(t) \cup {s}
               /\ u.keys[s] = k /\ u.values[s] = v
               /\ \A r \in LiveOf(t) : u.keys[r] = t.keys[r] /\ u.values[r] = t.values[r]
  BY DEF Entry
<1>2. /\ DOMAIN d = {t.keys[r] : r \in LiveOf(t)}
      /\ \A r \in LiveOf(t) : d[t.keys[r]] = t.values[r]
  BY DictIs
<1>3. /\ DOMAIN e = {u.keys[r] : r \in LiveOf(u)} /\ e = [x \in DOMAIN e |-> e[x]]
      /\ \A r \in LiveOf(u) : e[u.keys[r]] = u.values[r]
  BY DictIs
<1> HIDE DEF d, e
<1>4. DOMAIN e = DOMAIN d \cup {k}
  BY <1>1, <1>2, <1>3
<1>5. e[k] = v
  BY <1>1, <1>3
<1>6. \A x \in DOMAIN d : e[x] = d[x]
  BY <1>1, <1>2, <1>3
<1>7. e = [x \in DOMAIN d \cup {k} |-> IF x = k THEN v ELSE d[x]]
  <2>1. \A x \in DOMAIN e : e[x] = IF x = k THEN v ELSE d[x]
    BY <1>4, <1>5, <1>6
  <2> QED BY <2>1, <1>3, <1>4
<1> QED BY <1>7 DEF Put, d, e

\* Setting a key that has a slot changes its value there and nothing else.
LEMMA ValueGood ==
  ASSUME NEW t, Good(t), NEW k \in Key, NEW v \in Val, Slots(t, k) # {}
  PROVE  LET u == [t EXCEPT !.values[SlotOf(t, k)] = v] IN
         Good(u) /\ DictOf(u) = Put(DictOf(t), k, v) /\ u.bucketSize = t.bucketSize
<1> DEFINE s == SlotOf(t, k)
           u == [t EXCEPT !.values[s] = v]
           n == t.bucketSize
           d == DictOf(t)
           e == DictOf(u)
<1>1. s \in LiveOf(t) /\ s \in 1 .. n /\ t.keys[s] = k
  BY SlotFound
<1>2. Arrays(t) /\ DOMAIN t = Fields
  BY DEF Good, Arrays
<1>3. /\ DOMAIN u = Fields /\ u.bucketSize = n /\ u.keyIndexes = t.keyIndexes /\ u.nextIndexes = t.nextIndexes
      /\ u.keys = t.keys /\ u.currentEntryIndex = t.currentEntryIndex /\ u.freeHead = t.freeHead /\ u.size = t.size
      /\ u.values = [t.values EXCEPT ![s] = v]
  BY <1>2 DEF Fields
<1>4. t.values \in [1 .. n -> Val \cup {None}]
  BY <1>2 DEF Arrays
<1> HIDE DEF u, s, n
<1>5. u.values \in [1 .. n -> Val \cup {None}] /\ u.values[s] = v /\ \A x \in 1 .. n : x # s => u.values[x] = t.values[x]
  BY <1>1, <1>3, <1>4
<1>6. Arrays(u)
  BY <1>2, <1>3, <1>5 DEF Arrays, n
<1>7. LiveOf(u) = LiveOf(t) /\ Free(u) = Free(t) /\ Heads(u) = Heads(t) /\ \A b : OnBucket(u, b) = OnBucket(t, b)
  BY <1>3 DEF LiveOf, Free, Heads, OnBucket, n
<1>8. Sound(n, t.nextIndexes, Heads(t)) /\ LiveOf(t) \cup Free(t) = 1 .. t.currentEntryIndex
      /\ t.size = Cardinality(LiveOf(t)) /\ Entered(t) /\ Vacated(t)
  BY DEF Good, n
<1>9. LiveOf(t) \cap Free(t) = {} /\ LiveOf(t) \subseteq 1 .. n /\ Free(t) \subseteq 1 .. n
  BY <1>2, Partition DEF Good, n
<1>10. \A b \in 0 .. n - 1 : OnBucket(t, b) \subseteq LiveOf(t)
  BY <1>2, LiveIs DEF n
<1>11. Entered(u)
  <2>1. ASSUME NEW a \in 0 .. n - 1, NEW x \in OnBucket(u, a)
        PROVE  u.keys[x] \in Key /\ u.values[x] \in Val /\ Bucket(u, u.keys[x]) = a
    <3>1. x \in OnBucket(t, a) /\ x \in 1 .. n
      BY <1>7, <1>9, <1>10
    <3>2. t.keys[x] \in Key /\ t.values[x] \in Val /\ Bucket(t, t.keys[x]) = a
      BY <3>1, <1>8 DEF Entered, n
    <3> QED BY <3>1, <3>2, <1>3, <1>5 DEF Bucket, n
  <2>2. \A r, x \in LiveOf(u) : u.keys[r] = u.keys[x] => r = x
    BY <1>3, <1>7, <1>8 DEF Entered
  <2> QED BY <2>1, <2>2, <1>3 DEF Entered
<1>12. Vacated(u)
  BY <1>1, <1>3, <1>5, <1>7, <1>8, <1>9 DEF Vacated
<1>13. Good(u)
  BY <1>3, <1>6, <1>7, <1>8, <1>11, <1>12 DEF Good
<1>14. /\ DOMAIN d = {t.keys[r] : r \in LiveOf(t)}
       /\ \A r \in LiveOf(t) : d[t.keys[r]] = t.values[r]
  BY DictIs
<1>15. /\ DOMAIN e = {u.keys[r] : r \in LiveOf(u)} /\ e = [x \in DOMAIN e |-> e[x]]
       /\ \A r \in LiveOf(u) : e[u.keys[r]] = u.values[r]
  BY <1>13, DictIs
<1> HIDE DEF d, e
<1>16. DOMAIN e = DOMAIN d \cup {k}
  BY <1>1, <1>3, <1>7, <1>14, <1>15
<1>17. ASSUME NEW x \in DOMAIN e PROVE e[x] = IF x = k THEN v ELSE d[x]
  <2>1. PICK r \in LiveOf(t) : x = t.keys[r]
    BY <1>3, <1>7, <1>15
  <2>2. e[x] = u.values[r] /\ d[x] = t.values[r]
    BY <2>1, <1>3, <1>7, <1>14, <1>15
  <2>3. CASE r = s
    BY <2>1, <2>2, <2>3, <1>1, <1>5
  <2>4. CASE r # s
    <3>1. x # k
      BY <2>1, <2>4, <1>1, <1>8 DEF Entered
    <3> QED BY <2>2, <2>4, <3>1, <1>5, <1>9
  <2> QED BY <2>3, <2>4
<1>18. e = [x \in DOMAIN d \cup {k} |-> IF x = k THEN v ELSE d[x]]
  BY <1>15, <1>16, <1>17
<1> QED BY <1>3, <1>13, <1>18 DEF Put, d, e, u, s, n

\* When no slot is vacated, every slot handed out is live.
LEMMA AllLive ==
  ASSUME NEW t, Good(t)
  PROVE  /\ t.freeHead = 0 => t.size = t.currentEntryIndex
         /\ t.size <= t.currentEntryIndex
<1>1. t.currentEntryIndex \in Nat /\ t.freeHead \in 0 .. t.bucketSize /\ t.bucketSize \in Nat /\ Arrays(t)
  BY DEF Good, Arrays
<1>2. LiveOf(t) \cup Free(t) = 1 .. t.currentEntryIndex /\ t.size = Cardinality(LiveOf(t))
  BY DEF Good
<1>3. IsFiniteSet(1 .. t.currentEntryIndex) /\ Cardinality(1 .. t.currentEntryIndex) = t.currentEntryIndex
  BY <1>1, UpToCard
<1>4. ASSUME t.freeHead = 0 PROVE Free(t) = {}
  <2>1. t.bucketSize \in DOMAIN Heads(t) /\ Heads(t)[t.bucketSize] = t.freeHead
    BY <1>1 DEF Heads
  <2>2. Sound(t.bucketSize, t.nextIndexes, Heads(t))
    BY DEF Good
  <2> QED BY <1>4, <2>1, <2>2, SoundHead DEF Free
<1>5. Cardinality(LiveOf(t)) <= Cardinality(1 .. t.currentEntryIndex)
  <2>1. LiveOf(t) \subseteq 1 .. t.currentEntryIndex
    BY <1>2
  <2> QED BY <2>1, <1>3, FS_Subset
<1>6. t.freeHead = 0 => LiveOf(t) = 1 .. t.currentEntryIndex
  BY <1>2, <1>4
<1> QED BY <1>2, <1>3, <1>5, <1>6

\* An old key or a new one: setting puts the value under the key.
LEMMA SetGood ==
  ASSUME NEW t, Good(t), NEW k \in Key, NEW v \in Val, Slots(t, k) = {} => Room(t)
  PROVE  LET u == privateSetKeyValue(t, k, v) IN
         /\ Good(u) /\ DictOf(u) = Put(DictOf(t), k, v) /\ u.bucketSize = t.bucketSize
         /\ u.currentEntryIndex > t.currentEntryIndex => u.size = u.currentEntryIndex
<1> DEFINE u == privateSetKeyValue(t, k, v)
<1>1. CASE Slots(t, k) # {}
  <2>1. u = [t EXCEPT !.values[SlotOf(t, k)] = v]
    BY <1>1 DEF privateSetKeyValue
  <2>2. Good(u) /\ DictOf(u) = Put(DictOf(t), k, v) /\ u.bucketSize = t.bucketSize
    BY <1>1, <2>1, ValueGood
  <2>3. u.currentEntryIndex = t.currentEntryIndex /\ t.currentEntryIndex \in Nat
    BY <2>1 DEF Good, Arrays, Fields
  <2> HIDE DEF u
  <2>4. ~(u.currentEntryIndex > t.currentEntryIndex)
    BY <2>3
  <2> QED BY <2>2, <2>4 DEF u
<1>2. CASE Slots(t, k) = {}
  <2>1. u = NewEntry(t, k, v)
    BY <1>2 DEF privateSetKeyValue
  <2> HIDE DEF u
  <2>2. /\ Good(u) /\ Entry(t, u, k, v) /\ u.bucketSize = t.bucketSize /\ u.size = t.size + 1
        /\ t.freeHead = 0 => u.freeHead = 0 /\ u.currentEntryIndex = t.currentEntryIndex + 1
        /\ t.freeHead # 0 => u.currentEntryIndex = t.currentEntryIndex
    BY <1>2, <2>1, NewEntryGood
  <2>3. k \notin DOMAIN DictOf(t)
    BY <1>2, Known
  <2>4. DictOf(u) = Put(DictOf(t), k, v)
    BY <2>2, <2>3, EntryPuts
  <2>5. ASSUME u.currentEntryIndex > t.currentEntryIndex PROVE u.size = u.currentEntryIndex
    <3>1. t.currentEntryIndex \in Nat
      BY DEF Good, Arrays
    <3>2. t.freeHead = 0
      BY <2>2, <2>5, <3>1
    <3>3. t.size = t.currentEntryIndex
      BY <3>2, AllLive
    <3> QED BY <2>2, <3>2, <3>3
  <2> QED BY <2>2, <2>4, <2>5 DEF u
<1> QED BY <1>1, <1>2

-----------------------------------------------------------------------------
(* Growing.                                                                *)

\* The list of the live slots holds each of them once.
LEMMA LiveList ==
  ASSUME NEW t, Good(t)
  PROVE  /\ Live(t) \in Seq(1 .. t.bucketSize) /\ ToSet(Live(t)) = LiveOf(t) /\ LiveOf(t) = Elements(Live(t))
         /\ \A i, j \in 1 .. Len(Live(t)) : Live(t)[i] = Live(t)[j] => i = j
         /\ Len(Live(t)) = t.size /\ Len(Live(t)) \in Nat
<1> DEFINE n == t.bucketSize
<1>1. n \in Nat /\ DOMAIN t.keyIndexes = 0 .. n - 1 /\ Arrays(t) /\ t.size = Cardinality(LiveOf(t))
  BY DEF Good, Arrays
<1>2. Sound(n, t.nextIndexes, t.keyIndexes)
  BY <1>1, Partition DEF Good
<1>3. Live(t) = InLine(t.nextIndexes, t.keyIndexes, n)
  BY DEF Live, InLine, Entries
<1> HIDE DEF n
<1>4. /\ Live(t) \in Seq(1 .. n) /\ IsInjective(Live(t)) /\ ToSet(Live(t)) = LiveOf(t)
      /\ LiveOf(t) = Elements(Live(t)) /\ Len(Live(t)) \in Nat /\ Cardinality(LiveOf(t)) = Len(Live(t))
  BY <1>1, <1>2, <1>3, ChainsInLine DEF LiveOf
<1>5. DOMAIN Live(t) = 1 .. Len(Live(t))
  BY <1>4, LenProperties
<1> QED BY <1>1, <1>4, <1>5 DEF n, IsInjective

\* The table after i of the listed slots, given what it is after one less.
EnterStep(f, t, list, i) ==
  IF i = 0 THEN Empty(t.bucketSize * Growth)
  ELSE privateSetKeyValue(f[i - 1], t.keys[list[i]], t.values[list[i]])

\* The recursion of Grown defines a function.
LEMMA EnterExists ==
  ASSUME NEW t, NEW list, NEW m \in Nat
  PROVE  \E g : g = [i \in 0 .. m |-> EnterStep(g, t, list, i)]
<1> DEFINE T == {k \in Nat : \E g : g = [i \in 0 .. k |-> EnterStep(g, t, list, i)]}
<1>1. 0 \in T
  <2> DEFINE g == [i \in 0 .. 0 |-> Empty(t.bucketSize * Growth)]
  <2>1. g = [i \in 0 .. 0 |-> EnterStep(g, t, list, i)]
    BY DEF EnterStep
  <2> QED BY <2>1
<1>2. ASSUME NEW k \in Nat, k \in T PROVE k + 1 \in T
  <2>1. PICK g : g = [i \in 0 .. k |-> EnterStep(g, t, list, i)]
    BY <1>2
  <2> DEFINE h == [i \in 0 .. k + 1 |-> EnterStep(g, t, list, i)]
  <2>2. ASSUME NEW i \in 0 .. k + 1 PROVE EnterStep(g, t, list, i) = EnterStep(h, t, list, i)
    <3>1. CASE i = 0
      BY <3>1 DEF EnterStep
    <3>2. CASE i # 0
      <4>1. i - 1 \in 0 .. k /\ i - 1 \in 0 .. k + 1
        BY <3>2
      <4>2. g[i - 1] = h[i - 1]
        BY <4>1, <2>1
      <4> QED BY <3>2, <4>2 DEF EnterStep
    <3> QED BY <3>1, <3>2
  <2>3. h = [i \in 0 .. k + 1 |-> EnterStep(h, t, list, i)]
    BY <2>2
  <2> HIDE DEF h
  <2> QED BY <2>3
<1> HIDE DEF T
<1>3. Nat \subseteq T
  BY <1>1, <1>2, UpTo
<1> QED BY <1>3 DEF T

\* So Grown is the last of the tables it goes through.
LEMMA GrownIs ==
  ASSUME NEW t, NEW m, m = Len(Live(t)), m \in Nat
  PROVE  \E g : g = [i \in 0 .. m |-> EnterStep(g, t, Live(t), i)] /\ Grown(t) = g[m]
<1> DEFINE f == CHOOSE g : g = [i \in 0 .. m |-> EnterStep(g, t, Live(t), i)]
<1>1. f = [i \in 0 .. m |-> EnterStep(f, t, Live(t), i)]
  <2>1. \E g : g = [i \in 0 .. m |-> EnterStep(g, t, Live(t), i)]
    BY EnterExists
  <2> QED BY <2>1
<1>2. Grown(t) = f[m]
  BY DEF Grown, EnterStep
<1> HIDE DEF f
<1> QED BY <1>1, <1>2

\* a holds what the first k slots of the list hold in t.
Filled(a, t, list, k) ==
  /\ Good(a) /\ a.bucketSize = t.bucketSize * Growth /\ a.freeHead = 0 /\ a.currentEntryIndex = k
  /\ DOMAIN DictOf(a) = {t.keys[list[j]] : j \in 1 .. k}
  /\ \A j \in 1 .. k : DictOf(a)[t.keys[list[j]]] = t.values[list[j]]

\* Growth widens.
LEMMA Wider ==
  ASSUME NEW n \in Nat, n # 0
  PROVE  n * Growth \in Nat /\ n * Growth > n
<1>1. Growth \in Nat /\ Growth > 1
  BY HashMapAssumption
<1>2. Growth = 1 + (Growth - 1) /\ Growth - 1 \in Nat /\ Growth - 1 > 0
  BY <1>1
<1> DEFINE g == Growth - 1
<1>3. n * Growth = n + n * g
  BY <1>2
<1> HIDE DEF g
<1>4. g \in Nat /\ g > 0
  BY <1>2 DEF g
<1>5. n * g \in Nat /\ n * g > 0
  BY <1>4
<1> QED BY <1>3, <1>5

\* Entering the next live slot keeps what was entered before it.
LEMMA FilledNext ==
  ASSUME NEW t, Good(t), t.bucketSize # 0, NEW k \in Nat, NEW i, i = k + 1, i <= Len(Live(t)),
         NEW a, Filled(a, t, Live(t), k)
  PROVE  Filled(privateSetKeyValue(a, t.keys[Live(t)[i]], t.values[Live(t)[i]]), t, Live(t), i)
<1> DEFINE list == Live(t)
           x == t.keys[list[i]]
           v == t.values[list[i]]
           u == privateSetKeyValue(a, x, v)
           N == t.bucketSize * Growth
<1>1. /\ LiveOf(t) = Elements(list) /\ Len(list) = t.size /\ Len(list) \in Nat
      /\ \A p, q \in 1 .. Len(list) : list[p] = list[q] => p = q
  BY LiveList
<1>2. \A j \in 1 .. Len(list) : list[j] \in LiveOf(t)
  BY <1>1 DEF Elements
<1>3. i \in 1 .. Len(list) /\ \A j \in 1 .. k : j \in 1 .. Len(list) /\ j # i
  BY <1>1
<1>4. x \in Key /\ v \in Val
  BY <1>2, <1>3, DictIs
<1>5. \A p, q \in LiveOf(t) : t.keys[p] = t.keys[q] => p = q
  BY DEF Good, Entered
<1>6. /\ Good(a) /\ a.bucketSize = N /\ a.freeHead = 0 /\ a.currentEntryIndex = k
      /\ DOMAIN DictOf(a) = {t.keys[list[j]] : j \in 1 .. k}
      /\ \A j \in 1 .. k : DictOf(a)[t.keys[list[j]]] = t.values[list[j]]
  BY DEF Filled
<1>7. x \notin DOMAIN DictOf(a)
  BY <1>1, <1>2, <1>3, <1>5, <1>6
<1>8. Slots(a, x) = {}
  BY <1>4, <1>6, <1>7, Known
<1>9. t.size <= t.currentEntryIndex /\ t.currentEntryIndex <= t.bucketSize /\ t.size \in Nat
      /\ t.bucketSize \in Nat /\ t.currentEntryIndex \in Nat
  BY AllLive DEF Good, Arrays
<1>10. Room(a)
  <2>1. N \in Nat /\ N > t.bucketSize
    BY <1>9, Wider
  <2> HIDE DEF N, list
  <2> QED BY <2>1, <1>1, <1>3, <1>6, <1>9 DEF Room
<1>11. u = NewEntry(a, x, v)
  BY <1>8 DEF privateSetKeyValue
<1> HIDE DEF u, x, v, N
<1>12. /\ Good(u) /\ Entry(a, u, x, v) /\ u.bucketSize = a.bucketSize
       /\ a.freeHead = 0 => u.freeHead = 0 /\ u.currentEntryIndex = a.currentEntryIndex + 1
  BY <1>4, <1>6, <1>8, <1>10, <1>11, NewEntryGood
<1>13. DictOf(u) = Put(DictOf(a), x, v)
  BY <1>4, <1>6, <1>7, <1>12, EntryPuts
<1> HIDE DEF list
<1>14. DOMAIN DictOf(u) = DOMAIN DictOf(a) \cup {x} /\ DictOf(u)[x] = v
       /\ \A y \in DOMAIN DictOf(a) : y # x => DictOf(u)[y] = DictOf(a)[y]
  BY <1>13 DEF Put
<1>15. \A j : j \in 1 .. i <=> j \in 1 .. k \/ j = i
  OBVIOUS
<1>16. DOMAIN DictOf(u) = {t.keys[list[j]] : j \in 1 .. i}
  <2>1. \A y : y \in DOMAIN DictOf(a) <=> \E j \in 1 .. k : y = t.keys[list[j]]
    BY <1>6
  <2>2. \A y : y \in DOMAIN DictOf(u) <=> \E j \in 1 .. i : y = t.keys[list[j]]
    BY <2>1, <1>14, <1>15 DEF x
  <2> DEFINE A == DOMAIN DictOf(u)
             B == {t.keys[list[j]] : j \in 1 .. i}
  <2>3. \A y : y \in A <=> y \in B
    BY <2>2
  <2> HIDE DEF A, B
  <2>4. A = B
    BY <2>3
  <2> QED BY <2>4 DEF A, B
<1>17. ASSUME NEW j \in 1 .. i PROVE DictOf(u)[t.keys[list[j]]] = t.values[list[j]]
  <2>1. CASE j = i
    BY <2>1, <1>14 DEF x, v
  <2>2. CASE j # i
    <3>1. j \in 1 .. k
      BY <2>2, <1>15
    <3>2. t.keys[list[j]] \in DOMAIN DictOf(a) /\ DictOf(a)[t.keys[list[j]]] = t.values[list[j]]
      BY <3>1, <1>6
    <3> QED BY <3>2, <1>7, <1>14
  <2> QED BY <2>1, <2>2
<1> QED BY <1>6, <1>12, <1>16, <1>17 DEF Filled, u, x, v, list, N

\* After growth the map stands for the same dictionary, has room and no free list.
LEMMA GrownGood ==
  ASSUME NEW t, Good(t), t.bucketSize # 0
  PROVE  /\ Good(Grown(t)) /\ DictOf(Grown(t)) = DictOf(t) /\ Room(Grown(t))
         /\ Grown(t).bucketSize > t.bucketSize
<1> DEFINE list == Live(t)
           m == Len(list)
<1>1. LiveOf(t) = Elements(list) /\ m = t.size /\ m \in Nat
  BY LiveList
<1>2. t.size <= t.bucketSize /\ t.bucketSize \in Nat /\ t.bucketSize * Growth \in Nat /\ t.bucketSize * Growth > t.bucketSize
  <2>1. t.size <= t.currentEntryIndex /\ t.currentEntryIndex \in 0 .. t.bucketSize /\ t.bucketSize \in Nat /\ t.size \in Nat
    BY AllLive DEF Good, Arrays
  <2> QED BY <2>1, Wider
<1>3. PICK g : g = [i \in 0 .. m |-> EnterStep(g, t, list, i)] /\ Grown(t) = g[m]
  BY <1>1, GrownIs
<1> DEFINE T == {k \in Nat : k <= m => Filled(g[k], t, list, k)}
<1>4. 0 \in T
  <2>1. 0 \in 0 .. m
    BY <1>1
  <2>2. g[0] = Empty(t.bucketSize * Growth)
    BY <2>1, <1>3 DEF EnterStep
  <2>3. /\ Good(g[0]) /\ LiveOf(g[0]) = {} /\ g[0].bucketSize = t.bucketSize * Growth /\ g[0].freeHead = 0
        /\ g[0].currentEntryIndex = 0
    BY <2>2, <1>2, EmptyGood
  <2>4. DOMAIN DictOf(g[0]) = {}
    BY <2>3, DictIs
  <2>5. \A j : j \notin 1 .. 0
    OBVIOUS
  <2> HIDE DEF list, T
  <2>6. {t.keys[list[j]] : j \in 1 .. 0} = {}
    BY <2>5
  <2>7. Filled(g[0], t, list, 0)
    BY <2>3, <2>4, <2>5, <2>6 DEF Filled
  <2> QED BY <2>7 DEF T
<1>5. ASSUME NEW k \in Nat, k \in T PROVE k + 1 \in T
  <2> SUFFICES ASSUME k + 1 <= m PROVE Filled(g[k + 1], t, list, k + 1)
    OBVIOUS
  <2>1. Filled(g[k], t, list, k)
    BY <1>1, <1>5
  <2> DEFINE i == k + 1
  <2>2. i \in 0 .. m /\ i # 0 /\ i - 1 = k
    BY <1>1
  <2>3. g[i] = privateSetKeyValue(g[k], t.keys[list[i]], t.values[list[i]])
    BY <2>2, <1>3 DEF EnterStep
  <2>4. i = k + 1 /\ i <= m
    OBVIOUS
  <2> HIDE DEF i, T
  <2>5. Filled(g[i], t, list, i)
    BY <2>1, <2>3, <2>4, FilledNext
  <2> QED BY <2>5 DEF i
<1> HIDE DEF T
<1>6. Nat \subseteq T
  BY <1>4, <1>5, UpTo
<1>7. Filled(g[m], t, list, m)
  BY <1>1, <1>6 DEF T
<1> DEFINE u == Grown(t)
           d == DictOf(t)
           e == DictOf(u)
<1>8. /\ Good(u) /\ u.bucketSize = t.bucketSize * Growth /\ u.freeHead = 0 /\ u.currentEntryIndex = m
      /\ DOMAIN e = {t.keys[list[j]] : j \in 1 .. m}
      /\ \A j \in 1 .. m : e[t.keys[list[j]]] = t.values[list[j]]
  BY <1>3, <1>7 DEF Filled
<1>9. /\ DOMAIN d = {t.keys[s] : s \in LiveOf(t)} /\ d = [x \in DOMAIN d |-> d[x]]
      /\ \A s \in LiveOf(t) : d[t.keys[s]] = t.values[s]
  BY DictIs
<1>10. e = [x \in DOMAIN e |-> e[x]]
  BY <1>8, DictIs
<1> HIDE DEF d, e, u
<1>11. \A s : s \in LiveOf(t) <=> \E j \in 1 .. m : s = list[j]
  BY <1>1 DEF Elements
<1> HIDE DEF m, list
<1>12. DOMAIN d = DOMAIN e /\ \A x \in DOMAIN d : d[x] = e[x]
  BY <1>8, <1>9, <1>11
<1>13. d = e
  BY <1>9, <1>10, <1>12
<1>14. Room(u)
  BY <1>1, <1>2, <1>8 DEF Room
<1> QED BY <1>2, <1>8, <1>13, <1>14 DEF u, d, e

\* A table without a live slot stands for the empty function.
LEMMA NothingLive ==
  ASSUME NEW t, Good(t), LiveOf(t) = {}
  PROVE  DictOf(t) = <<>>
BY DEF DictOf

\* What set() finds before it enters the key, grown or not.
LEMMA PreparedGood ==
  ASSUME NEW t, Good(t)
  PROVE  LET u == Prepared(t) IN
         /\ Good(u) /\ Room(u) /\ DictOf(u) = DictOf(t)
         /\ u.bucketSize = t.bucketSize => u = t
<1> DEFINE a == IF t.bucketSize = 0 THEN Empty(InitialBuckets) ELSE t
           u == Prepared(t)
<1>1. t.bucketSize \in Nat /\ InitialBuckets \in Nat \ {0}
  BY HashMapAssumption DEF Good, Arrays
<1>2. Good(a) /\ DictOf(a) = DictOf(t) /\ a.bucketSize # 0 /\ a.bucketSize \in Nat /\ a.bucketSize >= t.bucketSize
      /\ (a.bucketSize = t.bucketSize => a = t)
  <2>1. CASE t.bucketSize # 0
    BY <2>1, <1>1
  <2>2. CASE t.bucketSize = 0
    <3>1. Good(a) /\ LiveOf(a) = {} /\ a.bucketSize = InitialBuckets
      BY <2>2, <1>1, EmptyGood
    <3>2. LiveOf(t) \subseteq 1 .. 0
      BY <2>2, Partition DEF Good
    <3>3. LiveOf(t) = {}
      BY <3>2
    <3> HIDE DEF a
    <3>4. DictOf(a) = <<>> /\ DictOf(t) = <<>>
      BY <3>1, <3>3, NothingLive
    <3> QED BY <2>2, <3>1, <3>4, <1>1
  <2> QED BY <2>1, <2>2
<1>3. u = IF a.size * 4 >= a.bucketSize * 2 THEN Grown(a) ELSE a
  BY DEF Prepared
<1> HIDE DEF a, u
<1>4. CASE a.size * 4 >= a.bucketSize * 2
  <2>1. u = Grown(a)
    BY <1>3, <1>4
  <2>2. Good(u) /\ DictOf(u) = DictOf(a) /\ Room(u) /\ u.bucketSize > a.bucketSize
    BY <1>2, <2>1, GrownGood
  <2>3. u.bucketSize \in Nat
    BY <2>2 DEF Good, Arrays
  <2>4. u.bucketSize # t.bucketSize
    BY <1>1, <1>2, <2>2, <2>3
  <2> QED BY <1>2, <2>2, <2>4 DEF u
<1>5. CASE ~(a.size * 4 >= a.bucketSize * 2)
  <2>1. u = a
    BY <1>3, <1>5
  <2>2. a.size \in Nat /\ a.currentEntryIndex \in Nat
    BY <1>2 DEF Good, Arrays
  <2>3. a.size < a.bucketSize
    BY <1>2, <1>5, <2>2
  <2>4. a.freeHead = 0 => a.size = a.currentEntryIndex
    BY <1>2, AllLive
  <2>5. Room(a)
    BY <1>2, <2>3, <2>4 DEF Room
  <2> QED BY <1>2, <2>1, <2>5 DEF u
<1> QED BY <1>4, <1>5

\* set(): it puts the key, and takes a slot beyond the old ones only when all of them are live.
LEMMA SetStep ==
  ASSUME Good(map), NEW k \in Key, NEW v \in Val, set(k, v)
  PROVE  /\ Good(map') /\ DictOf(map') = Put(DictOf(map), k, v)
         /\ map'.bucketSize = map.bucketSize /\ map'.currentEntryIndex > map.currentEntryIndex
              => map'.size = map'.currentEntryIndex
<1> DEFINE t == Prepared(map)
<1>1. map' = privateSetKeyValue(t, k, v)
  BY DEF set
<1>2. Good(t) /\ Room(t) /\ DictOf(t) = DictOf(map) /\ (t.bucketSize = map.bucketSize => t = map)
  BY PreparedGood
<1> HIDE DEF t
<1> DEFINE u == privateSetKeyValue(t, k, v)
<1>3. /\ Good(u) /\ DictOf(u) = Put(DictOf(t), k, v) /\ u.bucketSize = t.bucketSize
      /\ u.currentEntryIndex > t.currentEntryIndex => u.size = u.currentEntryIndex
  BY <1>2, SetGood
<1> HIDE DEF u
<1>4. map' = u
  BY <1>1 DEF u
<1> QED BY <1>2, <1>3, <1>4

-----------------------------------------------------------------------------
(* Removing and clearing.                                                  *)

\* u differs from t in the heads and the links only.
SameRest(u, t) ==
  /\ DOMAIN u = Fields /\ u.bucketSize = t.bucketSize /\ u.keys = t.keys /\ u.values = t.values
  /\ u.currentEntryIndex = t.currentEntryIndex /\ u.freeHead = t.freeHead /\ u.size = t.size

\* The heads of a table in which one bucket got another head.
LEMMA NewHeads ==
  ASSUME NEW t, Arrays(t), NEW u, u.bucketSize = t.bucketSize, u.freeHead = t.freeHead,
         NEW b \in 0 .. t.bucketSize - 1, NEW h, Update(u.keyIndexes, t.keyIndexes, b, h)
  PROVE  /\ Update(Heads(u), Heads(t), b, h) /\ Heads(u)[t.bucketSize] = u.freeHead
         /\ \A a \in 0 .. t.bucketSize - 1 : Heads(u)[a] = u.keyIndexes[a]
<1> DEFINE n == t.bucketSize
           G == Heads(u)
           H == Heads(t)
<1>1. n \in Nat
  BY DEF Arrays
<1>0. \A a \in 0 .. n - 1 : u.keyIndexes[a] = IF a = b THEN h ELSE t.keyIndexes[a]
  BY DEF Arrays, Update
<1>2. G = [a \in 0 .. n |-> IF a = n THEN u.freeHead ELSE u.keyIndexes[a]]
  BY DEF Heads
<1>3. H = [a \in 0 .. n |-> IF a = n THEN t.freeHead ELSE t.keyIndexes[a]]
  BY DEF Heads
<1>4. n \in 0 .. n /\ b # n /\ \A a \in 0 .. n : a # n => a \in 0 .. n - 1
  BY <1>1
<1>5. \A a \in 0 .. n - 1 : a \in 0 .. n /\ a # n
  BY <1>1
<1> HIDE DEF G, H, n
<1>6. ASSUME NEW a \in 0 .. n PROVE G[a] = IF a = b THEN h ELSE H[a]
  <2>1. CASE a = n
    BY <2>1, <1>2, <1>3, <1>4 DEF n
  <2>2. CASE a # n
    BY <2>2, <1>0, <1>2, <1>3, <1>4 DEF n
  <2> QED BY <2>1, <2>2
<1>7. [H EXCEPT ![b] = h] = [a \in 0 .. n |-> IF a = b THEN h ELSE H[a]]
  BY <1>3
<1>8. G = [H EXCEPT ![b] = h]
  BY <1>2, <1>6, <1>7
<1>9. G[n] = u.freeHead /\ \A a \in 0 .. n - 1 : G[a] = u.keyIndexes[a]
  BY <1>2, <1>4, <1>5
<1> QED BY <1>8, <1>9 DEF Update, G, H, n

\* A slot leaves its chain; the other chains and the free list stay.
LEMMA UnlinkedGood ==
  ASSUME NEW t, Good(t), NEW b \in 0 .. t.bucketSize - 1, NEW s \in OnBucket(t, b)
  PROVE  LET u == Unlinked(t, b, s) IN
         /\ SameRest(u, t) /\ Sound(t.bucketSize, u.nextIndexes, Heads(u))
         /\ u.keyIndexes \in [0 .. t.bucketSize - 1 -> 0 .. t.bucketSize]
         /\ u.nextIndexes \in [1 .. t.bucketSize -> 0 .. t.bucketSize]
         /\ OnBucket(u, b) = OnBucket(t, b) \ {s} /\ Free(u) = Free(t)
         /\ \A a \in 0 .. t.bucketSize - 1 : a # b => OnBucket(u, a) = OnBucket(t, a)
<1> DEFINE n == t.bucketSize
           u == Unlinked(t, b, s)
           H == Heads(t)
           next == t.nextIndexes
<1>1. n \in Nat /\ DOMAIN t = Fields /\ t.keyIndexes \in [0 .. n - 1 -> 0 .. n] /\ next \in [1 .. n -> 0 .. n]
      /\ Arrays(t) /\ Sound(n, next, H) /\ t.freeHead \in 0 .. n
  BY DEF Good, Arrays
<1>2. DOMAIN H = 0 .. n /\ H[n] = t.freeHead /\ \A a \in 0 .. n - 1 : H[a] = t.keyIndexes[a]
  <2>1. DOMAIN H = 0 .. n /\ \A a \in 0 .. n : H[a] = IF a = n THEN t.freeHead ELSE t.keyIndexes[a]
    BY DEF Heads
  <2>2. n \in 0 .. n /\ \A a \in 0 .. n - 1 : a # n /\ a \in 0 .. n
    BY <1>1
  <2> HIDE DEF H, n
  <2> QED BY <2>1, <2>2
<1>3. n \in DOMAIN H /\ n # b /\ b \in DOMAIN H /\ \A a \in 0 .. n - 1 : a \in DOMAIN H
  BY <1>1, <1>2
<1>4. Free(t) = On(next, H[n]) /\ \A a \in 0 .. n - 1 : OnBucket(t, a) = On(next, H[a])
  BY <1>2 DEF Free, OnBucket
<1>5. s \in On(next, H[b])
  BY <1>4
<1>6. s \in 1 .. n
  <2> HIDE DEF H, n, next
  <2>1. On(next, H[b]) \subseteq 1 .. n
    BY <1>1, <1>3, SoundList
  <2> QED BY <2>1, <1>5
<1>7. next[s] \in 0 .. n
  BY <1>1, <1>6
<1>8. CASE t.keyIndexes[b] = s
  <2>1. u = [t EXCEPT !.keyIndexes[b] = next[s]]
    BY <1>8 DEF Unlinked
  <2>2. SameRest(u, t) /\ u.nextIndexes = next /\ u.keyIndexes = [t.keyIndexes EXCEPT ![b] = next[s]]
    BY <2>1, <1>1 DEF SameRest, Fields
  <2> HIDE DEF u
  <2>3. u.keyIndexes \in [0 .. n - 1 -> 0 .. n]
        /\ \A a \in 0 .. n - 1 : u.keyIndexes[a] = IF a = b THEN next[s] ELSE t.keyIndexes[a]
    <3> HIDE DEF n, next
    <3> QED BY <2>2, <1>1, <1>7
  <2>4. Update(Heads(u), H, b, next[H[b]]) /\ Heads(u)[n] = u.freeHead
        /\ \A a \in 0 .. n - 1 : Heads(u)[a] = u.keyIndexes[a]
    <3>1. u.bucketSize = t.bucketSize /\ u.freeHead = t.freeHead
      BY <2>2 DEF SameRest
    <3>2. H[b] = s
      BY <1>2, <1>8
    <3> DEFINE h == next[s]
    <3>3. Update(u.keyIndexes, t.keyIndexes, b, h)
      BY <2>2 DEF Update
    <3>5. Arrays(t)
      BY <1>1
    <3> HIDE DEF h, H
    <3>4. /\ Update(Heads(u), Heads(t), b, h) /\ Heads(u)[t.bucketSize] = u.freeHead
          /\ \A a \in 0 .. t.bucketSize - 1 : Heads(u)[a] = u.keyIndexes[a]
      BY <3>1, <3>3, <3>5, NewHeads
    <3> QED BY <3>2, <3>4 DEF h, H
  <2>5. H[b] # 0 /\ H[b] = s
    BY <1>2, <1>6, <1>8
  <2> DEFINE G == Heads(u)
  <2> HIDE DEF G, H, n, next
  <2>6. Update(G, H, b, next[H[b]])
    BY <2>4 DEF G
  <2>7. /\ Sound(n, next, G) /\ On(next, G[b]) = On(next, H[b]) \ {H[b]}
        /\ \A a \in DOMAIN H : a # b => On(next, G[a]) = On(next, H[a])
    <3>1. Sound(n, next, H)
      BY <1>1
    <3>2. b \in DOMAIN H /\ H[b] # 0
      BY <1>3, <2>5
    <3> QED BY <2>6, <3>1, <3>2, DropFirst
  <2>8. Free(u) = On(next, G[n]) /\ \A a \in 0 .. n - 1 : OnBucket(u, a) = On(next, G[a])
    BY <2>2, <2>4 DEF Free, OnBucket, G
  <2>9. Free(u) = Free(t)
    BY <2>7, <2>8, <1>3, <1>4
  <2>10. \A a \in 0 .. n - 1 : a # b => OnBucket(u, a) = OnBucket(t, a)
    BY <2>7, <2>8, <1>3, <1>4
  <2>11. b \in 0 .. n - 1
    BY DEF n
  <2>12. OnBucket(u, b) = OnBucket(t, b) \ {s}
    BY <2>5, <2>7, <2>8, <2>11, <1>4
  <2> QED BY <2>2, <2>3, <2>7, <2>9, <2>10, <2>12, <1>1 DEF G, n, u, next
<1>9. CASE t.keyIndexes[b] # s
  <2> DEFINE p == CHOOSE x \in ToSet(Entries(t, b)) : next[x] = s
  <2>1. H[b] # s
    BY <1>2, <1>9
  <2>2. \E x \in On(next, H[b]) : next[x] = s
    <3> HIDE DEF H, n, next
    <3> QED BY <1>1, <1>3, <1>5, <2>1, Predecessor
  <2>3. On(next, H[b]) = ToSet(Entries(t, b))
    BY <1>2 DEF On, Entries
  <2>4. p \in On(next, H[b]) /\ next[p] = s
    BY <2>2, <2>3
  <2>5. u = [t EXCEPT !.nextIndexes[p] = next[s]]
    BY <1>9 DEF Unlinked
  <2> HIDE DEF p
  <2>6. SameRest(u, t) /\ u.keyIndexes = t.keyIndexes /\ Update(u.nextIndexes, next, p, next[s])
    BY <2>5, <1>1 DEF SameRest, Fields, Update
  <2>7. Heads(u) = H
    BY <2>6 DEF Heads, SameRest
  <2> DEFINE next2 == u.nextIndexes
  <2>8. Update(next2, next, p, next[s]) /\ s = next[p] /\ s # 0
    BY <2>4, <2>6, <1>6
  <2> HIDE DEF H, n, next, next2, u
  <2>9. p \in 1 .. n
    <3>1. On(next, H[b]) \subseteq 1 .. n
      BY <1>1, <1>3, SoundList
    <3> QED BY <2>4, <3>1
  <2>10. /\ Sound(n, next2, H) /\ On(next2, H[b]) = On(next, H[b]) \ {s}
         /\ \A a \in DOMAIN H : a # b => On(next2, H[a]) = On(next, H[a])
    <3>1. Sound(n, next, H)
      BY <1>1
    <3>2. b \in DOMAIN H /\ p \in On(next, H[b])
      BY <1>3, <2>4
    <3> QED BY <2>8, <3>1, <3>2, DropLater
  <2>11. next2 \in [1 .. n -> 0 .. n]
    BY <2>8, <2>9, <1>1, <1>7 DEF Update
  <2>12. Free(u) = On(next2, H[n]) /\ \A a \in 0 .. n - 1 : OnBucket(u, a) = On(next2, H[a])
    BY <2>6, <1>2 DEF Free, OnBucket, SameRest, next2
  <2>13. Free(u) = Free(t)
    BY <2>10, <2>12, <1>3, <1>4
  <2>14. \A a \in 0 .. n - 1 : a # b => OnBucket(u, a) = OnBucket(t, a)
    BY <2>10, <2>12, <1>3, <1>4
  <2>15. b \in 0 .. n - 1
    BY DEF n
  <2>16. OnBucket(u, b) = OnBucket(t, b) \ {s}
    BY <2>10, <2>12, <2>15, <1>4
  <2> QED BY <2>6, <2>7, <2>10, <2>11, <2>13, <2>14, <2>16, <1>1 DEF n, u, next2
<1> QED BY <1>8, <1>9

\* The table after the slot was vacated.
Vacate(u, s) == [freeSlot(u, s) EXCEPT !.size = @ - 1]

\* What freeSlot and the decrement of size write, field by field.
LEMMA VacateIs ==
  ASSUME NEW u, DOMAIN u = Fields, NEW s
  PROVE  LET w == Vacate(u, s) IN
         /\ DOMAIN w = Fields /\ w.bucketSize = u.bucketSize /\ w.keyIndexes = u.keyIndexes
         /\ w.currentEntryIndex = u.currentEntryIndex /\ w.freeHead = s /\ w.size = u.size - 1
         /\ Update(w.nextIndexes, u.nextIndexes, s, u.freeHead)
         /\ Update(w.keys, u.keys, s, None) /\ Update(w.values, u.values, s, None)
<1> DEFINE w == Vacate(u, s)
<1>1. w = [[u EXCEPT !.nextIndexes[s] = u.freeHead, !.freeHead = s, !.keys[s] = None, !.values[s] = None]
             EXCEPT !.size = @ - 1]
  BY DEF Vacate, freeSlot
<1>2. /\ DOMAIN w = Fields /\ w.bucketSize = u.bucketSize /\ w.keyIndexes = u.keyIndexes
      /\ w.currentEntryIndex = u.currentEntryIndex /\ w.freeHead = s /\ w.size = u.size - 1
  BY <1>1 DEF Fields
<1>3. /\ Update(w.nextIndexes, u.nextIndexes, s, u.freeHead)
      /\ Update(w.keys, u.keys, s, None) /\ Update(w.values, u.values, s, None)
  BY <1>1 DEF Fields, Update
<1> QED BY <1>2, <1>3

\* u is t with one slot unlinked, w is u with that slot vacated.
LEMMA RemoveGood ==
  ASSUME NEW t, Good(t), NEW b \in 0 .. t.bucketSize - 1, NEW s \in OnBucket(t, b)
  PROVE  LET w == Vacate(Unlinked(t, b, s), s) IN
         /\ Good(w) /\ LiveOf(w) = LiveOf(t) \ {s}
         /\ w.bucketSize = t.bucketSize /\ w.currentEntryIndex = t.currentEntryIndex
         /\ \A x \in LiveOf(w) : w.keys[x] = t.keys[x] /\ w.values[x] = t.values[x]
<1> DEFINE n == t.bucketSize
           u == Unlinked(t, b, s)
           w == Vacate(u, s)
           G == Heads(u)
           next == u.nextIndexes
<1>1. n \in Nat /\ Arrays(t) /\ t.keys \in [1 .. n -> Key \cup {None}] /\ t.values \in [1 .. n -> Val \cup {None}]
      /\ t.currentEntryIndex \in 0 .. n /\ t.freeHead \in 0 .. n /\ t.size \in Nat /\ b \in 0 .. n - 1
  BY DEF Good, Arrays
<1>2. LiveOf(t) \cup Free(t) = 1 .. t.currentEntryIndex /\ t.size = Cardinality(LiveOf(t)) /\ Entered(t) /\ Vacated(t)
  BY DEF Good
<1>3. /\ LiveOf(t) \cap Free(t) = {} /\ LiveOf(t) \subseteq 1 .. n /\ Free(t) \subseteq 1 .. n /\ IsFiniteSet(LiveOf(t))
      /\ \A a, c \in 0 .. n - 1 : a # c => OnBucket(t, a) \cap OnBucket(t, c) = {}
  BY Partition DEF Good
<1>4. \A x : x \in LiveOf(t) <=> \E a \in 0 .. n - 1 : x \in OnBucket(t, a)
  BY <1>1, LiveIs
<1>5. s \in LiveOf(t) /\ s \in 1 .. n /\ s \notin Free(t)
  BY <1>1, <1>3, <1>4
<1>6. /\ SameRest(u, t) /\ Sound(n, next, G) /\ u.keyIndexes \in [0 .. n - 1 -> 0 .. n] /\ next \in [1 .. n -> 0 .. n]
      /\ OnBucket(u, b) = OnBucket(t, b) \ {s} /\ Free(u) = Free(t)
      /\ \A a \in 0 .. n - 1 : a # b => OnBucket(u, a) = OnBucket(t, a)
  BY UnlinkedGood
<1> HIDE DEF n, u, G, next
<1>7. DOMAIN u = Fields /\ u.bucketSize = n /\ u.keys = t.keys /\ u.values = t.values
      /\ u.currentEntryIndex = t.currentEntryIndex /\ u.freeHead = t.freeHead /\ u.size = t.size
  BY <1>6 DEF SameRest, n
<1>8. /\ DOMAIN w = Fields /\ w.bucketSize = n /\ w.keyIndexes = u.keyIndexes
      /\ w.currentEntryIndex = t.currentEntryIndex /\ w.freeHead = s /\ w.size = t.size - 1
      /\ Update(w.nextIndexes, next, s, t.freeHead)
      /\ Update(w.keys, t.keys, s, None) /\ Update(w.values, t.values, s, None)
  <2>1. /\ DOMAIN w = Fields /\ w.bucketSize = u.bucketSize /\ w.keyIndexes = u.keyIndexes
        /\ w.currentEntryIndex = u.currentEntryIndex /\ w.freeHead = s /\ w.size = u.size - 1
        /\ Update(w.nextIndexes, u.nextIndexes, s, u.freeHead)
        /\ Update(w.keys, u.keys, s, None) /\ Update(w.values, u.values, s, None)
    BY <1>7, VacateIs
  <2> HIDE DEF w
  <2> QED BY <2>1, <1>7 DEF next
<1> HIDE DEF w
<1>9. G = [a \in 0 .. n |-> IF a = n THEN t.freeHead ELSE u.keyIndexes[a]]
  BY <1>7 DEF Heads, G
<1>10. Heads(w) = [a \in 0 .. n |-> IF a = n THEN s ELSE u.keyIndexes[a]]
  BY <1>8 DEF Heads
<1>11. n \in 0 .. n /\ \A a \in 0 .. n - 1 : a \in 0 .. n /\ a # n
  BY <1>1
<1>12. Update(Heads(w), G, n, s) /\ G[n] = t.freeHead /\ DOMAIN G = 0 .. n /\ n \in DOMAIN G
  <2>1. [G EXCEPT ![n] = s] = [a \in 0 .. n |-> IF a = n THEN s ELSE G[a]]
    BY <1>9
  <2>2. \A a \in 0 .. n : a # n => G[a] = u.keyIndexes[a]
    BY <1>9
  <2>3. Heads(w) = [G EXCEPT ![n] = s]
    BY <2>1, <2>2, <1>10
  <2> QED BY <2>3, <1>9, <1>11 DEF Update
<1>13. On(next, G[n]) = Free(t) /\ \A a \in 0 .. n - 1 : On(next, G[a]) = OnBucket(u, a)
  <2>1. On(next, G[n]) = Free(u)
    BY <1>7, <1>12 DEF Free, next
  <2>2. \A a \in 0 .. n - 1 : G[a] = u.keyIndexes[a]
    BY <1>9, <1>11
  <2> QED BY <2>1, <2>2, <1>6 DEF OnBucket, next
<1>14. \A a \in DOMAIN G : s \notin On(next, G[a])
  <2> SUFFICES ASSUME NEW a \in DOMAIN G PROVE s \notin On(next, G[a])
    OBVIOUS
  <2>1. CASE a = n
    BY <2>1, <1>5, <1>13
  <2>2. CASE a = b
    BY <2>2, <1>1, <1>6, <1>13
  <2>3. CASE a # n /\ a # b
    <3>1. a \in 0 .. n - 1
      BY <2>3, <1>1, <1>12
    <3>2. s \in OnBucket(t, b)
      OBVIOUS
    <3>3. s \notin OnBucket(t, a)
      BY <2>3, <3>1, <3>2, <1>1, <1>3
    <3> QED BY <2>3, <3>1, <3>3, <1>6, <1>13
  <2> QED BY <2>1, <2>2, <2>3
<1> DEFINE F == Heads(w)
           next2 == w.nextIndexes
<1>15. /\ Sound(n, next2, F) /\ On(next2, F[n]) = On(next, G[n]) \cup {s}
       /\ \A a \in DOMAIN G : a # n => On(next2, F[a]) = On(next, G[a])
  <2>1. Update(next2, next, s, G[n])
    BY <1>8, <1>12
  <2>2. Update(F, G, n, s)
    BY <1>12
  <2>3. Sound(n, next, G)
    BY <1>6
  <2>4. n \in DOMAIN G
    BY <1>12
  <2>5. s \in 1 .. n
    BY <1>5
  <2> HIDE DEF F, next2
  <2> QED BY <2>1, <2>2, <2>3, <2>4, <2>5, <1>14, Push
<1>16. Free(w) = Free(t) \cup {s} /\ \A a \in 0 .. n - 1 : OnBucket(w, a) = OnBucket(u, a)
  <2>1. F[n] = w.freeHead /\ \A a \in 0 .. n - 1 : F[a] = w.keyIndexes[a]
    BY <1>8, <1>10, <1>11
  <2>2. Free(w) = On(next2, F[n]) /\ \A a \in 0 .. n - 1 : OnBucket(w, a) = On(next2, F[a])
    BY <2>1 DEF Free, OnBucket
  <2> HIDE DEF F, next2
  <2>3. \A a \in 0 .. n - 1 : a \in DOMAIN G /\ a # n
    BY <1>11, <1>12
  <2> QED BY <2>2, <2>3, <1>13, <1>15
<1>17. w.nextIndexes \in [1 .. n -> 0 .. n]
  <2>1. Update(w.nextIndexes, next, s, t.freeHead)
    BY <1>8
  <2>2. next \in [1 .. n -> 0 .. n]
    BY <1>6
  <2>3. t.freeHead \in 0 .. n
    BY <1>1
  <2> QED BY <2>1, <2>2, <2>3 DEF Update
<1>18. w.keys \in [1 .. n -> Key \cup {None}] /\ w.keys[s] = None /\ \A y \in 1 .. n : y # s => w.keys[y] = t.keys[y]
  <2>1. Update(w.keys, t.keys, s, None)
    BY <1>8
  <2>2. t.keys \in [1 .. n -> Key \cup {None}] /\ s \in 1 .. n
    BY <1>1, <1>5
  <2> QED BY <2>1, <2>2 DEF Update
<1>19. w.values \in [1 .. n -> Val \cup {None}] /\ w.values[s] = None /\ \A y \in 1 .. n : y # s => w.values[y] = t.values[y]
  <2>1. Update(w.values, t.values, s, None)
    BY <1>8
  <2>2. t.values \in [1 .. n -> Val \cup {None}] /\ s \in 1 .. n
    BY <1>1, <1>5
  <2> QED BY <2>1, <2>2 DEF Update
<1>20. Cardinality(LiveOf(t) \ {s}) = Cardinality(LiveOf(t)) - 1
  BY <1>3, <1>5, FS_RemoveElement
<1>21. w.size \in Nat /\ w.size = Cardinality(LiveOf(t) \ {s})
  <2>1. Cardinality(LiveOf(t) \ {s}) \in Nat
    BY <1>3, FS_RemoveElement, FS_CardinalityType
  <2> QED BY <2>1, <1>2, <1>8, <1>20
<1>22. w.freeHead \in 0 .. n /\ w.currentEntryIndex \in 0 .. n
  BY <1>1, <1>5, <1>8
<1>23. Arrays(w)
  BY <1>1, <1>6, <1>8, <1>17, <1>18, <1>19, <1>21, <1>22 DEF Arrays
<1>24. LiveOf(w) = LiveOf(t) \ {s}
  <2>1. \A x : x \in LiveOf(w) <=> \E a \in 0 .. n - 1 : x \in OnBucket(w, a)
    BY <1>8, <1>23, LiveIs
  <2>2. \A a \in 0 .. n - 1 : OnBucket(w, a) = OnBucket(t, a) \ {s}
    <3> SUFFICES ASSUME NEW a \in 0 .. n - 1 PROVE OnBucket(w, a) = OnBucket(t, a) \ {s}
      OBVIOUS
    <3>1. CASE a = b
      BY <3>1, <1>6, <1>16
    <3>2. CASE a # b
      <4>1. s \in OnBucket(t, b)
        OBVIOUS
      <4>2. s \notin OnBucket(t, a)
        BY <3>2, <4>1, <1>1, <1>3
      <4>3. OnBucket(w, a) = OnBucket(t, a)
        BY <3>2, <1>6, <1>16
      <4> QED BY <4>2, <4>3
    <3> QED BY <3>1, <3>2
  <2>3. \A x : x \in LiveOf(w) <=> x \in LiveOf(t) /\ x # s
    BY <2>1, <2>2, <1>4
  <2> QED BY <2>3
<1>25. LiveOf(w) \cup Free(w) = 1 .. w.currentEntryIndex
  BY <1>2, <1>5, <1>8, <1>16, <1>24
<1>26. \A x \in LiveOf(w) : x # s /\ x \in LiveOf(t) /\ w.keys[x] = t.keys[x] /\ w.values[x] = t.values[x]
  BY <1>3, <1>18, <1>19, <1>24
<1>27. Entered(w)
  <2>1. ASSUME NEW a \in 0 .. n - 1, NEW x \in OnBucket(w, a)
        PROVE  w.keys[x] \in Key /\ w.values[x] \in Val /\ Bucket(w, w.keys[x]) = a
    <3>1. x \in LiveOf(w)
      BY <1>8, <1>23, LiveIs
    <3>2. x \in OnBucket(t, a)
      BY <1>6, <1>16
    <3>3. t.keys[x] \in Key /\ t.values[x] \in Val /\ Bucket(t, t.keys[x]) = a
      BY <3>2, <1>2 DEF Entered, n
    <3> QED BY <3>1, <3>3, <1>8, <1>26 DEF Bucket, n
  <2>2. \A r, x \in LiveOf(w) : w.keys[r] = w.keys[x] => r = x
    BY <1>2, <1>26 DEF Entered
  <2> QED BY <2>1, <2>2, <1>8 DEF Entered
<1>28. Vacated(w)
  <2>1. \A x \in Free(w) : x = s \/ (x # s /\ x \in Free(t) /\ x \in 1 .. n)
    BY <1>3, <1>16
  <2> QED BY <2>1, <1>2, <1>18, <1>19 DEF Vacated
<1>29. Good(w)
  BY <1>8, <1>15, <1>21, <1>23, <1>24, <1>25, <1>27, <1>28 DEF Good
<1> QED BY <1>8, <1>24, <1>26, <1>29 DEF w, u, n

\* remove(): the dictionary loses the key, and the slot goes to the free list.
LEMMA RemoveStep ==
  ASSUME Good(map), NEW k \in Key, remove(k)
  PROVE  /\ Good(map') /\ DictOf(map') = Restrict(DictOf(map), DOMAIN DictOf(map) \ {k})
         /\ map'.bucketSize = map.bucketSize /\ map'.currentEntryIndex = map.currentEntryIndex
<1> DEFINE d == DictOf(map)
           e == DictOf(map')
<1>1. /\ DOMAIN d = {map.keys[r] : r \in LiveOf(map)} /\ d = [x \in DOMAIN d |-> d[x]]
      /\ \A r \in LiveOf(map) : d[map.keys[r]] = map.values[r]
  BY DictIs
<1>2. CASE Slots(map, k) = {}
  <2>1. map' = map
    BY <1>2 DEF remove
  <2>2. k \notin DOMAIN d
    BY <1>2, Known
  <2>3. DOMAIN d \ {k} = DOMAIN d
    BY <2>2
  <2> HIDE DEF d
  <2>4. d = Restrict(d, DOMAIN d \ {k})
    BY <2>3, <1>1 DEF Restrict
  <2> QED BY <2>1, <2>4 DEF d
<1>3. CASE Slots(map, k) # {}
  <2> DEFINE s == SlotOf(map, k)
             b == Bucket(map, k)
             w == Vacate(Unlinked(map, b, s), s)
  <2>1. s \in LiveOf(map) /\ map.keys[s] = k /\ b \in 0 .. map.bucketSize - 1 /\ s \in OnBucket(map, b)
    BY <1>3, SlotFound
  <2>2. map' = w
    BY <1>3 DEF remove, Vacate
  <2> HIDE DEF s, b
  <2>3. /\ Good(w) /\ LiveOf(w) = LiveOf(map) \ {s}
        /\ w.bucketSize = map.bucketSize /\ w.currentEntryIndex = map.currentEntryIndex
        /\ \A x \in LiveOf(w) : w.keys[x] = map.keys[x] /\ w.values[x] = map.values[x]
    BY <2>1, RemoveGood
  <2> HIDE DEF w
  <2>4. /\ Good(map') /\ LiveOf(map') = LiveOf(map) \ {s}
        /\ map'.bucketSize = map.bucketSize /\ map'.currentEntryIndex = map.currentEntryIndex
        /\ \A x \in LiveOf(map') : map'.keys[x] = map.keys[x] /\ map'.values[x] = map.values[x]
    BY <2>2, <2>3
  <2>5. /\ DOMAIN e = {map'.keys[r] : r \in LiveOf(map')} /\ e = [x \in DOMAIN e |-> e[x]]
        /\ \A r \in LiveOf(map') : e[map'.keys[r]] = map'.values[r]
    BY <2>4, DictIs
  <2>6. \A r \in LiveOf(map) : map.keys[r] = k <=> r = s
    BY <2>1 DEF Good, Entered
  <2> HIDE DEF d, e
  <2>7. DOMAIN e = DOMAIN d \ {k}
    <3>1. \A x : x \in DOMAIN e <=> \E r \in LiveOf(map) : r # s /\ x = map.keys[r]
      BY <2>4, <2>5
    <3>2. \A x : x \in DOMAIN d <=> \E r \in LiveOf(map) : x = map.keys[r]
      BY <1>1
    <3>3. \A x : x \in DOMAIN e <=> x \in DOMAIN d /\ x # k
      BY <3>1, <3>2, <2>6
    <3> QED BY <3>3
  <2>8. \A x \in DOMAIN e : e[x] = d[x]
    BY <1>1, <2>4, <2>5
  <2>9. e = Restrict(d, DOMAIN d \ {k})
    BY <2>5, <2>7, <2>8 DEF Restrict
  <2> QED BY <2>4, <2>9 DEF d, e
<1> QED BY <1>2, <1>3

\* clear(): nothing is left, and no slot counts as handed out.
LEMMA ClearStep ==
  ASSUME Good(map), clear
  PROVE  /\ Good(map') /\ DictOf(map') = <<>> /\ map'.currentEntryIndex = 0
<1> DEFINE n == map.bucketSize
           u == [map EXCEPT !.size = 0, !.currentEntryIndex = 0, !.freeHead = 0,
                            !.keyIndexes = [b \in 0 .. n - 1 |-> 0]]
<1>1. map' = u
  BY DEF clear
<1>2. Arrays(map) /\ DOMAIN map = Fields
  BY DEF Good, Arrays
<1>3. /\ DOMAIN u = Fields /\ u.bucketSize = n /\ u.size = 0 /\ u.freeHead = 0 /\ u.currentEntryIndex = 0
      /\ u.keyIndexes = [b \in 0 .. n - 1 |-> 0]
      /\ u.nextIndexes = map.nextIndexes /\ u.keys = map.keys /\ u.values = map.values
  BY <1>2 DEF Fields
<1> HIDE DEF u, n
<1>4. n \in Nat /\ u.nextIndexes \in [1 .. n -> 0 .. n]
  BY <1>2, <1>3 DEF Arrays, n
<1>5. Arrays(u)
  BY <1>2, <1>3, <1>4 DEF Arrays, n
<1>6. Heads(u) = [b \in 0 .. n |-> 0]
  <2>1. Heads(u) = [b \in 0 .. n |-> IF b = n THEN u.freeHead ELSE u.keyIndexes[b]]
    BY <1>3 DEF Heads
  <2>2. u.freeHead = 0 /\ \A b \in 0 .. n - 1 : u.keyIndexes[b] = 0
    BY <1>3
  <2>3. \A b \in 0 .. n : b # n => b \in 0 .. n - 1
    BY <1>4
  <2>4. \A b \in 0 .. n : (IF b = n THEN u.freeHead ELSE u.keyIndexes[b]) = 0
    BY <2>2, <2>3
  <2> QED BY <2>1, <2>4
<1>7. Sound(n, u.nextIndexes, Heads(u)) /\ \A b \in 0 .. n : On(u.nextIndexes, Heads(u)[b]) = {}
  BY <1>4, <1>6, NoChains
<1>8. On(u.nextIndexes, 0) = {}
  <2>1. n \in 0 .. n /\ Heads(u)[n] = 0
    BY <1>4, <1>6
  <2> QED BY <2>1, <1>7
<1>9. Free(u) = {} /\ \A b \in 0 .. n - 1 : OnBucket(u, b) = {}
  BY <1>3, <1>8 DEF Free, OnBucket
<1>10. LiveOf(u) = {}
  BY <1>3, <1>5, <1>9, LiveIs
<1>11. Entered(u) /\ Vacated(u)
  BY <1>3, <1>9, <1>10 DEF Entered, Vacated
<1>12. LiveOf(u) \cup Free(u) = 1 .. u.currentEntryIndex /\ u.size = Cardinality(LiveOf(u))
  BY <1>3, <1>9, <1>10, FS_EmptySet
<1>13. Good(u)
  BY <1>3, <1>5, <1>7, <1>11, <1>12 DEF Good
<1>14. DictOf(u) = <<>>
  BY <1>10, <1>13, NothingLive
<1> QED BY <1>1, <1>3, <1>13, <1>14

-----------------------------------------------------------------------------
(* The invariant and the properties.                                       *)

\* A new map is the empty dictionary.
LEMMA MapInit == Init => Good(map) /\ DictOf(map) = <<>>
<1> SUFFICES ASSUME Init PROVE Good(map) /\ DictOf(map) = <<>>
  OBVIOUS
<1>1. map = Empty(0) /\ 0 \in Nat
  BY DEF Init
<1>2. Good(map) /\ LiveOf(map) = {}
  BY <1>1, EmptyGood
<1> QED BY <1>2, NothingLive

\* Every operation keeps the map good.
LEMMA MapStep == Good(map) /\ [Next]_vars => Good(map')
<1> SUFFICES ASSUME Good(map), [Next]_vars PROVE Good(map')
  OBVIOUS
<1>1. ASSUME NEW k \in Key, NEW v \in Val, set(k, v) PROVE Good(map')
  BY <1>1, SetStep
<1>2. ASSUME NEW k \in Key, remove(k) PROVE Good(map')
  BY <1>2, RemoveStep
<1>3. CASE clear
  BY <1>3, ClearStep
<1>4. ASSUME \/ buildKeys \/ UNCHANGED vars \/ \E k \in Key : get(k)
             \/ \E v \in Val : containsValue(v)
      PROVE  Good(map')
  BY <1>4 DEF buildKeys, get, containsValue, vars
<1> QED BY <1>1, <1>2, <1>3, <1>4 DEF Next

(* Chains and free list share no slot and make up the slots handed out, a  *)
(* live slot lies in the bucket of its key, and no key has two slots.       *)
THEOREM MapStaysGood == Spec => []Good(map)
<1>1. Init => Good(map)
  BY MapInit
<1>2. Good(map) /\ [Next]_vars => Good(map)'
  BY MapStep
<1> QED BY <1>1, <1>2, PTL DEF Spec

\* A good map satisfies SlotsPartitioned.
LEMMA GoodPartitions == Good(map) => SlotsPartitioned
<1> SUFFICES ASSUME Good(map) PROVE SlotsPartitioned
  OBVIOUS
<1> DEFINE n == map.bucketSize
           H == Heads(map)
           next == map.nextIndexes
<1>1. Arrays(map) /\ n \in Nat /\ Sound(n, next, H) /\ map.size \in Nat /\ map.currentEntryIndex \in 0 .. n
  BY DEF Good, Arrays
<1>2. map.size <= map.currentEntryIndex
  BY AllLive
<1>3. map.size \in 0 .. n
  BY <1>1, <1>2
<1>4. TypeOK
  BY <1>1, <1>3 DEF TypeOK, Arrays
<1>5. /\ Sound(n, next, map.keyIndexes) /\ DOMAIN map.keyIndexes = 0 .. n - 1
      /\ LiveOf(map) \cap Free(map) = {}
  BY <1>1, Partition DEF Arrays
<1>6. n \in DOMAIN H /\ H[n] = map.freeHead
  BY <1>1 DEF Heads
<1>7. LiveSlots = LiveOf(map) /\ ToSet(FreeList) = Free(map) /\ FreeList = Chain(next, H[n])
  BY <1>6 DEF LiveSlots, LiveOf, FreeList, Free, On
<1> DEFINE heads == map.keyIndexes
<1> HIDE DEF n, H, next, heads
<1>8. IsInjective(FreeList)
  BY <1>1, <1>6, <1>7, SoundList
<1>9. Disjoint(next, heads)
  <2>1. Sound(n, next, heads)
    BY <1>5 DEF heads
  <2>2. \A b \in DOMAIN heads : IsInjective(Chain(next, heads[b]))
    BY <2>1, SoundList
  <2>3. \A b, c \in DOMAIN heads : b # c => On(next, heads[b]) \cap On(next, heads[c]) = {}
    BY <2>1, SoundApart
  <2> QED BY <2>2, <2>3 DEF Disjoint, On
<1> QED BY <1>4, <1>5, <1>7, <1>8, <1>9 DEF SlotsPartitioned, Good, Vacated, next, heads

(* HashMap.aml:300-303, 328-331: no slot is lost or on two chains.          *)
THEOREM SlotsStayPartitioned == Spec => []SlotsPartitioned
BY MapStaysGood, GoodPartitions, PTL

\* Only set() takes a slot beyond the old ones.
LEMMA StepsByOne ==
  ASSUME Good(map), [Next]_vars, map'.bucketSize = map.bucketSize,
         map'.currentEntryIndex > map.currentEntryIndex
  PROVE  map'.size = map'.currentEntryIndex
<1>1. map.currentEntryIndex \in Nat
  BY DEF Good, Arrays
<1>2. ASSUME NEW k \in Key, NEW v \in Val, set(k, v) PROVE map'.size = map'.currentEntryIndex
  BY <1>2, SetStep
<1>3. ASSUME NEW k \in Key, remove(k) PROVE FALSE
  <2>1. map'.currentEntryIndex = map.currentEntryIndex
    BY <1>3, RemoveStep
  <2> QED BY <2>1, <1>1
<1>4. ASSUME clear PROVE FALSE
  <2>1. map'.currentEntryIndex = 0
    BY <1>4, ClearStep
  <2> QED BY <2>1, <1>1
<1>5. ASSUME \/ buildKeys \/ UNCHANGED vars \/ \E k \in Key : get(k)
             \/ \E v \in Val : containsValue(v)
      PROVE  FALSE
  <2>1. map' = map
    BY <1>5 DEF buildKeys, get, containsValue, vars
  <2> QED BY <2>1, <1>1
<1> QED BY <1>2, <1>3, <1>4, <1>5 DEF Next

(* HashMap.aml:22-23: a slot is taken beyond the old ones only when every   *)
(* one handed out is live, for every history of sets and removals.          *)
THEOREM SlotsStayWithinPeak == Spec => HighWaterMark
<1>1. Good(map) /\ [Next]_vars =>
        [map'.bucketSize = map.bucketSize /\ map'.currentEntryIndex > map.currentEntryIndex
           => map'.size = map'.currentEntryIndex]_vars
  BY StepsByOne
<1> QED BY <1>1, MapStaysGood, PTL DEF Spec, HighWaterMark

-----------------------------------------------------------------------------
(* The dictionary.                                                         *)

\* The refinement mapping is the function the table stands for.
LEMMA ContentsAre == Contents = DictOf(map)
BY DEF Contents, DictOf, LiveSlots, LiveOf

\* As many slots are live as the dictionary has keys.
LEMMA SizeIs ==
  ASSUME Good(map)
  PROVE  Cardinality(DOMAIN DictOf(map)) = map.size
<1> DEFINE S == LiveOf(map)
           D == DOMAIN DictOf(map)
           f == [s \in S |-> map.keys[s]]
<1>1. D = {map.keys[s] : s \in S}
  BY DictIs
<1>2. \A r, s \in S : map.keys[r] = map.keys[s] => r = s
  BY DEF Good, Entered
<1>3. IsFiniteSet(S) /\ map.size = Cardinality(S)
  BY Partition DEF Good
<1> HIDE DEF S, D
<1>4. f \in [S -> D] /\ \A x \in D : \E s \in S : f[s] = x
  BY <1>1
<1>5. IsInjective(f)
  BY <1>2 DEF IsInjective
<1> HIDE DEF f
<1>6. f \in Bijection(S, D)
  BY <1>4, <1>5 DEF Bijection, Injection, Surjection
<1>7. ExistsBijection(S, D)
  BY <1>6 DEF ExistsBijection
<1>8. Cardinality(D) = Cardinality(S)
  BY <1>3, <1>7, FS_Bijection
<1> QED BY <1>3, <1>8 DEF D

\* Every step of the map is the step of the dictionary of the same name.
LEMMA StepRefines == Good(map) /\ [Next]_vars => [Dict!Next]_Dict!vars
<1> SUFFICES ASSUME Good(map), [Next]_vars PROVE [Dict!Next]_Dict!vars
  OBVIOUS
<1> DEFINE d == DictOf(map)
<1>1. Contents = d /\ Contents' = DictOf(map')
  BY ContentsAre DEF d, Contents, DictOf, LiveSlots, LiveOf
<1>2. /\ DOMAIN d = {map.keys[r] : r \in LiveOf(map)}
      /\ \A r \in LiveOf(map) : d[map.keys[r]] = map.values[r]
  BY DictIs
<1>3. \A k \in Key : /\ Slots(map, k) # {} <=> k \in DOMAIN d
                     /\ k \in DOMAIN d => d[k] = map.values[SlotOf(map, k)]
  BY Known
<1>4. ASSUME NEW k \in Key, NEW v \in Val, set(k, v) PROVE Dict!Set(k, v)
  <2>1. DictOf(map') = Put(d, k, v)
    BY <1>4, SetStep
  <2>2. answer' = Silent
    BY <1>4 DEF set
  <2> HIDE DEF d
  <2> QED BY <2>1, <2>2, <1>1 DEF Put, Dict!Set, Dict!Silent, Silent
<1>5. ASSUME NEW k \in Key, remove(k) PROVE Dict!Remove(k)
  <2>1. DictOf(map') = Restrict(d, DOMAIN d \ {k})
    BY <1>5, RemoveStep
  <2>2. answer' = Answer("remove", k, k \in DOMAIN d)
    BY <1>5, <1>3 DEF remove
  <2> HIDE DEF d
  <2> QED BY <2>1, <2>2, <1>1 DEF Restrict, Dict!Restrict, Dict!Remove, Dict!Answer, Answer
<1>6. ASSUME clear PROVE Dict!Clear
  <2>1. DictOf(map') = <<>> /\ answer' = Silent
    BY <1>6, ClearStep DEF clear
  <2> QED BY <2>1, <1>1 DEF Dict!Clear, Dict!Silent, Silent
<1>7. map' = map => Contents' = Contents
  BY <1>1
<1>8. ASSUME NEW k \in Key, get(k) PROVE Dict!Get(k)
  <2>1. answer' = Answer("get", k, IF k \in DOMAIN d THEN d[k] ELSE None) /\ map' = map
    BY <1>8, <1>3 DEF get
  <2> HIDE DEF d
  <2> QED BY <2>1, <1>1, <1>7 DEF Dict!Get, Dict!Answer, Answer
<1>9. ASSUME NEW v \in Val, containsValue(v) PROVE Dict!ContainsValue(v)
  <2>1. (\E s \in LiveOf(map) : map.values[s] = v) <=> (\E k \in DOMAIN d : d[k] = v)
    <3> HIDE DEF d
    <3> QED BY <1>2
  <2>2. LiveSlots = LiveOf(map)
    BY DEF LiveSlots, LiveOf
  <2>3. answer' = Answer("containsValue", v, \E k \in DOMAIN d : d[k] = v) /\ map' = map
    BY <2>1, <2>2, <1>9 DEF containsValue
  <2> HIDE DEF d
  <2> QED BY <2>3, <1>1, <1>7 DEF Dict!ContainsValue, Dict!Answer, Answer
<1>10. ASSUME buildKeys PROVE Dict!Keys
  <2>1. ToSet(Live(map)) = LiveOf(map) /\ Len(Live(map)) = map.size
    BY LiveList
  <2>2. Cardinality(DOMAIN d) = map.size
    BY SizeIs
  <2>3. answer' = Answer("keys", {map.keys[s] : s \in ToSet(Live(map))}, Len(Live(map))) /\ map' = map
    BY <1>10 DEF buildKeys
  <2> HIDE DEF d
  <2>4. answer' = Answer("keys", DOMAIN d, Cardinality(DOMAIN d))
    BY <2>1, <2>2, <2>3, <1>2
  <2>5. Dict!Cardinality(DOMAIN d) = Cardinality(DOMAIN d)
    BY DEF Cardinality, Dict!Cardinality
  <2> QED BY <2>3, <2>4, <2>5, <1>1, <1>7 DEF Dict!Keys, Dict!Answer, Answer
<1>11. ASSUME UNCHANGED vars PROVE UNCHANGED Dict!vars
  BY <1>7, <1>11 DEF vars, Dict!vars
<1> QED BY <1>4, <1>5, <1>6, <1>8, <1>9, <1>10, <1>11 DEF Next, Dict!Next

(* Through collisions, removals, slot reuse, clear and growth, the map      *)
(* answers every call as the dictionary of the Map interface would.         *)
THEOREM MapIsDictionary == Spec => ImplementsDictionary
<1>1. Init => Dict!Init
  BY MapInit, ContentsAre DEF Init, Dict!Init, Dict!Silent, Silent
<1>2. Good(map) /\ [Next]_vars => [Dict!Next]_Dict!vars
  BY StepRefines
<1> QED BY MapStaysGood, <1>1, <1>2, PTL DEF Spec, Dict!Spec, ImplementsDictionary
=============================================================================
