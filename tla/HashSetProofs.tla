---------------------------- MODULE HashSetProofs ----------------------------
(***************************************************************************)
(* For every set of values, every hash and every size of table: the chains *)
(* of a HashSet are sound, no member is lost by chaining, unlinking and    *)
(* growing, and the contents are the members until the set grows after a   *)
(* removal.                                                                *)
(***************************************************************************)
EXTENDS HashSet, ChainProofs

Fields == {"bucketSize", "valueIndexes", "nextIndexes", "values", "currentValueIndex", "currentIndex", "size"}

Arrays(t) ==
  /\ DOMAIN t = Fields /\ t.bucketSize \in Nat
  /\ t.valueIndexes \in [0 .. t.bucketSize - 1 -> 0 .. t.bucketSize]
  /\ t.nextIndexes \in [1 .. t.bucketSize -> 0 .. t.bucketSize]
  /\ t.values \in [1 .. t.bucketSize -> Value \cup {Null}]
  /\ t.currentValueIndex \in 0 .. t.bucketSize
  /\ t.currentIndex \in Nat /\ t.size \in Nat

OnBucket(t, b) == On(t.nextIndexes, t.valueIndexes[b])
LiveOf(t)      == Linked(t.nextIndexes, t.valueIndexes)
Held(t)        == {t.values[s] : s \in LiveOf(t)}

\* A slot handed out was written; a live one lies in the bucket of its value, alone with it.
Entered(t) ==
  /\ \A s \in 1 .. t.currentValueIndex : t.values[s] \in Value
  /\ \A b \in 0 .. t.bucketSize - 1 : \A s \in OnBucket(t, b) : SetBucket(t, t.values[s]) = b
  /\ \A r, s \in LiveOf(t) : t.values[r] = t.values[s] => r = s

Good(t) ==
  /\ Arrays(t) /\ Sound(t.bucketSize, t.nextIndexes, t.valueIndexes)
  /\ LiveOf(t) \subseteq 1 .. t.currentValueIndex
  /\ t.size = Cardinality(LiveOf(t))
  /\ Entered(t)

\* The live slots are those of the buckets.
LEMMA LiveIs ==
  ASSUME NEW t, Arrays(t)
  PROVE  \A s : s \in LiveOf(t) <=> \E b \in 0 .. t.bucketSize - 1 : s \in OnBucket(t, b)
BY DEF LiveOf, Linked, OnBucket, On, Arrays

\* size is at most the number of slots handed out, and equal to it when all of them are live.
LEMMA LiveFinite ==
  ASSUME NEW t, Good(t)
  PROVE  /\ IsFiniteSet(LiveOf(t)) /\ LiveOf(t) \subseteq 1 .. t.bucketSize
         /\ t.size <= t.currentValueIndex /\ t.size <= t.bucketSize
         /\ t.size = t.currentValueIndex => LiveOf(t) = 1 .. t.currentValueIndex
         /\ LiveOf(t) = 1 .. t.currentValueIndex => t.size = t.currentValueIndex
<1>1. t.bucketSize \in Nat /\ t.currentValueIndex \in 0 .. t.bucketSize /\ t.size \in Nat
  BY DEF Good, Arrays
<1>2. LiveOf(t) \subseteq 1 .. t.currentValueIndex /\ t.size = Cardinality(LiveOf(t))
  BY DEF Good
<1>3. IsFiniteSet(1 .. t.currentValueIndex) /\ Cardinality(1 .. t.currentValueIndex) = t.currentValueIndex
  BY <1>1, UpToCard
<1>4. IsFiniteSet(LiveOf(t)) /\ Cardinality(LiveOf(t)) <= Cardinality(1 .. t.currentValueIndex)
      /\ (Cardinality(LiveOf(t)) = Cardinality(1 .. t.currentValueIndex) => LiveOf(t) = 1 .. t.currentValueIndex)
  BY <1>2, <1>3, FS_Subset
<1>5. LiveOf(t) \subseteq 1 .. t.bucketSize
  BY <1>1, <1>2
<1> QED BY <1>1, <1>2, <1>3, <1>4, <1>5

\* The walk of a value's bucket finds it if the set holds it.
LEMMA FoundIs ==
  ASSUME NEW t, Good(t), t.bucketSize # 0, NEW v \in Value
  PROVE  /\ SetBucket(t, v) \in 0 .. t.bucketSize - 1
         /\ Found(t, v) <=> v \in Held(t)
         /\ \A s \in LiveOf(t) : t.values[s] = v => s \in OnBucket(t, SetBucket(t, v))
<1> DEFINE n == t.bucketSize
<1>1. Arrays(t) /\ n \in Nat /\ Entered(t)
  BY DEF Good, Arrays
<1>2. \A s : s \in LiveOf(t) <=> \E b \in 0 .. n - 1 : s \in OnBucket(t, b)
  BY <1>1, LiveIs
<1>3. SetBucket(t, v) \in 0 .. n - 1
  <2>1. SetHash[v] \in Nat
    BY HashSetAssumption
  <2>2. \A a, b \in Nat : b # 0 => a % b \in 0 .. b - 1
    OBVIOUS
  <2> QED BY <2>1, <2>2, <1>1 DEF SetBucket
<1>4. \A s \in LiveOf(t) : t.values[s] = v => s \in OnBucket(t, SetBucket(t, v))
  BY <1>1, <1>2 DEF Entered
<1>5. Found(t, v) <=> \E s \in OnBucket(t, SetBucket(t, v)) : t.values[s] = v
  BY DEF Found, OnBucket, On
<1>6. Found(t, v) <=> v \in Held(t)
  BY <1>2, <1>3, <1>4, <1>5 DEF Held
<1> QED BY <1>3, <1>4, <1>6

\* New arrays.
LEMMA EmptyGood ==
  ASSUME NEW n \in Nat
  PROVE  /\ Good(EmptySet(n)) /\ LiveOf(EmptySet(n)) = {} /\ Held(EmptySet(n)) = {}
         /\ EmptySet(n).bucketSize = n /\ EmptySet(n).size = 0 /\ EmptySet(n).currentValueIndex = 0
<1> DEFINE t == EmptySet(n)
<1>1. /\ DOMAIN t = Fields /\ t.bucketSize = n /\ t.size = 0 /\ t.currentValueIndex = 0 /\ t.currentIndex = n
      /\ t.valueIndexes = [b \in 0 .. n - 1 |-> 0] /\ t.nextIndexes = [s \in 1 .. n |-> 0]
      /\ t.values = [s \in 1 .. n |-> Null]
  BY DEF EmptySet, Fields
<1> HIDE DEF t
<1>2. Arrays(t)
  BY <1>1 DEF Arrays
<1>3. /\ Sound(n, t.nextIndexes, t.valueIndexes)
      /\ \A b \in 0 .. n - 1 : On(t.nextIndexes, t.valueIndexes[b]) = {}
  <2>1. t.nextIndexes \in [1 .. n -> 0 .. n]
    BY <1>1
  <2> QED BY <2>1, <1>1, NoChains
<1>4. \A b \in 0 .. n - 1 : OnBucket(t, b) = {}
  BY <1>3 DEF OnBucket
<1>5. LiveOf(t) = {} /\ Held(t) = {}
  BY <1>1, <1>2, <1>4, LiveIs DEF Held
<1>6. Entered(t)
  BY <1>1, <1>4, <1>5 DEF Entered
<1>7. LiveOf(t) \subseteq 1 .. t.currentValueIndex /\ t.size = Cardinality(LiveOf(t))
  BY <1>1, <1>5, FS_EmptySet
<1>8. Good(t)
  BY <1>1, <1>2, <1>3, <1>6, <1>7 DEF Good
<1> QED BY <1>1, <1>5, <1>8 DEF t

-----------------------------------------------------------------------------
(* Entering a value.                                                       *)

\* What privateSetValue writes for a new value, field by field.
LEMMA SetValueIs ==
  ASSUME NEW t, Arrays(t), NEW v \in Value, SetBucket(t, v) \in 0 .. t.bucketSize - 1,
         t.currentValueIndex < t.bucketSize, ~Found(t, v)
  PROVE  LET u == privateSetValue(t, v)  s == t.currentValueIndex + 1  b == SetBucket(t, v) IN
         /\ DOMAIN u = Fields /\ u.bucketSize = t.bucketSize
         /\ Update(u.values, t.values, s, v)
         /\ Update(u.nextIndexes, t.nextIndexes, s, t.valueIndexes[b])
         /\ Update(u.valueIndexes, t.valueIndexes, b, s)
         /\ u.size = t.size + 1 /\ u.currentValueIndex = s /\ u.currentIndex \in Nat
<1> DEFINE b == SetBucket(t, v)
           s == t.currentValueIndex + 1
           u == privateSetValue(t, v)
<1>1. DOMAIN t = Fields /\ t.currentIndex \in Nat
  BY DEF Arrays
<1>2. u = [t EXCEPT !.values[s] = v, !.nextIndexes[s] = t.valueIndexes[b],
                    !.valueIndexes[b] = s, !.currentValueIndex = s, !.size = @ + 1,
                    !.currentIndex = IF t.valueIndexes[b] = 0 THEN @ ELSE @ + 1]
  BY DEF privateSetValue
<1> HIDE DEF b, s, u
<1>3. /\ DOMAIN u = Fields /\ u.bucketSize = t.bucketSize /\ u.size = t.size + 1 /\ u.currentValueIndex = s
      /\ u.currentIndex = IF t.valueIndexes[b] = 0 THEN t.currentIndex ELSE t.currentIndex + 1
  BY <1>1, <1>2 DEF Fields
<1>4. /\ Update(u.values, t.values, s, v)
      /\ Update(u.nextIndexes, t.nextIndexes, s, t.valueIndexes[b])
      /\ Update(u.valueIndexes, t.valueIndexes, b, s)
  BY <1>1, <1>2 DEF Fields, Update
<1>5. u.currentIndex \in Nat
  BY <1>1, <1>3
<1> QED BY <1>3, <1>4, <1>5 DEF b, s, u

\* A new value takes the next slot and heads its bucket.
LEMMA NewValueGood ==
  ASSUME NEW t, Good(t), NEW v \in Value, t.currentValueIndex < t.bucketSize, ~Found(t, v)
  PROVE  LET u == privateSetValue(t, v) IN
         /\ Good(u) /\ Held(u) = Held(t) \cup {v} /\ u.bucketSize = t.bucketSize
         /\ u.size = t.size + 1 /\ u.currentValueIndex = t.currentValueIndex + 1
<1> DEFINE u == privateSetValue(t, v)
           n == t.bucketSize
           s == t.currentValueIndex + 1
           b == SetBucket(t, v)
           next == t.nextIndexes
           heads == t.valueIndexes
<1>1. /\ n \in Nat /\ n # 0 /\ Arrays(t) /\ heads \in [0 .. n - 1 -> 0 .. n] /\ next \in [1 .. n -> 0 .. n]
      /\ t.values \in [1 .. n -> Value \cup {Null}] /\ t.currentValueIndex \in 0 .. n /\ t.size \in Nat
  BY DEF Good, Arrays
<1>2. s \in 1 .. n /\ s \notin 1 .. t.currentValueIndex
  BY <1>1
<1>3. LiveOf(t) \subseteq 1 .. t.currentValueIndex /\ t.size = Cardinality(LiveOf(t)) /\ Entered(t)
      /\ Sound(n, next, heads)
  BY DEF Good
<1>4. b \in 0 .. n - 1 /\ v \notin Held(t)
  BY <1>1, FoundIs
<1>5. /\ DOMAIN u = Fields /\ u.bucketSize = n
      /\ Update(u.values, t.values, s, v) /\ Update(u.nextIndexes, next, s, heads[b])
      /\ Update(u.valueIndexes, heads, b, s)
      /\ u.size = t.size + 1 /\ u.currentValueIndex = s /\ u.currentIndex \in Nat
  BY <1>1, <1>4, SetValueIs
<1>6. IsFiniteSet(LiveOf(t))
  BY LiveFinite
<1>7. \A x : x \in LiveOf(t) <=> \E a \in 0 .. n - 1 : x \in OnBucket(t, a)
  BY <1>1, LiveIs
<1>8. s = t.currentValueIndex + 1
  OBVIOUS
<1> HIDE DEF u, n, s, b, next, heads
<1>9. DOMAIN heads = 0 .. n - 1 /\ \A a \in 0 .. n - 1 : OnBucket(t, a) = On(next, heads[a])
  BY <1>1 DEF OnBucket, next, heads
<1>10. s \notin LiveOf(t) /\ \A a \in DOMAIN heads : s \notin On(next, heads[a])
  BY <1>2, <1>3, <1>7, <1>9
<1> DEFINE next2 == u.nextIndexes
           G == u.valueIndexes
<1>11. /\ Sound(n, next2, G) /\ On(next2, G[b]) = On(next, heads[b]) \cup {s}
       /\ \A a \in DOMAIN heads : a # b => On(next2, G[a]) = On(next, heads[a])
  <2>1. Update(next2, next, s, heads[b])
    BY <1>5
  <2>2. Update(G, heads, b, s)
    BY <1>5
  <2>3. Sound(n, next, heads)
    BY <1>3
  <2>4. b \in DOMAIN heads
    BY <1>4, <1>9
  <2>5. s \in 1 .. n
    BY <1>2
  <2>6. \A a \in DOMAIN heads : s \notin On(next, heads[a])
    BY <1>10
  <2> HIDE DEF next2, G
  <2> QED BY <2>1, <2>2, <2>3, <2>4, <2>5, <2>6, Push
<1>12. u.valueIndexes \in [0 .. n - 1 -> 0 .. n]
  <2>1. Update(u.valueIndexes, heads, b, s)
    BY <1>5
  <2>2. heads \in [0 .. n - 1 -> 0 .. n]
    BY <1>1
  <2>3. s \in 0 .. n
    BY <1>2
  <2> QED BY <2>1, <2>2, <2>3 DEF Update
<1>13. u.nextIndexes \in [1 .. n -> 0 .. n]
  <2>1. Update(u.nextIndexes, next, s, heads[b])
    BY <1>5
  <2>2. next \in [1 .. n -> 0 .. n]
    BY <1>1
  <2>3. heads[b] \in 0 .. n
    BY <1>1, <1>4
  <2> QED BY <2>1, <2>2, <2>3 DEF Update
<1>14. u.values \in [1 .. n -> Value \cup {Null}] /\ u.values[s] = v /\ \A y \in 1 .. n : y # s => u.values[y] = t.values[y]
  <2>1. Update(u.values, t.values, s, v)
    BY <1>5
  <2>2. t.values \in [1 .. n -> Value \cup {Null}]
    BY <1>1
  <2>3. s \in 1 .. n /\ v \in Value \cup {Null}
    BY <1>2
  <2> QED BY <2>1, <2>2, <2>3 DEF Update
<1>15. u.currentValueIndex \in 0 .. n /\ u.size \in Nat
  BY <1>1, <1>2, <1>5
<1>16. Arrays(u)
  BY <1>1, <1>5, <1>12, <1>13, <1>14, <1>15 DEF Arrays
<1>17. OnBucket(u, b) = OnBucket(t, b) \cup {s} /\ \A a \in 0 .. n - 1 : a # b => OnBucket(u, a) = OnBucket(t, a)
  <2>1. \A a \in 0 .. n - 1 : OnBucket(u, a) = On(next2, G[a])
    BY DEF OnBucket
  <2> HIDE DEF next2, G
  <2> QED BY <2>1, <1>4, <1>9, <1>11
<1>18. LiveOf(u) = LiveOf(t) \cup {s}
  <2>1. \A x : x \in LiveOf(u) <=> \E a \in 0 .. n - 1 : x \in OnBucket(u, a)
    BY <1>5, <1>16, LiveIs
  <2>2. \A x : x \in LiveOf(u) <=> x \in LiveOf(t) \/ x = s
    BY <2>1, <1>4, <1>7, <1>17
  <2> QED BY <2>2
<1>19. LiveOf(u) \subseteq 1 .. u.currentValueIndex
  <2>1. \A x : x \in 1 .. s <=> x \in 1 .. t.currentValueIndex \/ x = s
    BY <1>1, <1>8
  <2> QED BY <2>1, <1>3, <1>5, <1>18
<1>20. u.size = Cardinality(LiveOf(u))
  <2>1. Cardinality(LiveOf(t) \cup {s}) = Cardinality(LiveOf(t)) + 1
    BY <1>6, <1>10, FS_AddElement
  <2> QED BY <2>1, <1>3, <1>5, <1>18
<1>21. \A x \in 1 .. t.currentValueIndex : x # s /\ u.values[x] = t.values[x]
  <2>1. \A x \in 1 .. t.currentValueIndex : x \in 1 .. n /\ x # s
    BY <1>1, <1>2
  <2> QED BY <2>1, <1>14
<1>22. Entered(u)
  <2>1. ASSUME NEW x \in 1 .. u.currentValueIndex PROVE u.values[x] \in Value
    <3>1. x \in 1 .. t.currentValueIndex \/ x = s
      BY <1>1, <1>5, <1>8
    <3>2. \A y \in 1 .. t.currentValueIndex : t.values[y] \in Value
      BY <1>3 DEF Entered
    <3> QED BY <3>1, <3>2, <1>14, <1>21
  <2>2. ASSUME NEW a \in 0 .. n - 1, NEW x \in OnBucket(u, a) PROVE SetBucket(u, u.values[x]) = a
    <3>0. \A y : SetBucket(u, y) = SetBucket(t, y)
      BY <1>5 DEF SetBucket, n
    <3>1. CASE x = s
      <4>1. x \notin OnBucket(t, a)
        BY <3>1, <1>7, <1>10
      <4>2. a = b
        BY <4>1, <1>17, <2>2
      <4> QED BY <3>0, <3>1, <4>2, <1>14 DEF b
    <3>2. CASE x # s
      <4>1. x \in OnBucket(t, a)
        BY <3>2, <1>17, <2>2
      <4>2. SetBucket(t, t.values[x]) = a
        BY <4>1, <1>3 DEF Entered, n
      <4>3. u.values[x] = t.values[x]
        BY <4>1, <1>3, <1>7, <1>21
      <4> QED BY <3>0, <4>2, <4>3
    <3> QED BY <3>1, <3>2
  <2>3. ASSUME NEW x \in LiveOf(u), NEW y \in LiveOf(u), u.values[x] = u.values[y] PROVE x = y
    <3>1. \A z \in LiveOf(t) : u.values[z] = t.values[z] /\ t.values[z] # v
      BY <1>3, <1>4, <1>21 DEF Held
    <3>2. \A p, q \in LiveOf(t) : t.values[p] = t.values[q] => p = q
      BY <1>3 DEF Entered
    <3> QED BY <3>1, <3>2, <2>3, <1>14, <1>18
  <2> QED BY <2>1, <2>2, <2>3, <1>5 DEF Entered
<1>23. Good(u)
  BY <1>5, <1>11, <1>16, <1>19, <1>20, <1>22 DEF Good
<1>24. Held(u) = Held(t) \cup {v}
  <2>1. \A z \in LiveOf(t) : u.values[z] = t.values[z]
    BY <1>3, <1>21
  <2> QED BY <2>1, <1>14, <1>18 DEF Held
<1> QED BY <1>5, <1>8, <1>23, <1>24 DEF u, n

\* An old value or a new one; the slots wasted by removals are neither more nor fewer.
LEMMA AddGood ==
  ASSUME NEW t, Good(t), t.bucketSize # 0, NEW v \in Value, ~Found(t, v) => t.currentValueIndex < t.bucketSize
  PROVE  LET u == privateSetValue(t, v) IN
         /\ Good(u) /\ Held(u) = Held(t) \cup {v} /\ u.bucketSize = t.bucketSize
         /\ u.currentValueIndex - u.size = t.currentValueIndex - t.size
         /\ u.currentValueIndex <= t.currentValueIndex + 1
<1>0. t.currentValueIndex \in Nat /\ t.size \in Nat
  BY DEF Good, Arrays
<1>1. CASE Found(t, v)
  <2>1. privateSetValue(t, v) = t
    BY <1>1 DEF privateSetValue
  <2>2. v \in Held(t)
    BY <1>1, FoundIs
  <2>3. Held(t) = Held(t) \cup {v}
    BY <2>2
  <2> QED BY <2>1, <2>3, <1>0
<1>2. CASE ~Found(t, v)
  <2> DEFINE u == privateSetValue(t, v)
  <2>1. /\ Good(u) /\ Held(u) = Held(t) \cup {v} /\ u.bucketSize = t.bucketSize
        /\ u.size = t.size + 1 /\ u.currentValueIndex = t.currentValueIndex + 1
    BY <1>2, NewValueGood
  <2> HIDE DEF u
  <2> QED BY <2>1, <1>0 DEF u
<1> QED BY <1>1, <1>2

-----------------------------------------------------------------------------
(* Growing.                                                                *)

\* The table after the first s slots, given what it is after one less.
EnterStep(f, t, s) ==
  IF s = 0 THEN EmptySet(t.bucketSize * SetGrowth) ELSE privateSetValue(f[s - 1], t.values[s])

\* The recursion of Grown defines a function.
LEMMA EnterExists ==
  ASSUME NEW t, NEW m \in Nat
  PROVE  \E g : g = [s \in 0 .. m |-> EnterStep(g, t, s)]
<1> DEFINE T == {k \in Nat : \E g : g = [s \in 0 .. k |-> EnterStep(g, t, s)]}
<1>1. 0 \in T
  <2> DEFINE g == [s \in 0 .. 0 |-> EmptySet(t.bucketSize * SetGrowth)]
  <2>1. g = [s \in 0 .. 0 |-> EnterStep(g, t, s)]
    BY DEF EnterStep
  <2> QED BY <2>1
<1>2. ASSUME NEW k \in Nat, k \in T PROVE k + 1 \in T
  <2>1. PICK g : g = [s \in 0 .. k |-> EnterStep(g, t, s)]
    BY <1>2
  <2> DEFINE h == [s \in 0 .. k + 1 |-> EnterStep(g, t, s)]
  <2>2. ASSUME NEW s \in 0 .. k + 1 PROVE EnterStep(g, t, s) = EnterStep(h, t, s)
    <3>1. CASE s = 0
      BY <3>1 DEF EnterStep
    <3>2. CASE s # 0
      <4>1. s - 1 \in 0 .. k /\ s - 1 \in 0 .. k + 1
        BY <3>2
      <4>2. g[s - 1] = h[s - 1]
        BY <4>1, <2>1
      <4> QED BY <3>2, <4>2 DEF EnterStep
    <3> QED BY <3>1, <3>2
  <2>3. h = [s \in 0 .. k + 1 |-> EnterStep(h, t, s)]
    BY <2>2
  <2> HIDE DEF h
  <2> QED BY <2>3
<1> HIDE DEF T
<1>3. Nat \subseteq T
  BY <1>1, <1>2, UpTo
<1> QED BY <1>3 DEF T

\* So Grown is the last of the sets it goes through.
LEMMA GrownIs ==
  ASSUME NEW t, NEW m, m = t.currentValueIndex, m \in Nat
  PROVE  \E g : g = [s \in 0 .. m |-> EnterStep(g, t, s)] /\ SetGrown(t) = g[m]
<1> DEFINE f == CHOOSE g : g = [s \in 0 .. m |-> EnterStep(g, t, s)]
<1>1. f = [s \in 0 .. m |-> EnterStep(f, t, s)]
  <2>1. \E g : g = [s \in 0 .. m |-> EnterStep(g, t, s)]
    BY EnterExists
  <2> QED BY <2>1
<1>2. SetGrown(t) = f[m]
  BY DEF SetGrown, EnterStep
<1> HIDE DEF f
<1> QED BY <1>1, <1>2

\* Growth widens.
LEMMA Wider ==
  ASSUME NEW n \in Nat, n # 0
  PROVE  n * SetGrowth \in Nat /\ n * SetGrowth > n
<1>1. SetGrowth \in Nat /\ SetGrowth > 1
  BY HashSetAssumption
<1> DEFINE g == SetGrowth - 1
<1>2. n * SetGrowth = n + n * g /\ g \in Nat /\ g > 0
  BY <1>1
<1> HIDE DEF g
<1>3. n * g \in Nat /\ n * g > 0
  BY <1>2
<1> QED BY <1>2, <1>3

\* a holds what the first k slots of t hold, in no more slots and all of them live.
Filled(a, t, k) ==
  /\ Good(a) /\ a.bucketSize = t.bucketSize * SetGrowth
  /\ a.currentValueIndex <= k /\ a.size = a.currentValueIndex
  /\ Held(a) = {t.values[s] : s \in 1 .. k}

\* Entering the next slot keeps what was entered before it.
LEMMA FilledNext ==
  ASSUME NEW t, Good(t), t.bucketSize # 0, NEW k \in Nat, NEW i, i = k + 1, i <= t.currentValueIndex,
         NEW a, Filled(a, t, k)
  PROVE  Filled(privateSetValue(a, t.values[i]), t, i)
<1> DEFINE v == t.values[i]
           u == privateSetValue(a, v)
           N == t.bucketSize * SetGrowth
<1>1. /\ Good(a) /\ a.bucketSize = N /\ a.currentValueIndex <= k /\ a.size = a.currentValueIndex
      /\ Held(a) = {t.values[s] : s \in 1 .. k}
  BY DEF Filled
<1>2. t.currentValueIndex \in 0 .. t.bucketSize /\ t.bucketSize \in Nat
  BY DEF Good, Arrays
<1>3. N \in Nat /\ N > t.bucketSize
  BY <1>2, Wider
<1>4. i \in 1 .. t.currentValueIndex
  BY <1>2
<1>5. v \in Value
  BY <1>4 DEF Good, Entered
<1>6. a.currentValueIndex \in Nat /\ a.size \in Nat
  BY <1>1 DEF Good, Arrays
<1> HIDE DEF N
<1>7. a.bucketSize # 0 /\ a.currentValueIndex < a.bucketSize
  BY <1>1, <1>2, <1>3, <1>4, <1>6
<1> HIDE DEF u, v
<1>8. /\ Good(u) /\ Held(u) = Held(a) \cup {v} /\ u.bucketSize = a.bucketSize
      /\ u.currentValueIndex - u.size = a.currentValueIndex - a.size
      /\ u.currentValueIndex <= a.currentValueIndex + 1
  BY <1>1, <1>5, <1>7, AddGood DEF u
<1>9. u.currentValueIndex \in Nat /\ u.size \in Nat
  BY <1>8 DEF Good, Arrays
<1>10. u.currentValueIndex <= i /\ u.size = u.currentValueIndex
  BY <1>1, <1>6, <1>8, <1>9
<1>11. \A s : s \in 1 .. i <=> s \in 1 .. k \/ s = i
  OBVIOUS
<1>12. Held(u) = {t.values[s] : s \in 1 .. i}
  <2> DEFINE A == Held(u)
             B == {t.values[s] : s \in 1 .. i}
  <2>1. \A x : x \in A <=> (\E s \in 1 .. k : x = t.values[s]) \/ x = t.values[i]
    BY <1>1, <1>8 DEF v
  <2>2. \A x : x \in B <=> \E s \in 1 .. i : x = t.values[s]
    OBVIOUS
  <2> HIDE DEF A, B
  <2>3. \A x : x \in A <=> x \in B
    BY <2>1, <2>2, <1>11
  <2>4. A = B
    BY <2>3
  <2> QED BY <2>4 DEF A, B
<1> QED BY <1>1, <1>8, <1>10, <1>12 DEF Filled, u, v, N

\* After growth the set holds what every slot handed out held, has room and wastes no slot.
LEMMA GrownGood ==
  ASSUME NEW t, Good(t), t.bucketSize # 0
  PROVE  LET u == SetGrown(t) IN
         /\ Good(u) /\ Held(u) = {t.values[s] : s \in 1 .. t.currentValueIndex}
         /\ u.bucketSize > t.bucketSize /\ u.size = u.currentValueIndex
         /\ u.currentValueIndex < u.bucketSize
<1> DEFINE m == t.currentValueIndex
           N == t.bucketSize * SetGrowth
<1>1. m \in 0 .. t.bucketSize /\ t.bucketSize \in Nat
  BY DEF Good, Arrays
<1>2. N \in Nat /\ N > t.bucketSize
  BY <1>1, Wider
<1>3. PICK g : g = [s \in 0 .. m |-> EnterStep(g, t, s)] /\ SetGrown(t) = g[m]
  BY <1>1, GrownIs
<1> DEFINE T == {k \in Nat : k <= m => Filled(g[k], t, k)}
<1>4. 0 \in T
  <2>1. 0 \in 0 .. m
    BY <1>1
  <2>2. g[0] = EmptySet(N)
    BY <2>1, <1>3 DEF EnterStep
  <2>3. Good(g[0]) /\ Held(g[0]) = {} /\ g[0].bucketSize = N /\ g[0].size = 0 /\ g[0].currentValueIndex = 0
    BY <2>2, <1>2, EmptyGood
  <2>4. \A s : s \notin 1 .. 0
    OBVIOUS
  <2> HIDE DEF T, m
  <2>5. {t.values[s] : s \in 1 .. 0} = {}
    BY <2>4
  <2>6. Filled(g[0], t, 0)
    BY <2>3, <2>5 DEF Filled
  <2> QED BY <2>6 DEF T
<1>5. ASSUME NEW k \in Nat, k \in T PROVE k + 1 \in T
  <2> SUFFICES ASSUME k + 1 <= m PROVE Filled(g[k + 1], t, k + 1)
    OBVIOUS
  <2>1. Filled(g[k], t, k)
    BY <1>1, <1>5
  <2> DEFINE i == k + 1
  <2>2. i \in 0 .. m /\ i # 0 /\ i - 1 = k
    BY <1>1
  <2>3. g[i] = privateSetValue(g[k], t.values[i])
    BY <2>2, <1>3 DEF EnterStep
  <2>4. i = k + 1 /\ i <= m
    OBVIOUS
  <2> HIDE DEF i, T
  <2>5. Filled(g[i], t, i)
    BY <2>1, <2>3, <2>4, FilledNext
  <2> QED BY <2>5 DEF i
<1> HIDE DEF T
<1>6. Nat \subseteq T
  BY <1>4, <1>5, UpTo
<1>7. Filled(g[m], t, m)
  BY <1>1, <1>6 DEF T
<1> DEFINE u == SetGrown(t)
<1>8. /\ Good(u) /\ u.bucketSize = N /\ u.currentValueIndex <= m /\ u.size = u.currentValueIndex
      /\ Held(u) = {t.values[s] : s \in 1 .. m}
  BY <1>3, <1>7 DEF Filled
<1>9. u.currentValueIndex \in Nat
  BY <1>8 DEF Good, Arrays
<1> HIDE DEF u, N
<1>10. u.currentValueIndex < u.bucketSize /\ u.bucketSize > t.bucketSize
  BY <1>1, <1>2, <1>8, <1>9
<1> QED BY <1>8, <1>10 DEF u

\* What add() finds before it enters the value, grown or not.
LEMMA PreparedGood ==
  ASSUME NEW t, Good(t)
  PROVE  LET u == SetPrepared(t) IN
         /\ Good(u) /\ u.bucketSize # 0 /\ Held(t) \subseteq Held(u)
         /\ u.bucketSize = t.bucketSize => u = t
         /\ t.size = t.currentValueIndex => Held(u) = Held(t)
         /\ u.bucketSize # t.bucketSize \/ t.size = t.currentValueIndex
              => u.currentValueIndex < u.bucketSize /\ u.size = u.currentValueIndex
<1> DEFINE a == IF t.bucketSize = 0 THEN EmptySet(SetBuckets) ELSE t
           u == SetPrepared(t)
<1>1. t.bucketSize \in Nat /\ SetBuckets \in Nat \ {0} /\ t.currentValueIndex \in 0 .. t.bucketSize
  BY HashSetAssumption DEF Good, Arrays
<1>2. /\ Good(a) /\ a.bucketSize # 0 /\ Held(a) = Held(t)
      /\ a.bucketSize = t.bucketSize => a = t
      /\ t.bucketSize # 0 => a = t
      /\ t.size = t.currentValueIndex \/ t.bucketSize = 0 => a.size = a.currentValueIndex
  <2>1. CASE t.bucketSize # 0
    BY <2>1, <1>1
  <2>2. CASE t.bucketSize = 0
    <3>1. Good(a) /\ Held(a) = {} /\ a.bucketSize = SetBuckets /\ a.size = 0 /\ a.currentValueIndex = 0
      BY <2>2, <1>1, EmptyGood
    <3>2. LiveOf(t) \subseteq 1 .. 0
      BY <2>2, LiveFinite
    <3>3. Held(t) = {}
      BY <3>2 DEF Held
    <3> HIDE DEF a
    <3> QED BY <2>2, <3>1, <3>3, <1>1
  <2> QED BY <2>1, <2>2
<1>3. u = IF NeedsGrowth(a) THEN SetGrown(a) ELSE a
  BY DEF SetPrepared
<1> HIDE DEF a, u
<1>4. a.bucketSize \in Nat /\ a.size \in Nat /\ a.currentValueIndex \in Nat /\ a.bucketSize >= t.bucketSize
  <2>1. a.bucketSize \in Nat /\ a.size \in Nat /\ a.currentValueIndex \in Nat
    BY <1>2 DEF Good, Arrays
  <2> QED BY <2>1, <1>1, <1>2
<1>5. CASE NeedsGrowth(a)
  <2>1. u = SetGrown(a)
    BY <1>3, <1>5
  <2>2. /\ Good(u) /\ Held(u) = {a.values[s] : s \in 1 .. a.currentValueIndex}
        /\ u.bucketSize > a.bucketSize /\ u.size = u.currentValueIndex
        /\ u.currentValueIndex < u.bucketSize
    BY <1>2, <2>1, GrownGood
  <2>3. u.bucketSize \in Nat
    BY <2>2 DEF Good, Arrays
  <2>4. u.bucketSize # t.bucketSize /\ u.bucketSize # 0
    BY <1>1, <1>4, <2>2, <2>3
  <2>5. LiveOf(a) \subseteq 1 .. a.currentValueIndex
    BY <1>2 DEF Good
  <2>6. Held(a) \subseteq Held(u)
    BY <2>2, <2>5 DEF Held
  <2>7. ASSUME t.size = t.currentValueIndex PROVE Held(u) = Held(t)
    <3>1. LiveOf(a) = 1 .. a.currentValueIndex
      BY <2>7, <1>2, LiveFinite
    <3> QED BY <3>1, <2>2, <1>2 DEF Held
  <2> QED BY <1>2, <2>2, <2>4, <2>6, <2>7 DEF u
<1>6. CASE ~NeedsGrowth(a)
  <2>1. u = a
    BY <1>3, <1>6
  <2>2. a.size < a.bucketSize
    BY <1>2, <1>4, <1>6 DEF NeedsGrowth
  <2>3. u.bucketSize # t.bucketSize \/ t.size = t.currentValueIndex => u.size = u.currentValueIndex
    BY <2>1, <1>2, <1>1
  <2> QED BY <1>2, <2>1, <2>2, <2>3 DEF u
<1> QED BY <1>5, <1>6

-----------------------------------------------------------------------------
(* Removing.                                                               *)

\* u differs from t in the heads and the links only.
SameRest(u, t) ==
  /\ DOMAIN u = Fields /\ u.bucketSize = t.bucketSize /\ u.values = t.values
  /\ u.currentValueIndex = t.currentValueIndex /\ u.currentIndex = t.currentIndex /\ u.size = t.size

\* A slot leaves its chain; the other chains stay.
LEMMA UnlinkedGood ==
  ASSUME NEW t, Good(t), NEW b \in 0 .. t.bucketSize - 1, NEW s \in OnBucket(t, b)
  PROVE  LET u == SetUnlinked(t, s, b) IN
         /\ SameRest(u, t) /\ Sound(t.bucketSize, u.nextIndexes, u.valueIndexes)
         /\ u.valueIndexes \in [0 .. t.bucketSize - 1 -> 0 .. t.bucketSize]
         /\ u.nextIndexes \in [1 .. t.bucketSize -> 0 .. t.bucketSize]
         /\ OnBucket(u, b) = OnBucket(t, b) \ {s}
         /\ \A a \in 0 .. t.bucketSize - 1 : a # b => OnBucket(u, a) = OnBucket(t, a)
<1> DEFINE n == t.bucketSize
           u == SetUnlinked(t, s, b)
           H == t.valueIndexes
           next == t.nextIndexes
<1>1. n \in Nat /\ DOMAIN t = Fields /\ H \in [0 .. n - 1 -> 0 .. n] /\ next \in [1 .. n -> 0 .. n]
      /\ Sound(n, next, H)
  BY DEF Good, Arrays
<1>2. b \in 0 .. n - 1 /\ DOMAIN H = 0 .. n - 1 /\ b \in DOMAIN H
  BY <1>1
<1>3. \A a \in 0 .. n - 1 : OnBucket(t, a) = On(next, H[a])
  BY DEF OnBucket
<1>4. s \in On(next, H[b])
  BY <1>3
<1>5. On(next, H[b]) = ToSet(Chain(next, H[b]))
  BY DEF On
<1>6. On(next, H[b]) \subseteq 1 .. n
  <2> HIDE DEF H, n, next
  <2> QED BY <1>1, <1>2, SoundList
<1>7. s \in 1 .. n /\ next[s] \in 0 .. n
  BY <1>1, <1>4, <1>6
<1>8. CASE H[b] = s
  <2>1. u = [t EXCEPT !.valueIndexes[b] = next[s]]
    BY <1>8 DEF SetUnlinked
  <2>2. SameRest(u, t) /\ u.nextIndexes = next /\ Update(u.valueIndexes, H, b, next[s])
    BY <2>1, <1>1 DEF SameRest, Fields, Update
  <2> DEFINE G == u.valueIndexes
  <2> HIDE DEF G, H, n, next, u
  <2>3. G \in [0 .. n - 1 -> 0 .. n]
    <3>1. Update(G, H, b, next[s])
      BY <2>2 DEF G
    <3> QED BY <3>1, <1>1, <1>2, <1>7 DEF Update
  <2>4. /\ Sound(n, next, G) /\ On(next, G[b]) = On(next, H[b]) \ {H[b]}
        /\ \A a \in DOMAIN H : a # b => On(next, G[a]) = On(next, H[a])
    <3>1. Sound(n, next, H)
      BY <1>1
    <3>2. b \in DOMAIN H /\ H[b] # 0
      BY <1>2, <1>7, <1>8
    <3>3. Update(G, H, b, next[H[b]])
      BY <2>2, <1>8 DEF G
    <3> QED BY <3>1, <3>2, <3>3, DropFirst
  <2>5. \A a \in 0 .. n - 1 : OnBucket(u, a) = On(next, G[a])
    BY <2>2 DEF OnBucket, G
  <2>6. \A a \in 0 .. n - 1 : a # b => OnBucket(u, a) = OnBucket(t, a)
    BY <2>4, <2>5, <1>2, <1>3
  <2>7. OnBucket(u, b) = OnBucket(t, b) \ {s}
    BY <2>4, <2>5, <1>2, <1>3, <1>8
  <2> QED BY <2>2, <2>3, <2>4, <2>6, <2>7, <1>1 DEF G, n, u, next
<1>9. CASE H[b] # s
  <2> DEFINE p == CHOOSE x \in ToSet(Chain(next, H[b])) : next[x] = s
  <2>1. \E x \in On(next, H[b]) : next[x] = s
    <3> HIDE DEF H, n, next
    <3>1. Sound(n, next, H)
      BY <1>1
    <3>2. b \in DOMAIN H
      BY <1>2
    <3> QED BY <3>1, <3>2, <1>4, <1>9, Predecessor
  <2>2. p \in On(next, H[b]) /\ next[p] = s
    BY <2>1, <1>5
  <2>3. u = [t EXCEPT !.nextIndexes[p] = next[s]]
    BY <1>9 DEF SetUnlinked
  <2> HIDE DEF p
  <2>4. SameRest(u, t) /\ u.valueIndexes = H /\ Update(u.nextIndexes, next, p, next[s])
    BY <2>3, <1>1 DEF SameRest, Fields, Update
  <2> DEFINE next2 == u.nextIndexes
  <2>5. Update(next2, next, p, next[s]) /\ s = next[p] /\ s # 0
    BY <2>2, <2>4, <1>7
  <2> HIDE DEF H, n, next, next2, u
  <2>6. p \in 1 .. n
    BY <2>2, <1>6
  <2>7. /\ Sound(n, next2, H) /\ On(next2, H[b]) = On(next, H[b]) \ {s}
        /\ \A a \in DOMAIN H : a # b => On(next2, H[a]) = On(next, H[a])
    <3>1. Sound(n, next, H)
      BY <1>1
    <3>2. b \in DOMAIN H /\ p \in On(next, H[b])
      BY <1>2, <2>2
    <3> QED BY <2>5, <3>1, <3>2, DropLater
  <2>8. next2 \in [1 .. n -> 0 .. n]
    BY <2>5, <2>6, <1>1, <1>7 DEF Update
  <2>9. \A a \in 0 .. n - 1 : OnBucket(u, a) = On(next2, H[a])
    BY <2>4 DEF OnBucket, next2
  <2>10. \A a \in 0 .. n - 1 : a # b => OnBucket(u, a) = OnBucket(t, a)
    BY <2>7, <2>9, <1>2, <1>3
  <2>11. OnBucket(u, b) = OnBucket(t, b) \ {s}
    BY <2>7, <2>9, <1>2, <1>3
  <2> QED BY <2>4, <2>7, <2>8, <2>10, <2>11, <1>1 DEF n, u, next2
<1> QED BY <1>8, <1>9

\* So the set loses the value of the slot and no other.
LEMMA RemoveGood ==
  ASSUME NEW t, Good(t), NEW b \in 0 .. t.bucketSize - 1, NEW s \in OnBucket(t, b)
  PROVE  LET w == [SetUnlinked(t, s, b) EXCEPT !.size = @ - 1] IN
         Good(w) /\ Held(w) = Held(t) \ {t.values[s]} /\ w.bucketSize = t.bucketSize
<1> DEFINE n == t.bucketSize
           u == SetUnlinked(t, s, b)
           w == [u EXCEPT !.size = @ - 1]
<1>1. n \in Nat /\ Arrays(t) /\ t.size \in Nat /\ b \in 0 .. n - 1
  BY DEF Good, Arrays
<1>2. LiveOf(t) \subseteq 1 .. t.currentValueIndex /\ t.size = Cardinality(LiveOf(t)) /\ Entered(t)
      /\ Sound(n, t.nextIndexes, t.valueIndexes)
  BY DEF Good
<1>3. IsFiniteSet(LiveOf(t))
  BY LiveFinite
<1>4. \A x : x \in LiveOf(t) <=> \E a \in 0 .. n - 1 : x \in OnBucket(t, a)
  BY <1>1, LiveIs
<1>5. /\ SameRest(u, t) /\ Sound(n, u.nextIndexes, u.valueIndexes) /\ u.valueIndexes \in [0 .. n - 1 -> 0 .. n]
      /\ u.nextIndexes \in [1 .. n -> 0 .. n]
      /\ OnBucket(u, b) = OnBucket(t, b) \ {s}
      /\ \A a \in 0 .. n - 1 : a # b => OnBucket(u, a) = OnBucket(t, a)
  BY UnlinkedGood
<1> HIDE DEF n, u
<1>6. s \in LiveOf(t)
  BY <1>1, <1>4
<1>7. /\ DOMAIN w = Fields /\ w.bucketSize = n /\ w.valueIndexes = u.valueIndexes /\ w.nextIndexes = u.nextIndexes
      /\ w.values = t.values /\ w.currentValueIndex = t.currentValueIndex
      /\ w.currentIndex = t.currentIndex /\ w.size = t.size - 1
  BY <1>5 DEF SameRest, Fields, n
<1> HIDE DEF w
<1>8. \A a \in 0 .. n - 1 : OnBucket(w, a) = OnBucket(t, a) \ {s}
  <2> SUFFICES ASSUME NEW a \in 0 .. n - 1 PROVE OnBucket(w, a) = OnBucket(t, a) \ {s}
    OBVIOUS
  <2>1. OnBucket(w, a) = OnBucket(u, a)
    BY <1>7 DEF OnBucket
  <2>2. CASE a = b
    BY <2>1, <2>2, <1>5
  <2>3. CASE a # b
    <3>1. DOMAIN t.valueIndexes = 0 .. n - 1
      BY <1>1 DEF Arrays, n
    <3>2. OnBucket(t, a) \cap OnBucket(t, b) = {}
      <4> DEFINE H == t.valueIndexes
                 next == t.nextIndexes
      <4>1. Sound(n, next, H)
        BY <1>2
      <4>2. a \in DOMAIN H /\ b \in DOMAIN H
        BY <3>1, <1>1
      <4>3. OnBucket(t, a) = On(next, H[a]) /\ OnBucket(t, b) = On(next, H[b])
        BY DEF OnBucket
      <4> HIDE DEF H, next
      <4>4. On(next, H[a]) \cap On(next, H[b]) = {}
        BY <2>3, <4>1, <4>2, SoundApart
      <4> QED BY <4>3, <4>4
    <3>3. s \in OnBucket(t, b)
      OBVIOUS
    <3>4. s \notin OnBucket(t, a)
      BY <3>2, <3>3
    <3> QED BY <2>1, <2>3, <3>4, <1>5
  <2> QED BY <2>2, <2>3
<1>9. Cardinality(LiveOf(t) \ {s}) = Cardinality(LiveOf(t)) - 1
  BY <1>3, <1>6, FS_RemoveElement
<1>10. w.size \in Nat /\ w.size = Cardinality(LiveOf(t) \ {s})
  <2>1. Cardinality(LiveOf(t) \ {s}) \in Nat
    BY <1>3, FS_RemoveElement, FS_CardinalityType
  <2> QED BY <2>1, <1>2, <1>7, <1>9
<1>11. Arrays(w)
  BY <1>1, <1>5, <1>7, <1>10 DEF Arrays, n
<1>12. LiveOf(w) = LiveOf(t) \ {s}
  <2>1. \A x : x \in LiveOf(w) <=> \E a \in 0 .. n - 1 : x \in OnBucket(w, a)
    BY <1>7, <1>11, LiveIs
  <2>2. \A x : x \in LiveOf(w) <=> x \in LiveOf(t) /\ x # s
    BY <2>1, <1>4, <1>8
  <2> QED BY <2>2
<1>13. Entered(w)
  <2>1. \A x \in 1 .. w.currentValueIndex : w.values[x] \in Value
    BY <1>2, <1>7 DEF Entered
  <2>2. \A a \in 0 .. n - 1 : \A x \in OnBucket(w, a) : SetBucket(w, w.values[x]) = a
    BY <1>2, <1>7, <1>8 DEF Entered, SetBucket, n
  <2>3. \A x, y \in LiveOf(w) : w.values[x] = w.values[y] => x = y
    BY <1>2, <1>7, <1>12 DEF Entered
  <2> QED BY <2>1, <2>2, <2>3, <1>7 DEF Entered
<1>14. Good(w)
  BY <1>2, <1>5, <1>7, <1>10, <1>11, <1>12, <1>13 DEF Good
<1>15. Held(w) = Held(t) \ {t.values[s]}
  <2>1. \A x \in LiveOf(t) : t.values[x] = t.values[s] <=> x = s
    BY <1>2, <1>6 DEF Entered
  <2>2. \A y : y \in Held(w) <=> \E x \in LiveOf(t) : x # s /\ y = t.values[x]
    BY <1>7, <1>12 DEF Held
  <2>3. \A y : y \in Held(t) <=> \E x \in LiveOf(t) : y = t.values[x]
    BY DEF Held
  <2>4. \A y : y \in Held(w) <=> y \in Held(t) /\ y # t.values[s]
    BY <2>1, <2>2, <2>3
  <2> QED BY <2>4
<1> QED BY <1>7, <1>14, <1>15 DEF w, u, n

-----------------------------------------------------------------------------
(* The steps.                                                              *)

\* add(): the value is in, or it threw, and that only after a removal.
LEMMA AddStep ==
  ASSUME Good(hashSet), NEW v \in Value, add(v), threw => removed, removed \in BOOLEAN,
         members \subseteq Held(hashSet), ~removed => hashSet.size = hashSet.currentValueIndex
  PROVE  /\ Good(hashSet') /\ members' \subseteq Held(hashSet') /\ members' \subseteq members \cup {v}
         /\ ~removed' => hashSet'.size = hashSet'.currentValueIndex
         /\ threw' \in BOOLEAN /\ removed' \in BOOLEAN /\ (threw' => removed')
         /\ Held(hashSet) = members /\ ~(removed /\ hashSet'.bucketSize # hashSet.bucketSize) => Held(hashSet') = members'
<1> DEFINE t == SetPrepared(hashSet)
           full == ~Found(t, v) /\ t.currentValueIndex = t.bucketSize
           u == privateSetValue(t, v)
<1>1. /\ hashSet' = IF full THEN t ELSE u
      /\ members' = IF full THEN members ELSE members \cup {v}
      /\ removed' = IF t.bucketSize # hashSet.bucketSize THEN FALSE ELSE removed
      /\ threw' = full
  BY DEF add
<1>2. /\ Good(t) /\ t.bucketSize # 0 /\ Held(hashSet) \subseteq Held(t)
      /\ t.bucketSize = hashSet.bucketSize => t = hashSet
      /\ hashSet.size = hashSet.currentValueIndex => Held(t) = Held(hashSet)
      /\ t.bucketSize # hashSet.bucketSize \/ hashSet.size = hashSet.currentValueIndex
           => t.currentValueIndex < t.bucketSize /\ t.size = t.currentValueIndex
  BY PreparedGood
<1>3. t.currentValueIndex \in 0 .. t.bucketSize /\ t.bucketSize \in Nat /\ t.size \in Nat
  BY <1>2 DEF Good, Arrays
<1> HIDE DEF t
<1>4. CASE full
  <2>1. ~(t.currentValueIndex < t.bucketSize)
    BY <1>3, <1>4
  <2>2. t.bucketSize = hashSet.bucketSize /\ removed /\ t = hashSet
    BY <2>1, <1>2
  <2>3. hashSet' = hashSet /\ members' = members /\ removed' = removed /\ threw' = TRUE
    BY <1>1, <1>4, <2>2
  <2> QED BY <2>2, <2>3
<1>5. CASE ~full
  <2>1. ~Found(t, v) => t.currentValueIndex < t.bucketSize
    BY <1>3, <1>5
  <2>2. /\ Good(u) /\ Held(u) = Held(t) \cup {v} /\ u.bucketSize = t.bucketSize
        /\ u.currentValueIndex - u.size = t.currentValueIndex - t.size
    BY <1>2, <2>1, AddGood
  <2>3. u.currentValueIndex \in Nat /\ u.size \in Nat
    BY <2>2 DEF Good, Arrays
  <2>4. hashSet' = u /\ members' = members \cup {v} /\ threw' = FALSE
    BY <1>1, <1>5
  <2>5. removed' = IF t.bucketSize # hashSet.bucketSize THEN FALSE ELSE removed
    BY <1>1
  <2> HIDE DEF u, full
  <2>6. ~removed' => t.size = t.currentValueIndex
    BY <2>5, <1>2
  <2>7. ~removed' => hashSet'.size = hashSet'.currentValueIndex
    BY <2>2, <2>3, <2>4, <2>6, <1>3
  <2>8. ~(removed /\ hashSet'.bucketSize # hashSet.bucketSize) => Held(t) = Held(hashSet)
    BY <2>2, <2>4, <1>2
  <2>9. Good(hashSet') /\ Held(hashSet') = Held(t) \cup {v}
    BY <2>2, <2>4
  <2>10. threw' \in BOOLEAN /\ removed' \in BOOLEAN /\ (threw' => removed')
    BY <2>4, <2>5
  <2> QED BY <2>4, <2>7, <2>8, <2>9, <2>10, <1>2
<1> QED BY <1>4, <1>5

\* remove(): the value is out.
LEMMA RemoveStep ==
  ASSUME Good(hashSet), NEW v \in Value, removeValue(v)
  PROVE  Good(hashSet') /\ Held(hashSet') = Held(hashSet) \ {v} /\ hashSet'.bucketSize = hashSet.bucketSize
<1> DEFINE b == SetBucket(hashSet, v)
           s == CHOOSE k \in ToSet(Chain(hashSet.nextIndexes, hashSet.valueIndexes[b])) : hashSet.values[k] = v
           w == [SetUnlinked(hashSet, s, b) EXCEPT !.size = @ - 1]
<1>1. hashSet.bucketSize # 0 /\ Found(hashSet, v) /\ hashSet' = w
  BY DEF removeValue, has
<1>2. b \in 0 .. hashSet.bucketSize - 1
  BY <1>1, FoundIs
<1>3. s \in OnBucket(hashSet, b) /\ hashSet.values[s] = v
  BY <1>1 DEF Found, OnBucket, On
<1> HIDE DEF b, s
<1>4. Good(w) /\ Held(w) = Held(hashSet) \ {hashSet.values[s]} /\ w.bucketSize = hashSet.bucketSize
  BY <1>2, <1>3, RemoveGood
<1> HIDE DEF w
<1> QED BY <1>1, <1>3, <1>4

\* clear(): nothing is left, and no slot counts as handed out.
LEMMA ClearStep ==
  ASSUME Good(hashSet), clearSet
  PROVE  Good(hashSet') /\ Held(hashSet') = {} /\ hashSet'.size = hashSet'.currentValueIndex
<1> DEFINE n == hashSet.bucketSize
           u == [hashSet EXCEPT !.size = 0, !.currentValueIndex = 0, !.currentIndex = n,
                            !.valueIndexes = [b \in 0 .. n - 1 |-> 0]]
<1>1. hashSet' = u
  BY DEF clearSet
<1>2. Arrays(hashSet) /\ DOMAIN hashSet = Fields
  BY DEF Good, Arrays
<1>3. /\ DOMAIN u = Fields /\ u.bucketSize = n /\ u.size = 0 /\ u.currentValueIndex = 0 /\ u.currentIndex = n
      /\ u.valueIndexes = [b \in 0 .. n - 1 |-> 0]
      /\ u.nextIndexes = hashSet.nextIndexes /\ u.values = hashSet.values
  BY <1>2 DEF Fields
<1> HIDE DEF u, n
<1>4. n \in Nat /\ u.nextIndexes \in [1 .. n -> 0 .. n]
  BY <1>2, <1>3 DEF Arrays, n
<1>5. Arrays(u)
  BY <1>2, <1>3, <1>4 DEF Arrays, n
<1>6. Sound(n, u.nextIndexes, u.valueIndexes) /\ \A b \in 0 .. n - 1 : On(u.nextIndexes, u.valueIndexes[b]) = {}
  BY <1>3, <1>4, NoChains
<1>7. \A b \in 0 .. n - 1 : OnBucket(u, b) = {}
  BY <1>6 DEF OnBucket
<1>8. LiveOf(u) = {} /\ Held(u) = {}
  BY <1>3, <1>5, <1>7, LiveIs DEF Held
<1>9. Entered(u)
  BY <1>3, <1>7, <1>8 DEF Entered
<1>10. LiveOf(u) \subseteq 1 .. u.currentValueIndex /\ u.size = Cardinality(LiveOf(u))
  BY <1>3, <1>8, FS_EmptySet
<1>11. Good(u)
  BY <1>3, <1>5, <1>6, <1>9, <1>10 DEF Good
<1> QED BY <1>1, <1>3, <1>8, <1>11

-----------------------------------------------------------------------------
(* The invariant and the properties.                                       *)

\* Until a value is removed, every slot handed out is live; only then may add() throw.
IInv ==
  /\ Good(hashSet) /\ members \subseteq Held(hashSet) /\ members \subseteq Value
  /\ removed \in BOOLEAN /\ threw \in BOOLEAN /\ (threw => removed)
  /\ ~removed => hashSet.size = hashSet.currentValueIndex

\* A new set holds nothing.
LEMMA NewSetGood == SetInit => IInv
<1> SUFFICES ASSUME SetInit PROVE IInv
  OBVIOUS
<1>1. hashSet = EmptySet(0) /\ members = {} /\ removed = FALSE /\ threw = FALSE /\ 0 \in Nat
  BY DEF SetInit
<1>2. Good(hashSet) /\ hashSet.size = 0 /\ hashSet.currentValueIndex = 0
  BY <1>1, EmptyGood
<1> QED BY <1>1, <1>2 DEF IInv

\* Every operation keeps the invariant.
LEMMA SetStep == IInv /\ [SetNext]_setVars => IInv'
<1> SUFFICES ASSUME IInv, [SetNext]_setVars PROVE IInv'
  OBVIOUS
<1>1. ASSUME NEW v \in Value, add(v) PROVE IInv'
  BY <1>1, AddStep DEF IInv
<1>2. ASSUME NEW v \in Value, removeValue(v) PROVE IInv'
  <2>1. Good(hashSet') /\ Held(hashSet') = Held(hashSet) \ {v}
    BY <1>2, RemoveStep DEF IInv
  <2>2. members' = members \ {v} /\ removed' = TRUE /\ threw' = FALSE
    BY <1>2 DEF removeValue
  <2> QED BY <2>1, <2>2 DEF IInv
<1>3. CASE clearSet
  <2>1. Good(hashSet') /\ hashSet'.size = hashSet'.currentValueIndex
    BY <1>3, ClearStep DEF IInv
  <2>2. members' = {} /\ removed' = FALSE /\ threw' = FALSE
    BY <1>3 DEF clearSet
  <2> QED BY <2>1, <2>2 DEF IInv
<1>4. CASE UNCHANGED setVars
  BY <1>4 DEF IInv, setVars
<1> QED BY <1>1, <1>2, <1>3, <1>4 DEF SetNext

(* The chains share no slot, every slot handed out was written, a live one  *)
(* lies in the bucket of its value and no value has two.                    *)
THEOREM SetStaysGood == SetSpec => []IInv
<1>1. SetInit => IInv
  BY NewSetGood
<1>2. IInv /\ [SetNext]_setVars => IInv'
  BY SetStep
<1> QED BY <1>1, <1>2, PTL DEF SetSpec

\* The names of the properties for what the set holds.
LEMMA ContentIs == SetSlots = LiveOf(hashSet) /\ Content = Held(hashSet)
BY DEF SetSlots, LiveOf, Content, Held

\* As many values are held as slots are live.
LEMMA SizeIs ==
  ASSUME Good(hashSet)
  PROVE  Cardinality(Held(hashSet)) = Cardinality(LiveOf(hashSet))
<1> DEFINE S == LiveOf(hashSet)
           D == Held(hashSet)
           f == [s \in S |-> hashSet.values[s]]
<1>1. D = {hashSet.values[s] : s \in S}
  BY DEF Held
<1>2. \A r, s \in S : hashSet.values[r] = hashSet.values[s] => r = s
  BY DEF Good, Entered
<1>3. IsFiniteSet(S)
  BY LiveFinite
<1> HIDE DEF S, D
<1>4. f \in [S -> D] /\ \A x \in D : \E s \in S : f[s] = x
  BY <1>1
<1>5. IsInjective(f)
  BY <1>2 DEF IsInjective
<1> HIDE DEF f
<1>6. f \in Bijection(S, D)
  BY <1>4, <1>5 DEF Bijection, Injection, Surjection
<1>7. ExistsBijection(S, D)
  BY <1>6 DEF ExistsBijection
<1>8. Cardinality(D) = Cardinality(S)
  BY <1>3, <1>7, FS_Bijection
<1> QED BY <1>8 DEF D, S

\* The invariant implies ChainsSound.
LEMMA GoodIsSound == IInv => ChainsSound
<1> SUFFICES ASSUME IInv PROVE ChainsSound
  OBVIOUS
<1> DEFINE n == hashSet.bucketSize
           next == hashSet.nextIndexes
           heads == hashSet.valueIndexes
<1>1. Good(hashSet) /\ Arrays(hashSet) /\ n \in Nat /\ DOMAIN heads = 0 .. n - 1 /\ Sound(n, next, heads)
      /\ hashSet.size \in Nat /\ hashSet.currentValueIndex \in 0 .. n /\ Entered(hashSet)
      /\ LiveOf(hashSet) \subseteq 1 .. hashSet.currentValueIndex /\ hashSet.size = Cardinality(LiveOf(hashSet))
  BY DEF IInv, Good, Arrays
<1>2. hashSet.size \in 0 .. n
  BY <1>1, LiveFinite
<1>3. SetTypeOK
  BY <1>1, <1>2 DEF SetTypeOK, IInv, Arrays
<1>4. \A s \in SetSlots : s <= hashSet.currentValueIndex
  BY <1>1, ContentIs
<1>5. ASSUME NEW b \in DOMAIN heads, NEW s \in ToSet(Chain(next, heads[b]))
      PROVE  hashSet.values[s] \in Value /\ SetBucket(hashSet, hashSet.values[s]) = b
  <2>1. b \in 0 .. n - 1 /\ s \in OnBucket(hashSet, b)
    BY <1>1 DEF OnBucket, On
  <2>2. s \in LiveOf(hashSet)
    BY <2>1, <1>1, LiveIs
  <2> QED BY <2>1, <2>2, <1>1 DEF Entered
<1>6. Cardinality(Content) = Cardinality(SetSlots) /\ hashSet.size = Cardinality(Content)
  BY <1>1, SizeIs, ContentIs
<1>7. Disjoint(next, heads)
  <2> HIDE DEF n, next, heads
  <2>1. \A b \in DOMAIN heads : IsInjective(Chain(next, heads[b]))
    BY <1>1, SoundList
  <2>2. \A b, c \in DOMAIN heads : b # c => On(next, heads[b]) \cap On(next, heads[c]) = {}
    BY <1>1, SoundApart
  <2> QED BY <2>1, <2>2 DEF Disjoint, On
<1> QED BY <1>3, <1>4, <1>5, <1>6, <1>7 DEF ChainsSound

(* HashSet.aml: every chain ends, holds values of its bucket only, and each *)
(* value once; getSize is their number.                                     *)
THEOREM SetStaysSound == SetSpec => []ChainsSound
BY SetStaysGood, GoodIsSound, PTL

(* No chaining, unlinking or growing loses a member.                        *)
THEOREM SetLosesNothing == SetSpec => []NothingLost
<1>1. IInv => NothingLost
  BY ContentIs DEF IInv, NothingLost
<1> QED BY SetStaysGood, <1>1, PTL

\* Only a growth after a removal makes contents and members part.
LEMMA ExactStep ==
  ASSUME IInv, [SetNext]_setVars, Content = members, ~(removed /\ hashSet'.bucketSize # hashSet.bucketSize)
  PROVE  Content' = members'
<1>1. Held(hashSet) = members /\ Content' = Held(hashSet')
  BY ContentIs DEF SetSlots, LiveOf, Content, Held
<1>2. ASSUME NEW v \in Value, add(v) PROVE Held(hashSet') = members'
  BY <1>1, <1>2, AddStep DEF IInv
<1>3. ASSUME NEW v \in Value, removeValue(v) PROVE Held(hashSet') = members'
  <2>1. Held(hashSet') = Held(hashSet) \ {v}
    BY <1>3, RemoveStep DEF IInv
  <2> QED BY <2>1, <1>1, <1>3 DEF removeValue
<1>4. ASSUME clearSet PROVE Held(hashSet') = members'
  <2>1. Held(hashSet') = {}
    BY <1>4, ClearStep DEF IInv
  <2> QED BY <2>1, <1>4 DEF clearSet
<1>5. ASSUME UNCHANGED setVars PROVE Held(hashSet') = members'
  BY <1>1, <1>5 DEF setVars
<1> QED BY <1>1, <1>2, <1>3, <1>4, <1>5 DEF SetNext

(* A set that holds exactly its members does so after every step but a      *)
(* growth that follows a removal.                                           *)
THEOREM SetStaysExact == SetSpec => ExactBetweenGrowths
<1>1. IInv /\ [SetNext]_setVars =>
        [Content = members /\ ~(removed /\ hashSet'.bucketSize # hashSet.bucketSize) => Content' = members']_setVars
  BY ExactStep
<1> QED BY <1>1, SetStaysGood, PTL DEF SetSpec, ExactBetweenGrowths
=============================================================================
