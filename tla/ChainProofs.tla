----------------------------- MODULE ChainProofs -----------------------------
(***************************************************************************)
(* What walking, extending and cutting chains does, for tables of any      *)
(* size.  A chain that follows the links to 0 without meeting a slot twice *)
(* is what the walk finds; with that, the chains of a table are known      *)
(* before and after every change of a link.                                *)
(***************************************************************************)
EXTENDS Chains, FiniteSetTheorems, SequenceTheorems, TLAPS

\* A set that holds 0 and is closed under successors holds every number.
LEMMA UpTo ==
  ASSUME NEW T, 0 \in T, \A n \in Nat : n \in T => n + 1 \in T
  PROVE  Nat \subseteq T
<1> SUFFICES ASSUME Nat \ T # {} PROVE FALSE
  OBVIOUS
<1>1. PICK m \in Nat \ T : \A k \in Nat \ T : ~(<<k, m>> \in OpToRel(<, Nat))
  BY NatLessThanWellFounded, WFMin
<1>2. m - 1 \in Nat /\ m - 1 < m /\ m = (m - 1) + 1
  OBVIOUS
<1>3. <<m - 1, m>> \in OpToRel(<, Nat)
  BY <1>2 DEF OpToRel
<1>4. m - 1 \in T
  BY <1>1, <1>2, <1>3
<1> QED BY <1>2, <1>4

\* One step of the walk, given what the walk does with one step less.
OneStep(f, next, p) == IF p[1] = 0 \/ p[2] = 0 THEN <<>> ELSE <<p[2]>> \o f[<<p[1] - 1, next[p[2]]>>]

\* The walk is defined: by induction on the steps left, one more is one step before the rest.
LEMMA WalkExists ==
  ASSUME NEW n \in Nat, NEW next \in [1 .. n -> 0 .. n], NEW m \in Nat
  PROVE  \E g : g = [p \in (0 .. m) \X (0 .. n) |-> OneStep(g, next, p)]
<1> DEFINE D(k) == (0 .. k) \X (0 .. n)
           T == {k \in Nat : \E g : g = [p \in D(k) |-> OneStep(g, next, p)]}
<1>1. 0 \in T
  <2> DEFINE g == [p \in D(0) |-> <<>>]
  <2>1. g = [p \in D(0) |-> OneStep(g, next, p)]
    BY DEF OneStep
  <2> QED BY <2>1
<1>2. ASSUME NEW k \in Nat, k \in T PROVE k + 1 \in T
  <2>1. PICK g : g = [p \in D(k) |-> OneStep(g, next, p)]
    BY <1>2
  <2> DEFINE h == [p \in D(k + 1) |-> OneStep(g, next, p)]
  <2>2. ASSUME NEW p \in D(k + 1) PROVE OneStep(g, next, p) = OneStep(h, next, p)
    <3>1. CASE p[1] = 0 \/ p[2] = 0
      BY <3>1 DEF OneStep
    <3>2. CASE p[1] # 0 /\ p[2] # 0
      <4> DEFINE q == <<p[1] - 1, next[p[2]]>>
      <4>1. p[1] - 1 \in 0 .. k /\ p[2] \in 1 .. n
        BY <3>2
      <4>2. q \in D(k) /\ q \in D(k + 1)
        BY <4>1
      <4>3. g[q] = h[q]
        BY <4>2, <2>1
      <4> QED BY <3>2, <4>3 DEF OneStep
    <3> QED BY <3>1, <3>2
  <2>3. h = [p \in D(k + 1) |-> OneStep(h, next, p)]
    BY <2>2
  <2> HIDE DEF h
  <2> QED BY <2>3
<1> HIDE DEF T
<1>3. Nat \subseteq T
  BY <1>1, <1>2, UpTo
<1> QED BY <1>3 DEF T

\* So Walk obeys the equation that defines it.
LEMMA WalkStep ==
  ASSUME NEW n \in Nat, NEW next \in [1 .. n -> 0 .. n]
  PROVE  /\ Len(next) = n
         /\ Walk(next) = [p \in (0 .. n + 1) \X (0 .. n) |-> OneStep(Walk(next), next, p)]
<1>1. Len(next) = n
  <2>1. next \in Seq(0 .. n)
    BY SeqDef
  <2>2. DOMAIN next = 1 .. Len(next) /\ Len(next) \in Nat
    BY <2>1, LenProperties
  <2> QED BY <2>2
<1>2. PICK g : g = [p \in (0 .. n + 1) \X (0 .. n) |-> OneStep(g, next, p)]
  <2> n + 1 \in Nat
    OBVIOUS
  <2> QED BY WalkExists
<1>3. Walk(next) = [p \in (0 .. n + 1) \X (0 .. n) |-> OneStep(Walk(next), next, p)]
  BY <1>1, <1>2 DEF Walk, OneStep
<1> QED BY <1>1, <1>3

\* c follows the links from head, and ends where they end.
Path(c, next, head) ==
  /\ head = IF Len(c) = 0 THEN 0 ELSE c[1]
  /\ \A i \in 1 .. Len(c) : next[c[i]] = IF i = Len(c) THEN 0 ELSE c[i + 1]

\* What follows the first element of a path is a path.
LEMMA PathTail ==
  ASSUME NEW next, NEW d, NEW e, NEW r, Len(d) \in Nat, Len(d) > 0, Len(e) = Len(d) - 1,
         \A i \in 1 .. Len(e) : e[i] = d[i + 1], Path(d, next, r)
  PROVE  Path(e, next, next[r])
<1>1. r = d[1]
  BY DEF Path
<1>2. \A i \in 1 .. Len(d) : next[d[i]] = IF i = Len(d) THEN 0 ELSE d[i + 1]
  BY DEF Path
<1>3. next[r] = IF Len(e) = 0 THEN 0 ELSE e[1]
  <2>1. next[d[1]] = IF 1 = Len(d) THEN 0 ELSE d[2]
    BY <1>2
  <2>2. Len(e) # 0 => e[1] = d[2]
    OBVIOUS
  <2> QED BY <1>1, <2>1, <2>2
<1>4. ASSUME NEW i \in 1 .. Len(e) PROVE next[e[i]] = IF i = Len(e) THEN 0 ELSE e[i + 1]
  <2>1. e[i] = d[i + 1] /\ i + 1 \in 1 .. Len(d)
    OBVIOUS
  <2>2. next[d[i + 1]] = IF i + 1 = Len(d) THEN 0 ELSE d[(i + 1) + 1]
    BY <1>2, <2>1
  <2>3. i # Len(e) => e[i + 1] = d[(i + 1) + 1]
    OBVIOUS
  <2> QED BY <2>1, <2>2, <2>3
<1> QED BY <1>3, <1>4 DEF Path

\* A walk with steps enough returns the path, if there is one.
LEMMA WalkIsPath ==
  ASSUME NEW n \in Nat, NEW next \in [1 .. n -> 0 .. n], NEW left \in 0 .. n + 1,
         NEW c \in Seq(1 .. n), NEW s \in 0 .. n, Len(c) <= left, Path(c, next, s)
  PROVE  Walk(next)[<<left, s>>] = c
<1> DEFINE T == {k \in Nat : k <= n + 1 => \A d \in Seq(1 .. n), r \in 0 .. n :
                   Len(d) <= k /\ Path(d, next, r) => Walk(next)[<<k, r>>] = d}
<1>0. Walk(next) = [p \in (0 .. n + 1) \X (0 .. n) |-> OneStep(Walk(next), next, p)]
  BY WalkStep
<1>1. \A k \in 0 .. n + 1, r \in 0 .. n :
        /\ k = 0 \/ r = 0 => Walk(next)[<<k, r>>] = <<>>
        /\ k # 0 /\ r # 0 => Walk(next)[<<k, r>>] = <<r>> \o Walk(next)[<<k - 1, next[r]>>]
  <2> SUFFICES ASSUME NEW k \in 0 .. n + 1, NEW r \in 0 .. n
      PROVE  /\ k = 0 \/ r = 0 => Walk(next)[<<k, r>>] = <<>>
             /\ k # 0 /\ r # 0 => Walk(next)[<<k, r>>] = <<r>> \o Walk(next)[<<k - 1, next[r]>>]
    OBVIOUS
  <2>1. <<k, r>> \in (0 .. n + 1) \X (0 .. n)
    OBVIOUS
  <2>2. Walk(next)[<<k, r>>] = OneStep(Walk(next), next, <<k, r>>)
    BY <2>1, <1>0
  <2> QED BY <2>2 DEF OneStep
<1>2. 0 \in T
  <2> SUFFICES ASSUME NEW d \in Seq(1 .. n), NEW r \in 0 .. n, Len(d) <= 0
               PROVE  Walk(next)[<<0, r>>] = d
    OBVIOUS
  <2>1. d = <<>>
    BY EmptySeq
  <2>2. 0 \in 0 .. n + 1
    OBVIOUS
  <2>3. Walk(next)[<<0, r>>] = <<>>
    BY <1>1, <2>2
  <2> QED BY <2>1, <2>3
<1>3. ASSUME NEW k \in Nat, k \in T PROVE k + 1 \in T
  <2> SUFFICES ASSUME k + 1 <= n + 1, NEW d \in Seq(1 .. n), NEW r \in 0 .. n,
                      Len(d) <= k + 1, Path(d, next, r)
               PROVE  Walk(next)[<<k + 1, r>>] = d
    OBVIOUS
  <2>1. CASE d = <<>>
    <3>1. r = 0
      BY <2>1, EmptySeq DEF Path
    <3>2. k + 1 \in 0 .. n + 1
      OBVIOUS
    <3>3. Walk(next)[<<k + 1, r>>] = <<>>
      BY <1>1, <3>1, <3>2
    <3> QED BY <3>3, <2>1
  <2>2. CASE d # <<>>
    <3>1. Len(d) \in Nat /\ Len(d) > 0
      BY <2>2, EmptySeq
    <3>2. r = d[1] /\ r \in 1 .. n
      BY <3>1, ElementOfSeq DEF Path
    <3>3. /\ Tail(d) \in Seq(1 .. n) /\ Len(Tail(d)) = Len(d) - 1
          /\ \A i \in 1 .. Len(Tail(d)) : Tail(d)[i] = d[i + 1]
      BY <2>2, HeadTailProperties
    <3>4. Path(Tail(d), next, next[r])
      BY <3>1, <3>2, <3>3, PathTail
    <3>5. Walk(next)[<<k, next[r]>>] = Tail(d)
      <4>1. k <= n + 1 /\ next[r] \in 0 .. n /\ Len(Tail(d)) <= k
        BY <3>1, <3>2, <3>3
      <4> QED BY <1>3, <4>1, <3>3, <3>4
    <3>6. Walk(next)[<<k + 1, r>>] = <<r>> \o Tail(d)
      <4>1. k + 1 \in 0 .. n + 1 /\ k + 1 # 0 /\ r # 0 /\ (k + 1) - 1 = k
        BY <3>2
      <4>2. Walk(next)[<<k + 1, r>>] = <<r>> \o Walk(next)[<<(k + 1) - 1, next[r]>>]
        BY <4>1, <1>1
      <4> QED BY <4>1, <4>2, <3>5
    <3>7. <<r>> \o Tail(d) = d
      BY <3>1, <3>2, <3>3, SeqEqual, ConcatProperties
    <3> QED BY <3>6, <3>7
  <2> QED BY <2>1, <2>2
<1> HIDE DEF T
<1>4. Nat \subseteq T
  BY <1>2, <1>3, UpTo
<1>5. left \in T
  BY <1>4
<1> QED BY <1>5 DEF T

\* 1 .. k has k elements.
LEMMA UpToCard ==
  ASSUME NEW k \in Nat
  PROVE  IsFiniteSet(1 .. k) /\ Cardinality(1 .. k) = k
<1>1. IsFiniteSet(1 .. k) /\ Cardinality(1 .. k) = IF 1 > k THEN 0 ELSE k - 1 + 1
  BY FS_Interval
<1> QED BY <1>1

\* A path without repetitions fits in the steps the walk has, so it is the chain.
LEMMA ChainIsPath ==
  ASSUME NEW n \in Nat, NEW next \in [1 .. n -> 0 .. n], NEW head \in 0 .. n,
         NEW c \in Seq(1 .. n), IsInjective(c), Path(c, next, head)
  PROVE  Chain(next, head) = c
<1>1. Len(c) \in Nat /\ c \in [1 .. Len(c) -> 1 .. n] /\ DOMAIN c = 1 .. Len(c)
  BY LenProperties
<1>2. c \in Injection(1 .. Len(c), 1 .. n)
  BY <1>1 DEF Injection
<1>3. Len(c) <= n
  <2>1. Cardinality(1 .. Len(c)) <= n
    BY <1>2, UpToCard, FS_Injection
  <2>2. Cardinality(1 .. Len(c)) = Len(c)
    BY <1>1, UpToCard
  <2> QED BY <2>1, <2>2
<1>4. Walk(next)[<<n + 1, head>>] = c
  <2>1. n + 1 \in 0 .. n + 1 /\ Len(c) <= n + 1
    BY <1>1, <1>3
  <2> QED BY <2>1, WalkIsPath
<1>5. Len(next) = n
  BY WalkStep
<1> QED BY <1>4, <1>5 DEF Chain

-----------------------------------------------------------------------------
(* The chains of a table together: they end, and meet no slot twice.       *)

Lists(next, heads) == [b \in DOMAIN heads |-> Chain(next, heads[b])]

Apart(L) == \A b, c \in DOMAIN L : \A i \in 1 .. Len(L[b]), j \in 1 .. Len(L[c]) :
              L[b][i] = L[c][j] => b = c /\ i = j

Fits(L, n, next, heads) ==
  /\ L \in [DOMAIN heads -> Seq(1 .. n)]
  /\ \A b \in DOMAIN heads : Path(L[b], next, heads[b])
  /\ Apart(L)

Table(n, next, heads) ==
  /\ n \in Nat /\ next \in [1 .. n -> 0 .. n] /\ heads \in [DOMAIN heads -> 0 .. n]

Sound(n, next, heads) == Table(n, next, heads) /\ Fits(Lists(next, heads), n, next, heads)

On(next, head) == ToSet(Chain(next, head))

Elements(c) == {c[i] : i \in 1 .. Len(c)}

\* Paths without repetitions and without common elements, one per bucket, are the chains.
LEMMA ListsAre ==
  ASSUME NEW n, NEW next, NEW heads, Table(n, next, heads), NEW L, Fits(L, n, next, heads)
  PROVE  /\ Lists(next, heads) = L
         /\ Sound(n, next, heads)
         /\ \A b \in DOMAIN heads : Chain(next, heads[b]) = L[b]
<1>1. ASSUME NEW b \in DOMAIN heads PROVE Chain(next, heads[b]) = L[b]
  <2>1. L[b] \in Seq(1 .. n) /\ Path(L[b], next, heads[b]) /\ heads[b] \in 0 .. n /\ DOMAIN L = DOMAIN heads
    BY DEF Fits, Table
  <2>2. DOMAIN L[b] = 1 .. Len(L[b])
    BY <2>1, LenProperties
  <2>3. IsInjective(L[b])
    BY <2>1, <2>2 DEF Fits, Apart, IsInjective
  <2> QED BY <2>1, <2>3, ChainIsPath DEF Table
<1>2. Lists(next, heads) = L
  BY <1>1 DEF Lists, Fits
<1> QED BY <1>1, <1>2 DEF Sound

\* The chains of a sound table, one by one.
LEMMA SoundList ==
  ASSUME NEW n, NEW next, NEW heads, Sound(n, next, heads), NEW b \in DOMAIN heads
  PROVE  /\ n \in Nat /\ next \in [1 .. n -> 0 .. n] /\ heads \in [DOMAIN heads -> 0 .. n]
         /\ heads[b] \in 0 .. n
         /\ Chain(next, heads[b]) \in Seq(1 .. n)
         /\ Len(Chain(next, heads[b])) \in Nat
         /\ DOMAIN Chain(next, heads[b]) = 1 .. Len(Chain(next, heads[b]))
         /\ Path(Chain(next, heads[b]), next, heads[b])
         /\ IsInjective(Chain(next, heads[b]))
         /\ On(next, heads[b]) = Elements(Chain(next, heads[b]))
         /\ On(next, heads[b]) \subseteq 1 .. n
<1>1. Lists(next, heads)[b] = Chain(next, heads[b]) /\ DOMAIN Lists(next, heads) = DOMAIN heads
  BY DEF Lists
<1>2. n \in Nat /\ next \in [1 .. n -> 0 .. n] /\ heads \in [DOMAIN heads -> 0 .. n] /\ heads[b] \in 0 .. n
  BY DEF Sound, Table
<1>3. Chain(next, heads[b]) \in Seq(1 .. n) /\ Path(Chain(next, heads[b]), next, heads[b])
  BY <1>1 DEF Sound, Fits
<1>4. /\ Len(Chain(next, heads[b])) \in Nat
      /\ DOMAIN Chain(next, heads[b]) = 1 .. Len(Chain(next, heads[b]))
      /\ \A i \in 1 .. Len(Chain(next, heads[b])) : Chain(next, heads[b])[i] \in 1 .. n
  BY <1>3, LenProperties, ElementOfSeq
<1>5. IsInjective(Chain(next, heads[b]))
  BY <1>1, <1>4 DEF IsInjective, Sound, Fits, Apart
<1>6. On(next, heads[b]) = Elements(Chain(next, heads[b]))
  BY <1>4 DEF On, ToSet, Elements
<1>7. On(next, heads[b]) \subseteq 1 .. n
  BY <1>4, <1>6 DEF Elements
<1> QED BY <1>2, <1>3, <1>4, <1>5, <1>6, <1>7

\* No slot is on two chains.
LEMMA SoundApart ==
  ASSUME NEW n, NEW next, NEW heads, Sound(n, next, heads), NEW b \in DOMAIN heads, NEW c \in DOMAIN heads, b # c
  PROVE  On(next, heads[b]) \cap On(next, heads[c]) = {}
<1>1. /\ Lists(next, heads)[b] = Chain(next, heads[b]) /\ Lists(next, heads)[c] = Chain(next, heads[c])
      /\ DOMAIN Lists(next, heads) = DOMAIN heads
  BY DEF Lists
<1>2. \A i \in 1 .. Len(Chain(next, heads[b])), j \in 1 .. Len(Chain(next, heads[c])) :
        Chain(next, heads[b])[i] # Chain(next, heads[c])[j]
  BY <1>1 DEF Sound, Fits, Apart
<1>3. On(next, heads[b]) = Elements(Chain(next, heads[b])) /\ On(next, heads[c]) = Elements(Chain(next, heads[c]))
  BY SoundList
<1> QED BY <1>2, <1>3 DEF Elements

\* A chain is empty exactly when its head is 0, and holds its head otherwise.
LEMMA SoundHead ==
  ASSUME NEW n, NEW next, NEW heads, Sound(n, next, heads), NEW b \in DOMAIN heads
  PROVE  /\ heads[b] = 0 <=> On(next, heads[b]) = {}
         /\ heads[b] # 0 => heads[b] \in On(next, heads[b])
<1> DEFINE c == Chain(next, heads[b])
<1>1. /\ Len(c) \in Nat /\ c \in Seq(1 .. n) /\ Path(c, next, heads[b]) /\ n \in Nat
      /\ On(next, heads[b]) = Elements(c)
  BY SoundList
<1> HIDE DEF c
<1>2. heads[b] = IF Len(c) = 0 THEN 0 ELSE c[1]
  BY <1>1 DEF Path
<1>3. CASE Len(c) = 0
  BY <1>1, <1>2, <1>3 DEF Elements
<1>4. CASE Len(c) # 0
  <2>1. 1 \in 1 .. Len(c)
    BY <1>4, <1>1
  <2>2. c[1] \in 1 .. n
    BY <2>1, <1>1, ElementOfSeq
  <2> QED BY <1>4, <1>1, <1>2, <2>1, <2>2 DEF Elements
<1> QED BY <1>3, <1>4

\* Empty chains.
LEMMA NoChains ==
  ASSUME NEW n \in Nat, NEW next \in [1 .. n -> 0 .. n], NEW heads, NEW I, heads = [b \in I |-> 0]
  PROVE  Sound(n, next, heads) /\ \A b \in I : Chain(next, heads[b]) = <<>> /\ On(next, heads[b]) = {}
<1> DEFINE L == [b \in I |-> <<>>]
<1>1. Table(n, next, heads)
  BY DEF Table
<1>2. Len(<<>>) = 0 /\ <<>> \in Seq(1 .. n)
  BY EmptySeq
<1>3. Path(<<>>, next, 0)
  BY <1>2 DEF Path
<1>4. Fits(L, n, next, heads)
  <2>1. Apart(L)
    BY <1>2 DEF Apart
  <2> QED BY <1>2, <1>3, <2>1 DEF Fits
<1>5. Sound(n, next, heads) /\ \A b \in I : Chain(next, heads[b]) = L[b]
  BY <1>1, <1>4, ListsAre
<1>6. ToSet(<<>>) = {}
  BY <1>2 DEF ToSet
<1> QED BY <1>5, <1>6 DEF On

-----------------------------------------------------------------------------
(* A slot that is on no chain becomes the head of one.                     *)

\* A path depends on the links of its elements only.
LEMMA PathFrame ==
  ASSUME NEW c, NEW next, NEW next2, NEW head, Path(c, next, head),
         \A i \in 1 .. Len(c) : next2[c[i]] = next[c[i]]
  PROVE  Path(c, next2, head)
BY DEF Path

\* d is c with s before it.
Prefixed(d, s, c) ==
  /\ Len(d) = Len(c) + 1 /\ Len(c) \in Nat
  /\ \A i \in 1 .. Len(d) : d[i] = IF i = 1 THEN s ELSE c[i - 1]

\* A sequence with one more element before it.
LEMMA ConsIs ==
  ASSUME NEW S, NEW c \in Seq(S), NEW s \in S
  PROVE  <<s>> \o c \in Seq(S) /\ Prefixed(<<s>> \o c, s, c)
<1> DEFINE d == <<s>> \o c
<1>1. <<s>> \in Seq(S) /\ Len(<<s>>) = 1 /\ <<s>>[1] = s
  OBVIOUS
<1>2. d \in Seq(S) /\ Len(d) = Len(c) + 1 /\ Len(c) \in Nat
  <2>1. d \in Seq(S) /\ Len(d) = 1 + Len(c)
    <3> <<s>> \o c \in Seq(S) /\ Len(<<s>> \o c) = Len(<<s>>) + Len(c)
      BY <1>1, ConcatProperties
    <3> QED BY <1>1
  <2>2. Len(c) \in Nat
    BY LenProperties
  <2> QED BY <2>1, <2>2
<1>3. ASSUME NEW i \in 1 .. Len(d) PROVE d[i] = IF i = 1 THEN s ELSE c[i - 1]
  <2>1. i \in 1 .. 1 + Len(c)
    BY <1>2
  <2>2. d[i] = IF i <= 1 THEN <<s>>[i] ELSE c[i - 1]
    <3>1. \A k \in 1 .. Len(<<s>>) + Len(c) : (<<s>> \o c)[k] = IF k <= Len(<<s>>) THEN <<s>>[k] ELSE c[k - Len(<<s>>)]
      BY <1>1, ConcatProperties
    <3> QED BY <3>1, <1>1, <2>1
  <2> QED BY <2>1, <2>2, <1>1, <1>2
<1> QED BY <1>2, <1>3 DEF Prefixed

\* A slot that links to the head of a path makes a path with it.
LEMMA PathCons ==
  ASSUME NEW c, NEW s, NEW d, Prefixed(d, s, c),
         NEW next, NEW head, Path(c, next, head), next[s] = head
  PROVE  Path(d, next, s)
<1>2. Len(d) = Len(c) + 1 /\ Len(c) \in Nat
  BY DEF Prefixed
<1>3. \A i \in 1 .. Len(d) : d[i] = IF i = 1 THEN s ELSE c[i - 1]
  BY DEF Prefixed
<1>4. head = IF Len(c) = 0 THEN 0 ELSE c[1]
  BY DEF Path
<1>5. \A i \in 1 .. Len(c) : next[c[i]] = IF i = Len(c) THEN 0 ELSE c[i + 1]
  BY DEF Path
<1>6. ASSUME NEW i \in 1 .. Len(d) PROVE next[d[i]] = IF i = Len(d) THEN 0 ELSE d[i + 1]
  <2>1. CASE i = 1
    <3>1. Len(c) # 0 => d[2] = c[1]
      <4>1. Len(c) # 0 => 2 \in 1 .. Len(d) /\ 2 # 1 /\ 2 - 1 = 1
        BY <1>2
      <4> QED BY <4>1, <1>3
    <3>2. d[1] = s
      BY <1>2, <1>3
    <3> QED BY <2>1, <3>1, <3>2, <1>2, <1>4
  <2>2. CASE i # 1
    <3>1. i - 1 \in 1 .. Len(c) /\ (i - 1) + 1 = i
      BY <1>2, <2>2
    <3>2. d[i] = c[i - 1]
      BY <2>2, <1>3
    <3>3. next[d[i]] = IF i - 1 = Len(c) THEN 0 ELSE c[i]
      BY <3>1, <3>2, <1>5
    <3>4. i # Len(d) => d[i + 1] = c[i]
      <4>1. i # Len(d) => i + 1 \in 1 .. Len(d) /\ i + 1 # 1 /\ (i + 1) - 1 = i
        BY <1>2
      <4> QED BY <4>1, <1>3
    <3> QED BY <3>3, <3>4, <1>2
  <2> QED BY <2>1, <2>2
<1>7. s = IF Len(d) = 0 THEN 0 ELSE d[1]
  BY <1>2, <1>3
<1>8. Path(d, next, s)
  BY <1>6, <1>7 DEF Path
<1> QED BY <1>8

\* The elements of a sequence with one more before it.
LEMMA ElementsCons ==
  ASSUME NEW c, NEW d, NEW s, Prefixed(d, s, c)
  PROVE  Elements(d) = Elements(c) \cup {s}
<1>0. /\ Len(c) \in Nat /\ Len(d) = Len(c) + 1
      /\ \A i \in 1 .. Len(d) : d[i] = IF i = 1 THEN s ELSE c[i - 1]
  BY DEF Prefixed
<1>1. \A i \in 1 .. Len(c) : i + 1 \in 1 .. Len(d) /\ i + 1 # 1 /\ (i + 1) - 1 = i
  BY <1>0
<1>2. \A i \in 1 .. Len(c) : d[i + 1] = c[i]
  BY <1>0, <1>1
<1>3. \A i \in 1 .. Len(d) : i # 1 => i - 1 \in 1 .. Len(c) /\ d[i] = c[i - 1]
  BY <1>0
<1>4. 1 \in 1 .. Len(d) /\ d[1] = s
  BY <1>0
<1>5. \A x \in Elements(c) : x \in Elements(d)
  BY <1>1, <1>2 DEF Elements
<1>6. s \in Elements(d)
  BY <1>4 DEF Elements
<1>7. \A x \in Elements(d) : x = s \/ x \in Elements(c)
  BY <1>3, <1>4 DEF Elements
<1> QED BY <1>5, <1>6, <1>7

\* g is f changed at x to v.
Update(g, f, x, v) == g = [f EXCEPT ![x] = v]

\* A slot that no chain holds becomes the head of one; the others stay.
LEMMA Push ==
  ASSUME NEW n, NEW next, NEW heads, Sound(n, next, heads), NEW b \in DOMAIN heads, NEW s \in 1 .. n,
         \A a \in DOMAIN heads : s \notin On(next, heads[a]),
         NEW next2, Update(next2, next, s, heads[b]), NEW heads2, Update(heads2, heads, b, s)
  PROVE  /\ Sound(n, next2, heads2)
         /\ On(next2, heads2[b]) = On(next, heads[b]) \cup {s}
         /\ \A a \in DOMAIN heads : a # b => On(next2, heads2[a]) = On(next, heads[a])
<1> DEFINE L == Lists(next, heads)
           c == Chain(next, heads[b])
           d == <<s>> \o c
           M == [L EXCEPT ![b] = d]
<1>1. n \in Nat /\ next \in [1 .. n -> 0 .. n] /\ heads \in [DOMAIN heads -> 0 .. n]
  BY DEF Sound, Table
<1>2. /\ next2 \in [1 .. n -> 0 .. n] /\ next2[s] = heads[b] /\ \A x \in 1 .. n : x # s => next2[x] = next[x]
      /\ heads2 \in [DOMAIN heads -> 0 .. n] /\ DOMAIN heads2 = DOMAIN heads
      /\ heads2[b] = s /\ \A a \in DOMAIN heads : a # b => heads2[a] = heads[a]
  <2>1. heads[b] \in 0 .. n /\ s \in 0 .. n
    BY <1>1
  <2>2. /\ next2 \in [1 .. n -> 0 .. n] /\ next2[s] = heads[b]
        /\ \A x \in 1 .. n : x # s => next2[x] = next[x]
    BY <1>1, <2>1 DEF Update
  <2>3. /\ heads2 \in [DOMAIN heads -> 0 .. n] /\ DOMAIN heads2 = DOMAIN heads
        /\ heads2[b] = s /\ \A a \in DOMAIN heads : a # b => heads2[a] = heads[a]
    BY <1>1, <2>1 DEF Update
  <2> QED BY <2>2, <2>3
<1>3. ASSUME NEW a \in DOMAIN heads
      PROVE  /\ L[a] = Chain(next, heads[a]) /\ L[a] \in Seq(1 .. n) /\ Path(L[a], next, heads[a])
             /\ Len(L[a]) \in Nat
             /\ On(next, heads[a]) = Elements(L[a])
             /\ \A i \in 1 .. Len(L[a]) : L[a][i] # s
             /\ Path(L[a], next2, heads[a])
  <2>1. L[a] = Chain(next, heads[a])
    BY DEF Lists
  <2>2. /\ L[a] \in Seq(1 .. n) /\ Path(L[a], next, heads[a]) /\ Len(L[a]) \in Nat
        /\ On(next, heads[a]) = Elements(L[a])
    BY <2>1, SoundList
  <2>3. \A i \in 1 .. Len(L[a]) : L[a][i] # s
    BY <2>2 DEF Elements
  <2>4. \A i \in 1 .. Len(L[a]) : L[a][i] \in 1 .. n
    BY <2>2, ElementOfSeq
  <2>5. \A i \in 1 .. Len(L[a]) : next2[L[a][i]] = next[L[a][i]]
    BY <2>3, <2>4, <1>2
  <2>6. Path(L[a], next2, heads[a])
    BY <2>2, <2>5, PathFrame
  <2> QED BY <2>1, <2>2, <2>3, <2>6
<1>5. L[b] = c
  BY DEF Lists
<1>6. d \in Seq(1 .. n) /\ Prefixed(d, s, c) /\ Path(d, next2, s)
  <2>1. c \in Seq(1 .. n) /\ Path(c, next2, heads[b])
    BY <1>3, <1>5
  <2>2. d \in Seq(1 .. n) /\ Prefixed(d, s, c)
    BY <2>1, ConsIs
  <2> HIDE DEF c, d
  <2> QED BY <2>1, <2>2, <1>2, PathCons
<1>7. DOMAIN L = DOMAIN heads /\ M \in [DOMAIN heads -> Seq(1 .. n)] /\ M[b] = d
      /\ \A a \in DOMAIN heads : a # b => M[a] = L[a]
  <2>1. DOMAIN L = DOMAIN heads /\ L = [a \in DOMAIN heads |-> L[a]]
    BY DEF Lists
  <2> HIDE DEF L, d
  <2> QED BY <2>1, <1>3, <1>6
<1> HIDE DEF L, c, d, M
<1>8. ASSUME NEW a \in DOMAIN heads PROVE Path(M[a], next2, heads2[a])
  <2>1. CASE a = b
    BY <2>1, <1>2, <1>6, <1>7
  <2>2. CASE a # b
    BY <2>2, <1>2, <1>3, <1>7
  <2> QED BY <2>1, <2>2
<1>9. Apart(L)
  BY DEF Sound, Fits, L
<1>10. Apart(M)
  <2> SUFFICES ASSUME NEW x \in DOMAIN heads, NEW y \in DOMAIN heads,
                      NEW i \in 1 .. Len(M[x]), NEW j \in 1 .. Len(M[y]), M[x][i] = M[y][j]
               PROVE  x = y /\ i = j
    BY <1>7 DEF Apart
  <2>0. /\ Len(c) \in Nat /\ Len(d) = Len(c) + 1
        /\ \A k \in 1 .. Len(d) : d[k] = IF k = 1 THEN s ELSE c[k - 1]
    BY <1>6 DEF Prefixed
  <2>1. CASE x # b /\ y # b
    BY <2>1, <1>7, <1>9 DEF Apart
  <2>2. CASE x = b /\ y # b
    <3>1. i # 1 /\ i - 1 \in 1 .. Len(c) /\ M[x][i] = c[i - 1] /\ M[y] = L[y]
      BY <2>2, <1>3, <2>0, <1>7
    <3> QED BY <2>2, <3>1, <1>5, <1>7, <1>9 DEF Apart
  <2>3. CASE x # b /\ y = b
    <3>1. j # 1 /\ j - 1 \in 1 .. Len(c) /\ M[y][j] = c[j - 1] /\ M[x] = L[x]
      BY <2>3, <1>3, <2>0, <1>7
    <3> QED BY <2>3, <3>1, <1>5, <1>7, <1>9 DEF Apart
  <2>4. CASE x = b /\ y = b
    <3>1. M[x] = d /\ M[y] = d /\ i \in 1 .. Len(d) /\ j \in 1 .. Len(d)
      BY <2>4, <1>7
    <3>2. \A k \in 1 .. Len(d) : k # 1 => k - 1 \in 1 .. Len(c) /\ d[k] = c[k - 1]
      BY <2>0
    <3>3. \A k \in 1 .. Len(c) : c[k] # s
      BY <1>3, <1>5
    <3>4. d[1] = s
      BY <2>0
    <3>5. \A k, m \in 1 .. Len(c) : c[k] = c[m] => k = m
      BY <1>5, <1>7, <1>9 DEF Apart
    <3>6. CASE i = 1 \/ j = 1
      BY <3>1, <3>2, <3>3, <3>4, <3>6, <2>4
    <3>7. CASE i # 1 /\ j # 1
      <4>1. i - 1 = j - 1
        <5>1. i - 1 \in 1 .. Len(c) /\ d[i] = c[i - 1] /\ j - 1 \in 1 .. Len(c) /\ d[j] = c[j - 1]
          BY <3>1, <3>2, <3>7
        <5>2. d[i] = d[j]
          BY <3>1
        <5> HIDE <3>1
        <5> QED BY <5>1, <5>2, <3>5
      <4>2. i \in Int /\ j \in Int
        BY <3>1
      <4>3. i = j
        BY <4>1, <4>2
      <4> QED BY <4>3, <2>4
    <3> QED BY <3>6, <3>7
  <2> QED BY <2>1, <2>2, <2>3, <2>4
<1>11. Fits(M, n, next2, heads2) /\ Table(n, next2, heads2)
  BY <1>1, <1>2, <1>7, <1>8, <1>10 DEF Fits, Table
<1>12. Sound(n, next2, heads2) /\ \A a \in DOMAIN heads : Chain(next2, heads2[a]) = M[a]
  <2>1. Sound(n, next2, heads2) /\ \A a \in DOMAIN heads2 : Chain(next2, heads2[a]) = M[a]
    BY <1>11, ListsAre
  <2> QED BY <2>1, <1>2
<1>13. ASSUME NEW a \in DOMAIN heads PROVE On(next2, heads2[a]) = Elements(M[a])
  <2>1. a \in DOMAIN heads2
    BY <1>2
  <2>2. On(next2, heads2[a]) = Elements(Chain(next2, heads2[a]))
    BY <1>12, <2>1, SoundList
  <2> QED BY <2>2, <1>12
<1>14. On(next2, heads2[b]) = On(next, heads[b]) \cup {s}
  <2>1. On(next2, heads2[b]) = Elements(d) /\ On(next, heads[b]) = Elements(c)
    BY <1>13, <1>7, <1>3, <1>5
  <2>2. Elements(d) = Elements(c) \cup {s}
    BY <1>6, ElementsCons
  <2> QED BY <2>1, <2>2
<1>15. ASSUME NEW a \in DOMAIN heads, a # b PROVE On(next2, heads2[a]) = On(next, heads[a])
  BY <1>3, <1>7, <1>13, <1>15
<1> QED BY <1>12, <1>14, <1>15

-----------------------------------------------------------------------------
(* A slot leaves its chain.                                                *)

\* d is c without its k-th element.
Skip(d, c, k) ==
  /\ Len(c) \in Nat /\ Len(d) = Len(c) - 1 /\ k \in 1 .. Len(c)
  /\ \A i \in 1 .. Len(d) : d[i] = IF i < k THEN c[i] ELSE c[i + 1]

\* A sequence without one of its elements.
LEMMA SkipExists ==
  ASSUME NEW S, NEW c \in Seq(S), NEW k \in 1 .. Len(c)
  PROVE  \E d \in Seq(S) : Skip(d, c, k)
<1> DEFINE d == [i \in 1 .. Len(c) - 1 |-> IF i < k THEN c[i] ELSE c[i + 1]]
<1>1. Len(c) \in Nat /\ Len(c) - 1 \in Nat
  BY LenProperties
<1>2. \A i \in 1 .. Len(c) : c[i] \in S
  BY ElementOfSeq
<1>3. d \in [1 .. Len(c) - 1 -> S]
  <2> SUFFICES ASSUME NEW i \in 1 .. Len(c) - 1 PROVE (IF i < k THEN c[i] ELSE c[i + 1]) \in S
    OBVIOUS
  <2>1. i \in 1 .. Len(c) /\ i + 1 \in 1 .. Len(c)
    BY <1>1
  <2> QED BY <2>1, <1>2
<1>4. d \in Seq(S)
  BY <1>1, <1>3, SeqDef
<1>5. Len(d) \in Nat /\ DOMAIN d = 1 .. Len(d) /\ DOMAIN d = 1 .. Len(c) - 1
  BY <1>4, LenProperties
<1>6. Len(d) = Len(c) - 1
  <2> HIDE DEF d
  <2> QED BY <1>1, <1>5
<1>7. Skip(d, c, k)
  BY <1>1, <1>6 DEF Skip
<1> QED BY <1>4, <1>7

\* Its elements, when nothing is repeated.
LEMMA ElementsSkip ==
  ASSUME NEW c, NEW d, NEW k, Skip(d, c, k), \A i, j \in 1 .. Len(c) : c[i] = c[j] => i = j
  PROVE  Elements(d) = Elements(c) \ {c[k]}
<1>1. /\ Len(c) \in Nat /\ Len(d) = Len(c) - 1 /\ k \in 1 .. Len(c)
      /\ \A i \in 1 .. Len(d) : d[i] = IF i < k THEN c[i] ELSE c[i + 1]
  BY DEF Skip
<1>2. ASSUME NEW i \in 1 .. Len(d) PROVE d[i] \in Elements(c) /\ d[i] # c[k]
  <2>1. CASE i < k
    <3>1. i \in 1 .. Len(c) /\ i # k /\ d[i] = c[i]
      BY <2>1, <1>1
    <3> QED BY <3>1, <1>1 DEF Elements
  <2>2. CASE ~(i < k)
    <3>1. i + 1 \in 1 .. Len(c) /\ i + 1 # k /\ d[i] = c[i + 1]
      BY <2>2, <1>1
    <3> QED BY <3>1, <1>1 DEF Elements
  <2> QED BY <2>1, <2>2
<1>3. ASSUME NEW i \in 1 .. Len(c), i # k PROVE c[i] \in Elements(d)
  <2>1. CASE i < k
    <3>1. i \in 1 .. Len(d) /\ d[i] = c[i]
      BY <2>1, <1>1
    <3> QED BY <3>1 DEF Elements
  <2>2. CASE ~(i < k)
    <3>1. i - 1 \in 1 .. Len(d) /\ ~(i - 1 < k) /\ (i - 1) + 1 = i
      BY <2>2, <1>1, <1>3
    <3>2. d[i - 1] = c[i]
      BY <3>1, <1>1
    <3> QED BY <3>1, <3>2 DEF Elements
  <2> QED BY <2>1, <2>2
<1>4. \A x \in Elements(d) : x \in Elements(c) /\ x # c[k]
  BY <1>2 DEF Elements
<1>5. \A x \in Elements(c) : x # c[k] => x \in Elements(d)
  BY <1>3 DEF Elements
<1> QED BY <1>4, <1>5

\* Whatever links change, when they leave the chains as they were but for one element of one.
LEMMA Cut ==
  ASSUME NEW n, NEW next, NEW heads, Sound(n, next, heads), NEW b \in DOMAIN heads,
         NEW k, NEW d \in Seq(1 .. n), Skip(d, Chain(next, heads[b]), k),
         NEW next2, NEW heads2, Table(n, next2, heads2), DOMAIN heads2 = DOMAIN heads,
         Path(d, next2, heads2[b]),
         \A a \in DOMAIN heads : a # b => Path(Chain(next, heads[a]), next2, heads2[a])
  PROVE  /\ Sound(n, next2, heads2)
         /\ On(next2, heads2[b]) = On(next, heads[b]) \ {Chain(next, heads[b])[k]}
         /\ \A a \in DOMAIN heads : a # b => On(next2, heads2[a]) = On(next, heads[a])
<1> DEFINE L == Lists(next, heads)
           c == Chain(next, heads[b])
           M == [L EXCEPT ![b] = d]
<1>1. n \in Nat /\ Table(n, next2, heads2) /\ DOMAIN heads2 = DOMAIN heads
  BY DEF Table
<1>2. DOMAIN L = DOMAIN heads /\ L = [a \in DOMAIN heads |-> L[a]] /\ L[b] = c
      /\ \A a \in DOMAIN heads : L[a] = Chain(next, heads[a])
  BY DEF Lists
<1>3. ASSUME NEW a \in DOMAIN heads
      PROVE  L[a] \in Seq(1 .. n) /\ Len(L[a]) \in Nat /\ On(next, heads[a]) = Elements(L[a])
  BY <1>2, SoundList
<1>4. Skip(d, c, k) /\ Len(c) \in Nat /\ Len(d) = Len(c) - 1
  BY DEF Skip
<1>5. k \in 1 .. Len(c)
  BY DEF Skip
<1>6. Apart(L)
  BY DEF Sound, Fits
<1>7. ASSUME NEW a \in DOMAIN heads, a # b PROVE Path(L[a], next2, heads2[a])
  BY <1>2, <1>7
<1> HIDE DEF L, c
<1>8. M \in [DOMAIN heads -> Seq(1 .. n)] /\ M[b] = d /\ \A a \in DOMAIN heads : a # b => M[a] = L[a]
  BY <1>2, <1>3
<1> HIDE DEF M
<1>9. ASSUME NEW a \in DOMAIN heads PROVE Path(M[a], next2, heads2[a])
  <2>1. CASE a = b
    BY <2>1, <1>8
  <2>2. CASE a # b
    BY <2>2, <1>7, <1>8
  <2> QED BY <2>1, <2>2

\* Where the element of d at i stands in c.
<1> DEFINE at(i) == IF i < k THEN i ELSE i + 1
<1>10. \A i \in 1 .. Len(d) : d[i] = c[at(i)] /\ at(i) \in 1 .. Len(c)
  <2> SUFFICES ASSUME NEW i \in 1 .. Len(d) PROVE d[i] = c[at(i)] /\ at(i) \in 1 .. Len(c)
    OBVIOUS
  <2>1. d[i] = IF i < k THEN c[i] ELSE c[i + 1]
    BY <1>4 DEF Skip
  <2> QED BY <2>1, <1>4, <1>5
<1>11. \A i, j \in 1 .. Len(d) : at(i) = at(j) => i = j
  BY <1>4, <1>5
<1> HIDE DEF at
<1>12. Apart(M)
  <2> SUFFICES ASSUME NEW x \in DOMAIN heads, NEW y \in DOMAIN heads,
                      NEW i \in 1 .. Len(M[x]), NEW j \in 1 .. Len(M[y]), M[x][i] = M[y][j]
               PROVE  x = y /\ i = j
    BY <1>8 DEF Apart
  <2>0. \A p, q \in DOMAIN heads : \A e \in 1 .. Len(L[p]), f \in 1 .. Len(L[q]) : L[p][e] = L[q][f] => p = q /\ e = f
    BY <1>2, <1>6 DEF Apart
  <2>1. CASE x # b /\ y # b
    <3>1. M[x] = L[x] /\ M[y] = L[y]
      BY <2>1, <1>8
    <3> QED BY <2>0, <3>1
  <2>2. CASE x = b /\ y # b
    <3>1. at(i) \in 1 .. Len(L[b]) /\ M[x][i] = L[b][at(i)] /\ M[y] = L[y]
      BY <2>2, <1>2, <1>8, <1>10
    <3> QED BY <2>2, <3>1, <2>0
  <2>3. CASE x # b /\ y = b
    <3>1. at(j) \in 1 .. Len(L[b]) /\ M[y][j] = L[b][at(j)] /\ M[x] = L[x]
      BY <2>3, <1>2, <1>8, <1>10
    <3> QED BY <2>3, <3>1, <2>0
  <2>4. CASE x = b /\ y = b
    <3>1. /\ at(i) \in 1 .. Len(L[b]) /\ M[x][i] = L[b][at(i)] /\ i \in 1 .. Len(d)
          /\ at(j) \in 1 .. Len(L[b]) /\ M[y][j] = L[b][at(j)] /\ j \in 1 .. Len(d)
      BY <2>4, <1>2, <1>8, <1>10
    <3>2. L[b][at(i)] = L[b][at(j)]
      BY <3>1
    <3>3. at(i) = at(j)
      <4>1. at(i) \in 1 .. Len(L[b]) /\ at(j) \in 1 .. Len(L[b])
        BY <3>1
      <4> QED BY <4>1, <3>2, <2>0
    <3> QED BY <3>1, <3>3, <1>11, <2>4
  <2> QED BY <2>1, <2>2, <2>3, <2>4
<1>13. Fits(M, n, next2, heads2)
  BY <1>1, <1>8, <1>9, <1>12 DEF Fits
<1>14. Sound(n, next2, heads2) /\ \A a \in DOMAIN heads : Chain(next2, heads2[a]) = M[a]
  <2>1. Sound(n, next2, heads2) /\ \A a \in DOMAIN heads2 : Chain(next2, heads2[a]) = M[a]
    BY <1>1, <1>13, ListsAre
  <2> QED BY <2>1, <1>1
<1>15. ASSUME NEW a \in DOMAIN heads PROVE On(next2, heads2[a]) = Elements(M[a])
  <2>1. On(next2, heads2[a]) = Elements(Chain(next2, heads2[a]))
    BY <1>1, <1>14, SoundList
  <2> QED BY <2>1, <1>14
<1>16. On(next2, heads2[b]) = On(next, heads[b]) \ {c[k]}
  <2>1. \A i, j \in 1 .. Len(c) : c[i] = c[j] => i = j
    BY <1>2, <1>6 DEF Apart
  <2>2. Elements(d) = Elements(c) \ {c[k]}
    BY <1>4, <2>1, ElementsSkip
  <2>3. On(next2, heads2[b]) = Elements(d) /\ On(next, heads[b]) = Elements(c)
    BY <1>2, <1>3, <1>8, <1>15
  <2> QED BY <2>2, <2>3
<1>17. ASSUME NEW a \in DOMAIN heads, a # b PROVE On(next2, heads2[a]) = On(next, heads[a])
  BY <1>3, <1>8, <1>15, <1>17
<1> QED BY <1>14, <1>16, <1>17 DEF c

\* Where a chain goes on: to the next element, or nowhere.
LEMMA PathAt ==
  ASSUME NEW c, NEW next, NEW head, Path(c, next, head), Len(c) \in Nat
  PROVE  /\ head = IF Len(c) = 0 THEN 0 ELSE c[1]
         /\ \A i \in 1 .. Len(c) : next[c[i]] = IF i = Len(c) THEN 0 ELSE c[i + 1]
BY DEF Path

\* The head of a chain goes: the bucket starts at its successor.
LEMMA DropFirst ==
  ASSUME NEW n, NEW next, NEW heads, Sound(n, next, heads), NEW b \in DOMAIN heads, heads[b] # 0,
         NEW heads2, Update(heads2, heads, b, next[heads[b]])
  PROVE  /\ Sound(n, next, heads2)
         /\ On(next, heads2[b]) = On(next, heads[b]) \ {heads[b]}
         /\ \A a \in DOMAIN heads : a # b => On(next, heads2[a]) = On(next, heads[a])
<1> DEFINE c == Chain(next, heads[b])
<1>1. /\ n \in Nat /\ next \in [1 .. n -> 0 .. n] /\ heads \in [DOMAIN heads -> 0 .. n]
      /\ c \in Seq(1 .. n) /\ Len(c) \in Nat /\ Path(c, next, heads[b])
  BY SoundList
<1>2. \A a \in DOMAIN heads : Path(Chain(next, heads[a]), next, heads[a])
  BY SoundList
<1>3. heads[b] \in 1 .. n
  BY <1>1
<1>4. /\ heads2 \in [DOMAIN heads -> 0 .. n] /\ heads2[b] = next[heads[b]]
      /\ \A a \in DOMAIN heads : a # b => heads2[a] = heads[a]
  BY <1>1, <1>3 DEF Update
<1>5. Len(c) # 0 /\ heads[b] = c[1]
  BY <1>1, PathAt
<1>6. 1 \in 1 .. Len(c)
  BY <1>1, <1>5
<1>7. PICK d \in Seq(1 .. n) : Skip(d, c, 1)
  BY <1>1, <1>6, SkipExists
<1>8. Path(d, next, heads2[b])
  <2>1. Len(d) = Len(c) - 1 /\ \A i \in 1 .. Len(d) : d[i] = c[i + 1]
    <3>1. Len(d) = Len(c) - 1 /\ \A i \in 1 .. Len(d) : d[i] = IF i < 1 THEN c[i] ELSE c[i + 1]
      BY <1>7 DEF Skip
    <3> QED BY <3>1
  <2>0. Len(c) > 0
    BY <1>1, <1>5
  <2>a. Len(c) \in Nat /\ Path(c, next, heads[b])
    BY <1>1
  <2> HIDE DEF c
  <2>2. Path(d, next, next[heads[b]])
    BY <2>0, <2>a, <2>1, PathTail
  <2> QED BY <2>2, <1>4
<1>9. \A a \in DOMAIN heads : a # b => Path(Chain(next, heads[a]), next, heads2[a])
  BY <1>2, <1>4
<1>10. Table(n, next, heads2) /\ DOMAIN heads2 = DOMAIN heads
  BY <1>1, <1>4 DEF Table
<1>11. /\ Sound(n, next, heads2)
       /\ On(next, heads2[b]) = On(next, heads[b]) \ {Chain(next, heads[b])[1]}
       /\ \A a \in DOMAIN heads : a # b => On(next, heads2[a]) = On(next, heads[a])
  BY <1>7, <1>8, <1>9, <1>10, Cut
<1> QED BY <1>5, <1>11

\* A path whose link before an element skips it is the path without the element.
LEMMA PathSkip ==
  ASSUME NEW c, NEW d, NEW j \in 1 .. Len(c), NEW k, k = j + 1, Skip(d, c, k),
         NEW next, NEW next2, NEW head, Path(c, next, head), next2[c[j]] = next[c[k]],
         \A i \in 1 .. Len(c) : i # j => next2[c[i]] = next[c[i]]
  PROVE  Path(d, next2, head)
<1> DEFINE m == Len(c)
           l == Len(d)
<1>1. m \in Nat /\ l = m - 1 /\ j \in 1 .. m /\ j + 1 \in 1 .. m
  BY DEF Skip
<1>2. \A i \in 1 .. l : d[i] = IF i < j + 1 THEN c[i] ELSE c[i + 1]
  BY DEF Skip
<1>3. head = IF m = 0 THEN 0 ELSE c[1]
  BY DEF Path
<1>4. \A i \in 1 .. m : next[c[i]] = IF i = m THEN 0 ELSE c[i + 1]
  BY DEF Path
<1>5. next2[c[j]] = next[c[j + 1]] /\ \A i \in 1 .. m : i # j => next2[c[i]] = next[c[i]]
  OBVIOUS
<1>6. Len(d) = l
  OBVIOUS
<1> HIDE DEF m, l
<1>7. head = IF l = 0 THEN 0 ELSE d[1]
  <2>1. m # 0 /\ l # 0 /\ 1 \in 1 .. l /\ 1 < j + 1
    BY <1>1
  <2> QED BY <2>1, <1>2, <1>3
<1>8. ASSUME NEW i \in 1 .. l PROVE next2[d[i]] = IF i = l THEN 0 ELSE d[i + 1]
  <2>1. CASE i < j
    <3>1. i \in 1 .. m /\ i # m /\ i # j /\ i < j + 1 /\ i + 1 < j + 1 /\ i # l /\ i + 1 \in 1 .. l
      BY <2>1, <1>1
    <3>2. d[i] = c[i] /\ d[i + 1] = c[i + 1]
      BY <3>1, <1>2
    <3>3. next2[c[i]] = c[i + 1]
      BY <3>1, <1>4, <1>5
    <3> QED BY <3>1, <3>2, <3>3
  <2>2. CASE i = j
    <3>1. d[i] = c[j]
      <4>1. i < j + 1
        BY <2>2, <1>1
      <4> QED BY <4>1, <2>2, <1>2
    <3>2. next2[d[i]] = IF j + 1 = m THEN 0 ELSE c[(j + 1) + 1]
      BY <3>1, <1>1, <1>4, <1>5
    <3>3. (i # l => i + 1 \in 1 .. l /\ ~(i + 1 < j + 1)) /\ (i = l <=> j + 1 = m)
      BY <2>2, <1>1
    <3>4. i # l => d[i + 1] = c[(i + 1) + 1]
      BY <3>3, <1>2
    <3> QED BY <2>2, <3>2, <3>3, <3>4
  <2>3. CASE i > j
    <3>1. i + 1 \in 1 .. m /\ i + 1 # j /\ ~(i < j + 1) /\ (i = l <=> i + 1 = m)
          /\ (i # l => i + 1 \in 1 .. l /\ ~(i + 1 < j + 1))
      BY <2>3, <1>1
    <3>2. d[i] = c[i + 1]
      BY <3>1, <1>2
    <3>3. next2[d[i]] = IF i + 1 = m THEN 0 ELSE c[(i + 1) + 1]
      BY <3>1, <3>2, <1>4, <1>5
    <3>4. i # l => d[i + 1] = c[(i + 1) + 1]
      BY <3>1, <1>2
    <3> QED BY <3>1, <3>3, <3>4
  <2> QED BY <2>1, <2>2, <2>3, <1>1
<1> QED BY <1>6, <1>7, <1>8 DEF Path

\* A later slot of a chain goes: the slot whose link names it skips it.
LEMMA DropLater ==
  ASSUME NEW n, NEW next, NEW heads, Sound(n, next, heads), NEW b \in DOMAIN heads,
         NEW x \in On(next, heads[b]), NEW s, s = next[x], s # 0,
         NEW next2, Update(next2, next, x, next[s])
  PROVE  /\ Sound(n, next2, heads)
         /\ s \in On(next, heads[b])
         /\ On(next2, heads[b]) = On(next, heads[b]) \ {s}
         /\ \A a \in DOMAIN heads : a # b => On(next2, heads[a]) = On(next, heads[a])
<1> DEFINE c == Chain(next, heads[b])
<1>1. /\ n \in Nat /\ next \in [1 .. n -> 0 .. n] /\ heads \in [DOMAIN heads -> 0 .. n]
      /\ c \in Seq(1 .. n) /\ Len(c) \in Nat /\ Path(c, next, heads[b])
      /\ On(next, heads[b]) = Elements(c) /\ DOMAIN c = 1 .. Len(c) /\ IsInjective(c)
  BY SoundList
<1> HIDE DEF c
<1>2. PICK j \in 1 .. Len(c) : x = c[j]
  BY <1>1 DEF Elements
<1>3. \A i \in 1 .. Len(c) : c[i] \in 1 .. n
  BY <1>1, ElementOfSeq
<1>4. heads[b] = IF Len(c) = 0 THEN 0 ELSE c[1]
  BY <1>1, PathAt
<1>5. \A i \in 1 .. Len(c) : next[c[i]] = IF i = Len(c) THEN 0 ELSE c[i + 1]
  BY <1>1, PathAt
<1>6. j # Len(c) /\ s = c[j + 1] /\ j + 1 \in 1 .. Len(c)
  BY <1>1, <1>2, <1>5
<1>7. \A i, k \in 1 .. Len(c) : c[i] = c[k] => i = k
  BY <1>1 DEF IsInjective
<1>8. x \in 1 .. n /\ s \in 1 .. n
  BY <1>2, <1>3, <1>6
<1>9. /\ next2 \in [1 .. n -> 0 .. n] /\ next2[x] = next[s]
      /\ \A y \in 1 .. n : y # x => next2[y] = next[y]
  BY <1>1, <1>8 DEF Update
<1>10. PICK d \in Seq(1 .. n) : Skip(d, c, j + 1)
  BY <1>1, <1>6, SkipExists
<1>13. \A i \in 1 .. Len(c) : i # j => next2[c[i]] = next[c[i]]
  BY <1>2, <1>3, <1>7, <1>9
<1>14. Path(d, next2, heads[b])
  <2>1. next2[c[j]] = next[c[j + 1]]
    BY <1>2, <1>6, <1>9
  <2>2. \A k : k = j + 1 => Path(d, next2, heads[b])
    <3> SUFFICES ASSUME NEW k, k = j + 1 PROVE Path(d, next2, heads[b])
      OBVIOUS
    <3>1. Skip(d, c, k) /\ next2[c[j]] = next[c[k]]
      BY <1>10, <2>1
    <3>2. Path(c, next, heads[b])
      BY <1>1
    <3> QED BY <3>1, <3>2, <1>13, PathSkip
  <2> QED BY <2>2
<1>15. ASSUME NEW a \in DOMAIN heads, a # b PROVE Path(Chain(next, heads[a]), next2, heads[a])
  <2> DEFINE e == Chain(next, heads[a])
  <2>1. /\ e \in Seq(1 .. n) /\ Path(e, next, heads[a]) /\ On(next, heads[a]) = Elements(e)
    BY SoundList
  <2>2. On(next, heads[a]) \cap On(next, heads[b]) = {}
    BY <1>15, SoundApart
  <2> HIDE DEF e
  <2>3. \A i \in 1 .. Len(e) : e[i] \in 1 .. n /\ e[i] # x
    <3>1. \A i \in 1 .. Len(e) : e[i] \in Elements(e)
      BY DEF Elements
    <3>2. \A i \in 1 .. Len(e) : e[i] \in 1 .. n
      BY <2>1, ElementOfSeq
    <3> QED BY <2>1, <2>2, <3>1, <3>2
  <2>4. \A i \in 1 .. Len(e) : next2[e[i]] = next[e[i]]
    BY <2>3, <1>9
  <2>5. Path(e, next2, heads[a])
    BY <2>1, <2>4, PathFrame
  <2> QED BY <2>5 DEF e
<1>16. s \in On(next, heads[b])
  BY <1>1, <1>6 DEF Elements
<1>17. /\ Sound(n, next2, heads)
       /\ On(next2, heads[b]) = On(next, heads[b]) \ {Chain(next, heads[b])[j + 1]}
       /\ \A a \in DOMAIN heads : a # b => On(next2, heads[a]) = On(next, heads[a])
  <2>1. Skip(d, Chain(next, heads[b]), j + 1)
    BY <1>10 DEF c
  <2>2. Table(n, next2, heads)
    BY <1>1, <1>9 DEF Table
  <2> QED BY <2>1, <2>2, <1>14, <1>15, Cut
<1> QED BY <1>6, <1>16, <1>17 DEF c

\* Every slot of a chain but its head is named by a link of the chain.
LEMMA Predecessor ==
  ASSUME NEW n, NEW next, NEW heads, Sound(n, next, heads), NEW b \in DOMAIN heads,
         NEW s \in On(next, heads[b]), heads[b] # s
  PROVE  \E x \in On(next, heads[b]) : next[x] = s
<1> DEFINE c == Chain(next, heads[b])
<1>1. Len(c) \in Nat /\ Path(c, next, heads[b]) /\ On(next, heads[b]) = Elements(c)
  BY SoundList
<1> HIDE DEF c
<1>2. PICK j \in 1 .. Len(c) : s = c[j]
  BY <1>1 DEF Elements
<1>3. heads[b] = IF Len(c) = 0 THEN 0 ELSE c[1]
  BY <1>1, PathAt
<1>4. j - 1 \in 1 .. Len(c) /\ j - 1 # Len(c) /\ (j - 1) + 1 = j
  BY <1>1, <1>2, <1>3
<1>5. next[c[j - 1]] = c[j]
  <2>1. \A i \in 1 .. Len(c) : next[c[i]] = IF i = Len(c) THEN 0 ELSE c[i + 1]
    BY <1>1, PathAt
  <2>2. next[c[j - 1]] = IF j - 1 = Len(c) THEN 0 ELSE c[(j - 1) + 1]
    BY <2>1, <1>4
  <2> QED BY <2>2, <1>4
<1>6. c[j - 1] \in Elements(c)
  BY <1>4 DEF Elements
<1> QED BY <1>1, <1>2, <1>5, <1>6

-----------------------------------------------------------------------------
(* The chains one after the other.                                         *)

\* Sequences without common elements, one after the other.
LEMMA ConcatApart ==
  ASSUME NEW S, NEW s \in Seq(S), NEW t \in Seq(S), IsInjective(s), IsInjective(t),
         Elements(s) \cap Elements(t) = {}
  PROVE  /\ s \o t \in Seq(S) /\ IsInjective(s \o t)
         /\ Elements(s \o t) = Elements(s) \cup Elements(t)
<1> DEFINE u == s \o t
           m == Len(s)
           l == Len(t)
<1>1. /\ u \in Seq(S) /\ Len(u) = m + l
      /\ \A i \in 1 .. m + l : u[i] = IF i <= m THEN s[i] ELSE t[i - m]
  BY ConcatProperties
<1>2. m \in Nat /\ l \in Nat /\ DOMAIN s = 1 .. m /\ DOMAIN t = 1 .. l /\ DOMAIN u = 1 .. m + l
  BY <1>1, LenProperties
<1>3. \A i, j \in 1 .. m : s[i] = s[j] => i = j
  BY <1>2 DEF IsInjective
<1>4. \A i, j \in 1 .. l : t[i] = t[j] => i = j
  BY <1>2 DEF IsInjective
<1>5. Elements(s) = {s[i] : i \in 1 .. m} /\ Elements(t) = {t[i] : i \in 1 .. l} /\ Elements(u) = {u[i] : i \in 1 .. m + l}
  BY <1>1 DEF Elements
<1>6. \A i \in 1 .. m, j \in 1 .. l : s[i] # t[j]
  BY <1>5
<1> HIDE DEF u, m, l
<1>7. \A i \in 1 .. m + l : \/ i \in 1 .. m /\ u[i] = s[i]
                            \/ i - m \in 1 .. l /\ u[i] = t[i - m] /\ i > m
  BY <1>1, <1>2
<1>8. ASSUME NEW i \in 1 .. m + l, NEW j \in 1 .. m + l, u[i] = u[j] PROVE i = j
  <2>1. CASE i \in 1 .. m /\ u[i] = s[i]
    <3>1. ~(j - m \in 1 .. l /\ u[j] = t[j - m])
      BY <2>1, <1>6, <1>8
    <3>2. j \in 1 .. m /\ u[j] = s[j]
      BY <3>1, <1>7
    <3> QED BY <2>1, <3>2, <1>3, <1>8
  <2>2. CASE i - m \in 1 .. l /\ u[i] = t[i - m]
    <3>1. ~(j \in 1 .. m /\ u[j] = s[j])
      BY <2>2, <1>6, <1>8
    <3>2. j - m \in 1 .. l /\ u[j] = t[j - m]
      BY <3>1, <1>7
    <3>3. t[i - m] = t[j - m]
      BY <2>2, <3>2, <1>8
    <3>4. i - m = j - m
      BY <2>2, <3>2, <3>3, <1>4
    <3> QED BY <3>4, <1>2
  <2> QED BY <2>1, <2>2, <1>7
<1>9. IsInjective(u)
  BY <1>2, <1>8 DEF IsInjective
<1>10. \A x \in Elements(u) : x \in Elements(s) \/ x \in Elements(t)
  BY <1>5, <1>7
<1>11. \A x \in Elements(s) : x \in Elements(u)
  <2> SUFFICES ASSUME NEW i \in 1 .. m PROVE s[i] \in Elements(u)
    BY <1>5
  <2>1. i \in 1 .. m + l /\ i <= m
    BY <1>2
  <2>2. u[i] = s[i]
    BY <2>1, <1>1
  <2> QED BY <2>1, <2>2, <1>5
<1>12. \A x \in Elements(t) : x \in Elements(u)
  <2> SUFFICES ASSUME NEW i \in 1 .. l PROVE t[i] \in Elements(u)
    BY <1>5
  <2>1. i + m \in 1 .. m + l /\ ~(i + m <= m) /\ (i + m) - m = i
    BY <1>2
  <2>2. u[i + m] = t[i]
    BY <2>1, <1>1
  <2> QED BY <2>1, <2>2, <1>5
<1>13. Elements(u) = Elements(s) \cup Elements(t)
  BY <1>10, <1>11, <1>12
<1> QED BY <1>1, <1>9, <1>13 DEF u

FlattenStep(f, seqs, i) == IF i = 1 THEN seqs[i] ELSE f[i - 1] \o seqs[i]

\* The recursion of FlattenSeq defines a function.
LEMMA FlattenExists ==
  ASSUME NEW seqs, NEW m \in Nat
  PROVE  \E g : g = [i \in 1 .. m |-> FlattenStep(g, seqs, i)]
<1> DEFINE T == {k \in Nat : \E g : g = [i \in 1 .. k |-> FlattenStep(g, seqs, i)]}
<1>1. 0 \in T
  <2> DEFINE g == [i \in 1 .. 0 |-> seqs[i]]
  <2>1. g = [i \in 1 .. 0 |-> FlattenStep(g, seqs, i)]
    OBVIOUS
  <2> QED BY <2>1
<1>2. ASSUME NEW k \in Nat, k \in T PROVE k + 1 \in T
  <2>1. PICK g : g = [i \in 1 .. k |-> FlattenStep(g, seqs, i)]
    BY <1>2
  <2> DEFINE h == [i \in 1 .. k + 1 |-> FlattenStep(g, seqs, i)]
  <2>2. ASSUME NEW i \in 1 .. k + 1 PROVE FlattenStep(g, seqs, i) = FlattenStep(h, seqs, i)
    <3>1. CASE i = 1
      BY <3>1 DEF FlattenStep
    <3>2. CASE i # 1
      <4>1. i - 1 \in 1 .. k /\ i - 1 \in 1 .. k + 1
        BY <3>2
      <4>2. g[i - 1] = h[i - 1]
        BY <4>1, <2>1
      <4> QED BY <3>2, <4>2 DEF FlattenStep
    <3> QED BY <3>1, <3>2
  <2>3. h = [i \in 1 .. k + 1 |-> FlattenStep(h, seqs, i)]
    BY <2>2
  <2> HIDE DEF h
  <2> QED BY <2>3
<1> HIDE DEF T
<1>3. Nat \subseteq T
  BY <1>1, <1>2, UpTo
<1> QED BY <1>3 DEF T

\* So FlattenSeq obeys the equation that defines it.
LEMMA FlattenIs ==
  ASSUME NEW seqs, Len(seqs) \in Nat, Len(seqs) # 0
  PROVE  \E g : g = [i \in 1 .. Len(seqs) |-> FlattenStep(g, seqs, i)] /\ FlattenSeq(seqs) = g[Len(seqs)]
<1> DEFINE f == CHOOSE g : g = [i \in 1 .. Len(seqs) |-> FlattenStep(g, seqs, i)]
<1>1. f = [i \in 1 .. Len(seqs) |-> FlattenStep(f, seqs, i)]
  <2>1. \E g : g = [i \in 1 .. Len(seqs) |-> FlattenStep(g, seqs, i)]
    BY FlattenExists
  <2> QED BY <2>1
<1>2. FlattenSeq(seqs) = f[Len(seqs)]
  BY DEF FlattenSeq, FlattenStep
<1> HIDE DEF f
<1> QED BY <1>1, <1>2

\* Sequences that share no element: one after the other they hold every element once.
LEMMA Flattened ==
  ASSUME NEW S, NEW seqs \in Seq(Seq(S)), \A b \in 1 .. Len(seqs) : IsInjective(seqs[b]),
         \A b, c \in 1 .. Len(seqs) : b # c => Elements(seqs[b]) \cap Elements(seqs[c]) = {}
  PROVE  /\ FlattenSeq(seqs) \in Seq(S) /\ IsInjective(FlattenSeq(seqs))
         /\ \A x : x \in Elements(FlattenSeq(seqs)) <=> \E b \in 1 .. Len(seqs) : x \in Elements(seqs[b])
<1>1. Len(seqs) \in Nat /\ DOMAIN seqs = 1 .. Len(seqs) /\ \A b \in 1 .. Len(seqs) : seqs[b] \in Seq(S)
  BY LenProperties, ElementOfSeq
<1>2. CASE Len(seqs) = 0
  <2>1. seqs = <<>>
    BY <1>2, EmptySeq
  <2>2. FlattenSeq(seqs) = <<>>
    BY <1>2, <2>1 DEF FlattenSeq
  <2>3. <<>> \in Seq(S) /\ Len(<<>>) = 0
    BY EmptySeq
  <2>4. IsInjective(<<>>) /\ Elements(<<>>) = {}
    BY <2>3 DEF IsInjective, Elements
  <2> QED BY <1>2, <2>2, <2>3, <2>4
<1>3. CASE Len(seqs) # 0
  <2>1. PICK g : g = [i \in 1 .. Len(seqs) |-> FlattenStep(g, seqs, i)] /\ FlattenSeq(seqs) = g[Len(seqs)]
    BY <1>1, <1>3, FlattenIs
  <2> DEFINE Joined(l, m) == /\ l \in Seq(S) /\ IsInjective(l)
                             /\ \A x : x \in Elements(l) <=> \E b \in 1 .. m : x \in Elements(seqs[b])
             T == {k \in Nat : k + 1 <= Len(seqs) => Joined(g[k + 1], k + 1)}
  <2>2. 0 \in T
    <3>1. g[1] = seqs[1] /\ 1 \in 1 .. Len(seqs)
      BY <1>1, <1>3, <2>1 DEF FlattenStep
    <3>2. \A b : b \in 1 .. 1 <=> b = 1
      OBVIOUS
    <3>3. Joined(g[1], 1)
      BY <3>1, <3>2, <1>1
    <3> QED BY <3>3
  <2>3. ASSUME NEW k \in Nat, k \in T PROVE k + 1 \in T
    <3> SUFFICES ASSUME k + 2 <= Len(seqs) PROVE Joined(g[k + 2], k + 2)
      <4>1. (k + 1) + 1 = k + 2
        OBVIOUS
      <4> HIDE DEF Joined
      <4> QED BY <4>1
    <3> DEFINE l == g[k + 1]
               t == seqs[k + 2]
    <3>1. Joined(l, k + 1)
      <4>1. k + 1 <= Len(seqs)
        BY <1>1
      <4> HIDE DEF Joined
      <4> QED BY <4>1, <2>3
    <3>2. k + 1 \in 1 .. Len(seqs) /\ k + 2 \in 1 .. Len(seqs) /\ k + 2 # 1 /\ (k + 2) - 1 = k + 1
      BY <1>1
    <3>3. g[k + 2] = l \o t
      BY <3>2, <2>1 DEF FlattenStep
    <3>4. t \in Seq(S) /\ IsInjective(t)
      BY <3>2, <1>1
    <3>5. \A b \in 1 .. k + 1 : b \in 1 .. Len(seqs) /\ b # k + 2
      BY <3>2
    <3>6. \A b \in 1 .. k + 1 : Elements(seqs[b]) \cap Elements(t) = {}
      BY <3>2, <3>5
    <3> HIDE DEF l, t
    <3>7. Elements(l) \cap Elements(t) = {}
      BY <3>1, <3>6
    <3>8. l \in Seq(S) /\ IsInjective(l)
      BY <3>1
    <3>9. /\ l \o t \in Seq(S) /\ IsInjective(l \o t)
          /\ Elements(l \o t) = Elements(l) \cup Elements(t)
      BY <3>4, <3>7, <3>8, ConcatApart
    <3>10. \A b : b \in 1 .. k + 2 <=> b \in 1 .. k + 1 \/ b = k + 2
      OBVIOUS
    <3>11. ASSUME NEW x PROVE x \in Elements(l \o t) <=> \E b \in 1 .. k + 2 : x \in Elements(seqs[b])
      <4>1. x \in Elements(l) <=> \E b \in 1 .. k + 1 : x \in Elements(seqs[b])
        BY <3>1
      <4>2. x \in Elements(t) <=> x \in Elements(seqs[k + 2])
        BY DEF t
      <4> QED BY <4>1, <4>2, <3>9, <3>10
    <3> QED BY <3>3, <3>9, <3>11
  <2> HIDE DEF T
  <2>4. Nat \subseteq T
    BY <2>2, <2>3, UpTo
  <2>5. Len(seqs) - 1 \in T
    BY <2>4, <1>1, <1>3
  <2>6. Joined(g[Len(seqs)], Len(seqs))
    <3>1. (Len(seqs) - 1) + 1 = Len(seqs)
      BY <1>1
    <3> QED BY <2>5, <3>1 DEF T
  <2> QED BY <2>1, <2>6
<1> QED BY <1>2, <1>3

\* A sequence without repetitions counts its elements.
LEMMA Counting ==
  ASSUME NEW S, NEW c \in Seq(S), IsInjective(c)
  PROVE  /\ ToSet(c) = Elements(c) /\ IsFiniteSet(Elements(c)) /\ Cardinality(Elements(c)) = Len(c)
         /\ Len(c) \in Nat
<1>1. Len(c) \in Nat /\ DOMAIN c = 1 .. Len(c)
  BY LenProperties
<1>2. ToSet(c) = Elements(c)
  BY <1>1 DEF ToSet, Elements
<1>3. c \in Bijection(1 .. Len(c), Elements(c))
  <2>1. c \in [1 .. Len(c) -> Elements(c)]
    <3>1. \A i \in 1 .. Len(c) : c[i] \in Elements(c)
      BY DEF Elements
    <3>2. c = [i \in 1 .. Len(c) |-> c[i]]
      BY <1>1, LenProperties
    <3> QED BY <3>1, <3>2
  <2>2. \A x \in Elements(c) : \E i \in 1 .. Len(c) : c[i] = x
    BY DEF Elements
  <2> QED BY <2>1, <2>2 DEF Bijection, Injection, Surjection
<1>4. ExistsBijection(1 .. Len(c), Elements(c))
  BY <1>3 DEF ExistsBijection
<1>5. Cardinality(Elements(c)) = Len(c)
  BY <1>1, <1>4, FS_CountingElements
<1>6. IsFiniteSet(Elements(c))
  BY <1>1, <1>4, FS_NatBijection
<1> QED BY <1>1, <1>2, <1>5, <1>6

\* Some of the chains of a table.
LEMMA SoundPart ==
  ASSUME NEW n, NEW next, NEW heads, Sound(n, next, heads), NEW I, I \subseteq DOMAIN heads,
         NEW part, part = [b \in I |-> heads[b]]
  PROVE  Sound(n, next, part)
<1> DEFINE L == Lists(next, heads)
           M == [b \in I |-> L[b]]
<1>1. /\ DOMAIN L = DOMAIN heads /\ L \in [DOMAIN heads -> Seq(1 .. n)]
      /\ \A b \in DOMAIN heads : Path(L[b], next, heads[b])
  BY DEF Sound, Fits, Lists
<1>2. Apart(L)
  BY DEF Sound, Fits
<1>3. Table(n, next, part) /\ DOMAIN part = I
  BY DEF Sound, Table
<1> HIDE DEF L
<1>4. M \in [I -> Seq(1 .. n)] /\ \A b \in I : M[b] = L[b] /\ Path(M[b], next, part[b])
  BY <1>1
<1>5. Apart(M)
  <2>1. \A p, q \in DOMAIN heads : \A e \in 1 .. Len(L[p]), f \in 1 .. Len(L[q]) : L[p][e] = L[q][f] => p = q /\ e = f
    BY <1>1, <1>2 DEF Apart
  <2>2. \A p \in I : p \in DOMAIN heads /\ M[p] = L[p]
    BY <1>4
  <2> SUFFICES ASSUME NEW p \in I, NEW q \in I, NEW e \in 1 .. Len(M[p]), NEW f \in 1 .. Len(M[q]), M[p][e] = M[q][f]
               PROVE  p = q /\ e = f
    BY <1>4 DEF Apart
  <2>3. e \in 1 .. Len(L[p]) /\ f \in 1 .. Len(L[q]) /\ L[p][e] = L[q][f] /\ p \in DOMAIN heads /\ q \in DOMAIN heads
    BY <2>2
  <2> QED BY <2>1, <2>3
<1> HIDE DEF M
<1>6. Fits(M, n, next, part)
  BY <1>3, <1>4, <1>5 DEF Fits
<1> QED BY <1>3, <1>6, ListsAre

\* All the chains of a table of m buckets, one after the other.
InLine(next, heads, m) == FlattenSeq([b \in 1 .. m |-> Chain(next, heads[b - 1])])

\* The length of a sequence from its domain.
LEMMA LenIs ==
  ASSUME NEW S, NEW s \in Seq(S), NEW m \in Nat, DOMAIN s = 1 .. m
  PROVE  Len(s) = m
<1>1. Len(s) \in Nat /\ DOMAIN s = 1 .. Len(s)
  BY LenProperties
<1> QED BY <1>1

\* In line the chains list every linked slot once, so their length counts the slots.
LEMMA ChainsInLine ==
  ASSUME NEW n, NEW next, NEW heads, Sound(n, next, heads), NEW m \in Nat, DOMAIN heads = 0 .. m - 1
  PROVE  LET list == InLine(next, heads, m) IN
         /\ list \in Seq(1 .. n) /\ IsInjective(list) /\ ToSet(list) = Linked(next, heads)
         /\ Linked(next, heads) = Elements(list)
         /\ Len(list) \in Nat /\ IsFiniteSet(Linked(next, heads)) /\ Cardinality(Linked(next, heads)) = Len(list)
<1> DEFINE list == InLine(next, heads, m)
           seqs == [b \in 1 .. m |-> Chain(next, heads[b - 1])]
<1>1. \A b \in 1 .. m : b - 1 \in DOMAIN heads
  OBVIOUS
<1>2. \A b \in DOMAIN heads :
        /\ Chain(next, heads[b]) \in Seq(1 .. n) /\ IsInjective(Chain(next, heads[b]))
        /\ On(next, heads[b]) = Elements(Chain(next, heads[b]))
  BY SoundList
<1>3. seqs \in [1 .. m -> Seq(1 .. n)]
  BY <1>1, <1>2
<1>4. seqs \in Seq(Seq(1 .. n))
  BY <1>3, SeqDef
<1>5. Len(seqs) = m
  <2>1. DOMAIN seqs = 1 .. m
    OBVIOUS
  <2> HIDE DEF seqs
  <2> QED BY <2>1, <1>4, LenIs
<1>6. \A b \in 1 .. m : seqs[b] = Chain(next, heads[b - 1]) /\ IsInjective(seqs[b]) /\ Elements(seqs[b]) = On(next, heads[b - 1])
  BY <1>1, <1>2
<1>7. \A b, c \in 1 .. m : b # c => Elements(seqs[b]) \cap Elements(seqs[c]) = {}
  <2> SUFFICES ASSUME NEW b \in 1 .. m, NEW c \in 1 .. m, b # c
               PROVE  Elements(seqs[b]) \cap Elements(seqs[c]) = {}
    OBVIOUS
  <2>1. b - 1 # c - 1 /\ b - 1 \in DOMAIN heads /\ c - 1 \in DOMAIN heads
    BY <1>1
  <2>2. On(next, heads[b - 1]) \cap On(next, heads[c - 1]) = {}
    BY <2>1, SoundApart
  <2> QED BY <2>2, <1>6
<1>8. InLine(next, heads, m) = FlattenSeq(seqs)
  BY DEF InLine
<1> HIDE DEF seqs, list
<1>a. list = FlattenSeq(seqs)
  BY <1>8 DEF list
<1>9. /\ list \in Seq(1 .. n) /\ IsInjective(list)
      /\ \A x : x \in Elements(list) <=> \E b \in 1 .. m : x \in Elements(seqs[b])
  BY <1>4, <1>5, <1>6, <1>7, <1>a, Flattened
<1>10. /\ ToSet(list) = Elements(list) /\ IsFiniteSet(Elements(list)) /\ Cardinality(Elements(list)) = Len(list)
       /\ Len(list) \in Nat
  BY <1>9, Counting
<1>11. \A x : x \in Linked(next, heads) <=> \E b \in DOMAIN heads : x \in On(next, heads[b])
  BY DEF Linked, On
<1>12. \A x : x \in Linked(next, heads) <=> x \in Elements(list)
  <2>1. \A b \in DOMAIN heads : b + 1 \in 1 .. m /\ (b + 1) - 1 = b
    OBVIOUS
  <2>2. ASSUME NEW x, x \in Linked(next, heads) PROVE x \in Elements(list)
    <3>1. PICK b \in DOMAIN heads : x \in On(next, heads[b])
      BY <2>2, <1>11
    <3>2. b + 1 \in 1 .. m /\ Elements(seqs[b + 1]) = On(next, heads[b])
      BY <2>1, <1>6
    <3> QED BY <3>1, <3>2, <1>9
  <2>3. ASSUME NEW x, x \in Elements(list) PROVE x \in Linked(next, heads)
    <3>1. PICK b \in 1 .. m : x \in Elements(seqs[b])
      BY <2>3, <1>9
    <3> QED BY <3>1, <1>1, <1>6, <1>11
  <2> QED BY <2>2, <2>3
<1>13. Linked(next, heads) = Elements(list)
  BY <1>12
<1> QED BY <1>9, <1>10, <1>13 DEF list
=============================================================================
