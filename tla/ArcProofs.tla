------------------------------ MODULE ArcProofs ------------------------------
(***************************************************************************)
(* For any objects, slots and statics: both counts of every object are     *)
(* exact in the middle of every cascade, collection and sweep; a           *)
(* collection takes what nobody can reach and nothing else; the sweep at   *)
(* exit leaves nothing.  The counts are not inductive alone: a count can   *)
(* only be trusted if one knows what each call of the cascade still has to *)
(* do, and that is what the parts of IInv say of the stack.                *)
(***************************************************************************)
EXTENDS Arc, FiniteSetTheorems, SequenceTheorems, TLAPS

Ends(f) == f.op \in {"free", "unlink"}

\* How a call stands on the call it was made from.
CallAt(s, k) ==
  /\ s[k].op \in {"free", "unlink", "dealloc", "detach"} => s[k].obj \in Obj
  /\ s[k].op = "dealloc" => k = 1
  /\ s[k].op = "detach" => k < Len(s) /\ Ends(s[k + 1]) /\ s[k + 1].obj = s[k].obj
  /\ s[k].op = "clear" =>
       IF s[k].obj = Class THEN k = Len(s)
       ELSE k < Len(s) /\ s[k + 1].op = "detach" /\ s[k + 1].obj = s[k].obj
  /\ s[k].op \in {"clear", "store"} => <<s[k].obj, s[k].at>> \in Cell
  /\ s[k].op \in {"store", "unlink"} => k = Len(s)

EndsOnce(s) == \A k, n \in DOMAIN s : Ends(s[k]) /\ Ends(s[n]) /\ s[k].obj = s[n].obj => k = n

Shape(s) == (\A k \in DOMAIN s : CallAt(s, k)) /\ EndsOnce(s)

\* Whether a call op on o is in progress.
Does(s, op, o) == \E f \in ToSet(s) : f.op = op /\ f.obj = o
Ending(s, o)   == Does(s, "free", o) \/ Does(s, "unlink", o)

\* Only classes have slots; a wrapper wraps an object that is not one itself.
KindInv ==
  /\ \A o \in Obj : ~HasSlots(o) => Slots(o) = {}
  /\ \A w, o \in Obj : Wraps(w, o) => HasSlots(o)
  /\ \A w \in Obj : kind[w] = "iface" => impl[w] \in Obj

\* What has begun to die has its end on the stack, and no slot when it comes.
EndInv ==
  /\ \A o \in Obj : o \in pending <=> o \in detached \/ Ending(stack, o)
  /\ \A o \in detached : ~Ending(stack, o) /\ o \notin listed /\ Slots(o) = {}
  /\ \A o \in Obj : Ending(stack, o) => Slots(o) = {} \/ Does(stack, "detach", o)
  /\ \A o \in Obj : Does(stack, "detach", o) => HasSlots(o)
  /\ \A o \in Obj : Does(stack, "free", o) => prop[o] = 0 /\ o \notin listed

\* What dies has no owner left; what has none is about to die.
DyingInv ==
  /\ \A o \in pending : kind[o] # "free" /\ ref[o] = 0
  /\ \A o \in Obj : Does(stack, "dealloc", o) =>
       o \notin pending /\ kind[o] # "free" /\ ref[o] = 0 /\ prop[o] = 0
  /\ \A o \in Obj : kind[o] # "free" /\ o \notin pending /\ ~Does(stack, "dealloc", o) =>
       ref[o] > 0 \/ prop[o] > 0

\* What is to be stored, and where, the program holds.
StoreInv ==
  \A f \in ToSet(stack) : f.op = "store" =>
    /\ f.obj # Class => local[f.obj] > 0 /\ HasSlots(f.obj)
    /\ f.val # Null => local[f.val] > 0

ModeInv ==
  /\ mode \notin {"clear", "unpin"} => pinned = {}
  /\ mode \in {"mark", "collected", "ended"} => stack = <<>>
  /\ mode # "run" => \A o \in Holder : ~Does(stack, "store", o)
  /\ mode # "statics" => ~Does(stack, "clear", Class)
  /\ mode # "sweep" => detached = {} /\ \A o \in Obj : ~Does(stack, "unlink", o)
  /\ mode # "mark" => queue = {}
  /\ mode \notin {"sweep", "ended"} => visited = {} /\ old_count = 0 /\ new_count = 0
  /\ mode \in {"statics", "sweep", "ended"} => \A o \in Obj : local[o] = 0
  /\ mode \in {"sweep", "ended"} => Slots(Class) = {}

\* The heap does not change while it is marked.
MarkInv ==
  mode = "mark" =>
    /\ nodes = Nodes /\ Roots(Nodes) \subseteq live
    /\ \A o \in live \ queue : Edges(o) \cap nodes \subseteq live
    /\ before.used = Reach(ProgramRoots)
    /\ before.kept = Reach(ProgramRoots \cup {o \in Obj : kind[o] = "native"})
    /\ live \subseteq before.kept

\* Only garbage owns garbage, and what the program uses holds itself up.
CutInv ==
  mode \in {"clear", "unpin"} =>
    /\ pinned \subseteq Garbage /\ (mode = "clear" => pinned = Garbage)
    /\ \A o \in Garbage : local[o] = 0
    /\ \A c \in Cell : slot[c] \in Garbage => c[1] \in Garbage
    /\ \A w \in Obj : \A o \in Garbage : Wraps(w, o) => w \in Garbage
    /\ mode = "unpin" => \A o \in Garbage : Slots(o) = {}
    /\ \A o \in Obj : kind[o] # "free" => o \in before.kept \cup Garbage
    /\ before.used \cap Garbage = {}
    /\ \A o \in before.used :
         /\ kind[o] # "free" /\ o \notin pending
         /\ local[o] > 0 \/ \E p \in before.used \cup {Class} :
              (\E i \in Index(p) : slot[<<p, i>>] = o) \/ Wraps(p, o)

WrappersGone == \A w \in Obj : kind[w] = "iface" => w \in pending

\* A pass of the sweep detaches every wrapper; what it skips is wrapped by one
\* it detached meanwhile, or has yet to detach.
SweepInv ==
  mode = "sweep" =>
    /\ stack # <<>> => new_count > 0
    /\ \A o \in visited : kind[o] = "iface" => o \in pending
    /\ old_count # 0 => WrappersGone /\ \A o \in visited : kind[o] = "free" \/ o \in pending
    /\ \A o \in visited : kind[o] = "free" \/ o \in pending \/ ref[o] > 0 \/ new_count > 0

\* CountsOwners without the types.
Counted ==
  \A o \in Obj :
    /\ prop[o] = Cardinality(HoldingCells(o))
    /\ ref[o] = local[o] + Cardinality(Wrappers(o)) + (IF o \in pinned THEN 1 ELSE 0)
    /\ kind[o] = "free" => ref[o] = 0 /\ prop[o] = 0 /\ o \notin listed \cup detached
    /\ o \notin pending => (o \in listed <=> prop[o] > 0)

HeapInv == Shape(stack) /\ KindInv /\ EndInv /\ DyingInv /\ StoreInv
IInv    == CountsOwners /\ HeapInv /\ ModeInv /\ MarkInv /\ CutInv /\ CollectExact /\ SweepInv /\ ExitEmpties


-----------------------------------------------------------------------------
(* Sequences of calls, and the counting.                                   *)


\* A call stack keeps its shape when its top returns (index by index).
LEMMA TailShape ==
  ASSUME NEW n \in Nat, NEW s, NEW t, DOMAIN s = 1 .. n + 1, Len(s) = n + 1,
         DOMAIN t = 1 .. n, Len(t) = n, \A k \in 1 .. n : t[k] = s[k + 1], Shape(s)
  PROVE  /\ Shape(t)
         /\ ToSet(s) = {s[1]} \cup ToSet(t)
         /\ \A o : ~Does(t, "dealloc", o)
         /\ Ends(s[1]) => ~Ending(t, s[1].obj) /\ ~Does(t, "detach", s[1].obj)
         /\ s[1].op \in {"store", "unlink"} \/ (s[1].op = "clear" /\ s[1].obj = Class) => n = 0
         /\ s[1].op = "detach" =>
              /\ Ending(t, s[1].obj) /\ ~Does(t, "detach", s[1].obj) /\ ~Does(s, "clear", s[1].obj)
<1> USE DEF Ends
<1>1. 1 \in DOMAIN s /\ \A k \in 1 .. n : k \in DOMAIN t /\ k + 1 \in DOMAIN s
  OBVIOUS
<1>2. \A k \in DOMAIN s : CallAt(s, k)
  BY DEF Shape
<1>3. ASSUME NEW k \in 1 .. n PROVE CallAt(t, k) /\ t[k].op # "dealloc"
  <2> DEFINE m == k + 1
  <2>1. m \in DOMAIN s /\ t[k] = s[m] /\ (k = n <=> m = Len(s)) /\ (k < n <=> m < Len(s)) /\ m # 1
    OBVIOUS
  <2>2. CallAt(s, m)
    BY <1>2, <2>1
  <2>3. k < n => t[k + 1] = s[m + 1]
    OBVIOUS
  <2> HIDE DEF m
  <2>4. t[k].op # "dealloc"
    BY <2>1, <2>2 DEF CallAt
  <2>5. t[k].op = "detach" => k < n /\ Ends(t[k + 1]) /\ t[k + 1].obj = t[k].obj
    BY <2>1, <2>2, <2>3 DEF CallAt
  <2>6. t[k].op = "clear" =>
          IF t[k].obj = Class THEN k = n ELSE k < n /\ t[k + 1].op = "detach" /\ t[k + 1].obj = t[k].obj
    BY <2>1, <2>2, <2>3 DEF CallAt
  <2>7. /\ t[k].op \in {"free", "unlink", "dealloc", "detach"} => t[k].obj \in Obj
        /\ t[k].op \in {"clear", "store"} => <<t[k].obj, t[k].at>> \in Cell
        /\ t[k].op \in {"store", "unlink"} => k = n
    BY <2>1, <2>2 DEF CallAt
  <2> QED BY <2>4, <2>5, <2>6, <2>7 DEF CallAt
<1>4. EndsOnce(t)
  <2> SUFFICES ASSUME NEW k \in 1 .. n, NEW m \in 1 .. n, Ends(t[k]), Ends(t[m]), t[k].obj = t[m].obj
               PROVE  k = m
    BY DEF EndsOnce
  <2>1. k + 1 = m + 1
    BY <1>1 DEF Shape, EndsOnce
  <2> QED BY <2>1
<1>5. Shape(t)
  BY <1>3, <1>4 DEF Shape
<1>6. \A f \in ToSet(t) : \E k \in DOMAIN s : k > 1 /\ f = s[k] /\ k - 1 \in DOMAIN t
  BY DEF ToSet
<1>7. ToSet(s) = {s[1]} \cup ToSet(t)
  <2>1. \A k \in DOMAIN s : k = 1 \/ (k - 1 \in DOMAIN t /\ s[k] = t[k - 1])
    OBVIOUS
  <2> QED BY <1>1, <2>1 DEF ToSet
<1>8. \A o : ~Does(t, "dealloc", o)
  <2> SUFFICES ASSUME NEW f \in ToSet(t), f.op = "dealloc" PROVE FALSE
    BY DEF Does
  <2>1. PICK k \in DOMAIN s : k > 1 /\ f = s[k]
    BY <1>6
  <2>2. CallAt(s, k)
    BY <1>2, <2>1
  <2> QED BY <2>1, <2>2 DEF CallAt
<1>9. ASSUME Ends(s[1]), NEW f \in ToSet(t), Ends(f) \/ f.op = "detach", f.obj = s[1].obj PROVE FALSE
  <2>1. PICK k \in DOMAIN s : k > 1 /\ f = s[k]
    BY <1>6
  <2>2. CASE Ends(f)
    BY <1>1, <1>9, <2>1, <2>2 DEF Shape, EndsOnce
  <2>3. CASE f.op = "detach"
    <3>1. k < Len(s) /\ Ends(s[k + 1]) /\ s[k + 1].obj = s[1].obj
      BY <1>2, <1>9, <2>1, <2>3 DEF CallAt
    <3>2. k + 1 \in DOMAIN s /\ k + 1 # 1
      BY <2>1, <3>1
    <3> QED BY <1>1, <1>9, <3>1, <3>2 DEF Shape, EndsOnce
  <2> QED BY <1>9, <2>2, <2>3
<1>10. Ends(s[1]) => ~Ending(t, s[1].obj) /\ ~Does(t, "detach", s[1].obj)
  BY <1>9 DEF Ending, Does
<1>11. s[1].op \in {"store", "unlink"} \/ (s[1].op = "clear" /\ s[1].obj = Class) => 1 = Len(s)
  BY <1>1, <1>2 DEF CallAt
<1>12. ASSUME s[1].op = "detach"
       PROVE  Ending(t, s[1].obj) /\ ~Does(t, "detach", s[1].obj) /\ ~Does(s, "clear", s[1].obj)
  <2> DEFINE o == s[1].obj
  <2>1. o \in Obj /\ o # Class
    BY <1>1, <1>2, <1>12, ArcAssumption DEF CallAt
  <2>2. 1 < Len(s) /\ Ends(s[1 + 1]) /\ s[1 + 1].obj = o
    BY <1>1, <1>2, <1>12 DEF CallAt
  <2>3. 1 \in 1 .. n /\ 2 \in DOMAIN s /\ t[1] = s[2] /\ s[1 + 1] = s[2]
    BY <2>2
  <2>4. Ending(t, o)
    BY <2>2, <2>3 DEF Ending, Does, ToSet
  <2>5. \A k \in DOMAIN s : k # 1 /\ s[k].op = "detach" => s[k].obj # o
    <3> SUFFICES ASSUME NEW k \in DOMAIN s, k # 1, s[k].op = "detach", s[k].obj = o PROVE FALSE
      OBVIOUS
    <3>1. k < Len(s) /\ Ends(s[k + 1]) /\ s[k + 1].obj = o
      BY <1>2 DEF CallAt
    <3>2. k + 1 \in DOMAIN s /\ k + 1 # 2
      BY <3>1
    <3> QED BY <2>2, <2>3, <3>1, <3>2 DEF Shape, EndsOnce
  <2>6. ~Does(t, "detach", o)
    BY <1>6, <2>5 DEF Does
  <2>7. ~Does(s, "clear", o)
    <3> SUFFICES ASSUME NEW k \in DOMAIN s, s[k].op = "clear", s[k].obj = o PROVE FALSE
      BY DEF Does, ToSet
    <3>1. k < Len(s) /\ s[k + 1].op = "detach" /\ s[k + 1].obj = o
      BY <1>2, <2>1 DEF CallAt
    <3>2. k + 1 \in DOMAIN s /\ k + 1 # 1
      BY <3>1
    <3> QED BY <2>5, <3>1, <3>2
  <2> QED BY <2>4, <2>6, <2>7
<1> QED BY <1>5, <1>7, <1>8, <1>10, <1>11, <1>12

\* The same for Tail, with what the top leaves behind.
LEMMA PopFacts ==
  ASSUME NEW s \in Seq(FrameType), s # <<>>, Shape(s)
  PROVE  /\ Tail(s) \in Seq(FrameType) /\ Head(s) \in FrameType
         /\ Shape(Tail(s))
         /\ ToSet(s) = {Head(s)} \cup ToSet(Tail(s))
         /\ \A o : ~Does(Tail(s), "dealloc", o)
         /\ Ends(Head(s)) => ~Ending(Tail(s), Head(s).obj) /\ ~Does(Tail(s), "detach", Head(s).obj)
         /\ Head(s).op \in {"store", "unlink"} \/ (Head(s).op = "clear" /\ Head(s).obj = Class) => Tail(s) = <<>>
         /\ Head(s).op = "detach" =>
              /\ Ending(Tail(s), Head(s).obj) /\ ~Does(Tail(s), "detach", Head(s).obj)
              /\ ~Does(s, "clear", Head(s).obj)
<1> DEFINE t == Tail(s)
           n == Len(t)
<1>1. t \in Seq(FrameType) /\ Head(s) \in FrameType /\ n \in Nat /\ Len(s) = n + 1
      /\ \A k \in 1 .. n : t[k] = s[k + 1]
  BY HeadTailProperties, EmptySeq, LenProperties
<1>2. DOMAIN s = 1 .. n + 1 /\ DOMAIN t = 1 .. n
  BY <1>1, LenProperties
<1>3. Head(s) = s[1]
  BY <1>1
<1>4. n = 0 => t = <<>>
  BY <1>1, EmptySeq
<1> HIDE DEF n, t
<1>5. /\ Shape(t)
      /\ ToSet(s) = {s[1]} \cup ToSet(t)
      /\ \A o : ~Does(t, "dealloc", o)
      /\ Ends(s[1]) => ~Ending(t, s[1].obj) /\ ~Does(t, "detach", s[1].obj)
      /\ s[1].op \in {"store", "unlink"} \/ (s[1].op = "clear" /\ s[1].obj = Class) => n = 0
      /\ s[1].op = "detach" =>
           /\ Ending(t, s[1].obj) /\ ~Does(t, "detach", s[1].obj) /\ ~Does(s, "clear", s[1].obj)
  <2>1. Len(t) = n
    BY DEF n
  <2> QED BY <1>1, <1>2, <2>1, TailShape
<1>6. t = Tail(s)
  BY DEF t
<1> QED BY <1>1, <1>3, <1>4, <1>5, <1>6, Zenon

\* A call stack keeps its shape under a call that its top may make (index by index).
LEMMA PushShape ==
  ASSUME NEW n \in Nat, NEW s, NEW t, NEW f, DOMAIN s = 1 .. n, Len(s) = n,
         DOMAIN t = 1 .. n + 1, Len(t) = n + 1, t[1] = f, \A k \in 1 .. n : t[k + 1] = s[k],
         Shape(s), \A o : ~Does(s, "dealloc", o),
         f.op \in {"free", "unlink", "dealloc", "detach"} => f.obj \in Obj,
         f.op = "detach" => n > 0 /\ Ends(s[1]) /\ s[1].obj = f.obj,
         f.op = "clear" => IF f.obj = Class THEN n = 0 ELSE n > 0 /\ s[1].op = "detach" /\ s[1].obj = f.obj,
         f.op \in {"clear", "store"} => <<f.obj, f.at>> \in Cell,
         f.op \in {"store", "unlink"} => n = 0,
         Ends(f) => ~Ending(s, f.obj)
  PROVE  Shape(t) /\ ToSet(t) = {f} \cup ToSet(s)
<1> USE DEF Ends
<1>1. \A k \in DOMAIN t : k = 1 \/ (k - 1 \in DOMAIN s /\ t[k] = s[k - 1])
  OBVIOUS
<1>2. \A k \in DOMAIN s : CallAt(s, k)
  BY DEF Shape
<1>3. ASSUME NEW k \in DOMAIN t PROVE CallAt(t, k)
  <2>1. CASE k = 1
    <3>1. n > 0 => t[1 + 1] = s[1]
      OBVIOUS
    <3> QED BY <2>1, <3>1 DEF CallAt
  <2>2. CASE k # 1
    <3> DEFINE m == k - 1
    <3>1. m \in DOMAIN s /\ t[k] = s[m] /\ (k = Len(t) <=> m = n) /\ (k < Len(t) <=> m < n)
      BY <2>2
    <3>2. CallAt(s, m)
      BY <1>2, <3>1
    <3>3. m < n => t[k + 1] = s[m + 1]
      BY <2>2
    <3> HIDE DEF m
    <3>4. t[k].op # "dealloc"
      BY <3>1 DEF Does, ToSet
    <3>5. t[k].op = "detach" => k < Len(t) /\ Ends(t[k + 1]) /\ t[k + 1].obj = t[k].obj
      BY <3>1, <3>2, <3>3 DEF CallAt
    <3>6. t[k].op = "clear" =>
            IF t[k].obj = Class THEN k = Len(t)
            ELSE k < Len(t) /\ t[k + 1].op = "detach" /\ t[k + 1].obj = t[k].obj
      BY <3>1, <3>2, <3>3 DEF CallAt
    <3>7. /\ t[k].op \in {"free", "unlink", "dealloc", "detach"} => t[k].obj \in Obj
          /\ t[k].op \in {"clear", "store"} => <<t[k].obj, t[k].at>> \in Cell
          /\ t[k].op \in {"store", "unlink"} => k = Len(t)
      BY <3>1, <3>2 DEF CallAt
    <3> QED BY <3>4, <3>5, <3>6, <3>7 DEF CallAt
  <2> QED BY <2>1, <2>2
<1>4. EndsOnce(t)
  <2>1. Ends(f) => \A k \in DOMAIN s : Ends(s[k]) => s[k].obj # f.obj
    BY DEF Ending, Does, ToSet
  <2>2. ASSUME NEW k \in DOMAIN t, NEW m \in DOMAIN t, Ends(t[k]), Ends(t[m]), t[k].obj = t[m].obj,
               k # 1, m # 1
        PROVE  k = m
    <3>1. k - 1 = m - 1
      BY <1>1, <2>2 DEF Shape, EndsOnce
    <3> QED BY <3>1
  <2>3. ASSUME NEW m \in DOMAIN t, m # 1, Ends(f), Ends(t[m]), t[m].obj = f.obj PROVE FALSE
    <3>1. m - 1 \in DOMAIN s /\ t[m] = s[m - 1]
      BY <1>1, <2>3
    <3> QED BY <2>1, <2>3, <3>1
  <2> SUFFICES ASSUME NEW k \in DOMAIN t, NEW m \in DOMAIN t, Ends(t[k]), Ends(t[m]), t[k].obj = t[m].obj,
                      k # m
               PROVE  FALSE
    BY DEF EndsOnce
  <2>4. k # 1 /\ m # 1
    BY <2>3
  <2> QED BY <2>2, <2>4
<1>5. ToSet(t) = {f} \cup ToSet(s)
  <2>1. 1 \in DOMAIN t /\ \A k \in DOMAIN s : k + 1 \in DOMAIN t
    OBVIOUS
  <2> QED BY <1>1, <2>1 DEF ToSet
<1> QED BY <1>3, <1>4, <1>5 DEF Shape

\* The same for a frame put before a sequence.
LEMMA PushFacts ==
  ASSUME NEW s \in Seq(FrameType), NEW f \in FrameType,
         Shape(s), \A o : ~Does(s, "dealloc", o),
         f.op \in {"free", "unlink", "dealloc", "detach"} => f.obj \in Obj,
         f.op = "detach" => s # <<>> /\ Ends(Head(s)) /\ Head(s).obj = f.obj,
         f.op = "clear" =>
           IF f.obj = Class THEN s = <<>> ELSE s # <<>> /\ Head(s).op = "detach" /\ Head(s).obj = f.obj,
         f.op \in {"clear", "store"} => <<f.obj, f.at>> \in Cell,
         f.op \in {"store", "unlink"} => s = <<>>,
         Ends(f) => ~Ending(s, f.obj)
  PROVE  /\ <<f>> \o s \in Seq(FrameType) /\ <<f>> \o s # <<>> /\ Head(<<f>> \o s) = f
         /\ Shape(<<f>> \o s)
         /\ ToSet(<<f>> \o s) = {f} \cup ToSet(s)
<1> DEFINE t == <<f>> \o s
           n == Len(s)
<1>1. <<f>> \in Seq(FrameType) /\ Len(<<f>>) = 1 /\ <<f>>[1] = f
  OBVIOUS
<1>2. n \in Nat /\ t \in Seq(FrameType) /\ Len(t) = n + 1
      /\ \A i \in 1 .. 1 + n : t[i] = IF i <= 1 THEN <<f>>[i] ELSE s[i - 1]
  BY <1>1, ConcatProperties, LenProperties
<1>3. DOMAIN s = 1 .. n /\ DOMAIN t = 1 .. n + 1
  BY <1>2, LenProperties
<1>4. t[1] = f /\ \A k \in 1 .. n : t[k + 1] = s[k]
  BY <1>1, <1>2
<1>5. (n = 0 <=> s = <<>>) /\ (s # <<>> => n > 0)
  BY <1>2, EmptySeq
<1>6. Head(s) = s[1] /\ Head(t) = t[1] /\ t # <<>>
  BY <1>2, EmptySeq
<1> HIDE DEF t
<1>7. Shape(t) /\ ToSet(t) = {f} \cup ToSet(s)
  <2>1. Len(s) = n
    OBVIOUS
  <2> HIDE DEF n
  <2>2. f.op = "detach" => n > 0 /\ Ends(s[1]) /\ s[1].obj = f.obj
    BY <1>5, <1>6
  <2>3. f.op = "clear" => IF f.obj = Class THEN n = 0 ELSE n > 0 /\ s[1].op = "detach" /\ s[1].obj = f.obj
    BY <1>5, <1>6
  <2>4. f.op \in {"store", "unlink"} => n = 0
    BY <1>5
  <2>5. n \in Nat /\ DOMAIN s = 1 .. n /\ DOMAIN t = 1 .. n + 1 /\ Len(t) = n + 1
    BY <1>2, <1>3
  <2>6. t[1] = f /\ (\A k \in 1 .. n : t[k + 1] = s[k])
    BY <1>4
  <2> QED BY <2>1, <2>2, <2>3, <2>4, <2>5, <2>6, PushShape
<1>8. t = <<f>> \o s
  BY DEF t
<1> QED BY <1>2, <1>4, <1>6, <1>7, <1>8, Zenon


StaleOf(s) == {<<f.obj, f.at>> : f \in {g \in ToSet(s) : g.op \in {"clear", "store"}}}

\* What TypeOK says of each variable.
LEMMA Types ==
  ASSUME TypeOK
  PROVE  /\ kind \in [Obj -> Kind] /\ impl \in [Obj -> Obj \cup {Null}]
         /\ slot \in [Cell -> Obj \cup {Null}] /\ local \in [Obj -> 0 .. MaxLocals]
         /\ ref \in [Obj -> Nat] /\ prop \in [Obj -> Nat]
         /\ pending \subseteq Obj /\ listed \subseteq Obj /\ detached \subseteq Obj
         /\ stack \in Seq(FrameType)
BY DEF TypeOK

\* There are finitely many slots.
LEMMA CellFinite == IsFiniteSet(Cell)
<1>1. IsFiniteSet({Class})
  BY FS_Singleton
<1>2. IsFiniteSet(Obj \X Slot) /\ IsFiniteSet({Class} \X Static)
  BY <1>1, FS_Product, ArcAssumption
<1> QED BY <1>2, FS_Union DEF Cell

\* So an object has finitely many owners.
LEMMA OwnersFinite ==
  \A o : /\ IsFiniteSet(HoldingCells(o)) /\ Cardinality(HoldingCells(o)) \in Nat
         /\ IsFiniteSet(Wrappers(o)) /\ Cardinality(Wrappers(o)) \in Nat
<1> TAKE o
<1>1. HoldingCells(o) \in SUBSET Cell /\ Wrappers(o) \in SUBSET Obj
  BY DEF HoldingCells, Wrappers
<1>2. IsFiniteSet(HoldingCells(o)) /\ IsFiniteSet(Wrappers(o))
  BY <1>1, CellFinite, FS_Subset, ArcAssumption
<1> QED BY <1>2, FS_CardinalityType

\* One element less.
LEMMA CountLess ==
  ASSUME NEW S, IsFiniteSet(S), NEW x \in S
  PROVE  Cardinality(S \ {x}) = Cardinality(S) - 1 /\ Cardinality(S) \in Nat /\ Cardinality(S) > 0
<1>1. Cardinality(S \ {x}) = Cardinality(S) - 1 /\ IsFiniteSet(S \ {x})
  BY FS_RemoveElement
<1>2. Cardinality(S) \in Nat /\ Cardinality(S \ {x}) \in Nat
  BY <1>1, FS_CardinalityType
<1> QED BY <1>1, <1>2

\* An object that some live slot holds has a property count; one wrapped, a
\* reference count; one nobody has a handle on, wraps or pins, none.
LEMMA OwnedFacts ==
  ASSUME TypeOK, Counted
  PROVE  /\ \A o \in Obj : \A c \in Cell : slot[c] = o /\ c \notin Stale => prop[o] > 0
         /\ \A o, w \in Obj : Wraps(w, o) => ref[o] > 0
         /\ \A o \in Obj : local[o] > 0 \/ o \in pinned => ref[o] > 0
         /\ \A o \in Obj : local[o] = 0 /\ o \notin pinned /\ (\A w \in Obj : ~Wraps(w, o)) => ref[o] = 0
         /\ \A o \in Obj : (\A c \in Cell : slot[c] = o => c \in Stale) => prop[o] = 0
         /\ \A o \in Obj : prop[o] > 0 => \E c \in Cell : slot[c] = o /\ c \notin Stale
<1>1. \A o : /\ Cardinality(HoldingCells(o)) \in Nat /\ Cardinality(Wrappers(o)) \in Nat
             /\ (Cardinality(HoldingCells(o)) = 0 <=> HoldingCells(o) = {})
             /\ (Cardinality(Wrappers(o)) = 0 <=> Wrappers(o) = {})
  BY OwnersFinite, FS_EmptySet
<1>2. \A o \in Obj : local[o] \in Nat /\ ref[o] \in Nat /\ prop[o] \in Nat
  BY Types, ArcAssumption
<1>3. \A o \in Obj : prop[o] > 0 <=> HoldingCells(o) # {}
  BY <1>1, <1>2 DEF Counted
<1>4. \A o \in Obj : ref[o] = local[o] + Cardinality(Wrappers(o)) + (IF o \in pinned THEN 1 ELSE 0)
  BY DEF Counted
<1>5. \A o \in Obj : /\ Wrappers(o) # {} \/ local[o] > 0 \/ o \in pinned => ref[o] > 0
                     /\ Wrappers(o) = {} /\ local[o] = 0 /\ o \notin pinned => ref[o] = 0
  BY <1>1, <1>2, <1>4
<1> QED BY <1>2, <1>3, <1>5 DEF HoldingCells, Wrappers

\* Counts are natural numbers.
LEMMA Numbers == ASSUME TypeOK PROVE \A o \in Obj : ref[o] \in Nat /\ prop[o] \in Nat /\ local[o] \in Nat
BY Types, ArcAssumption

\* An object with ref at zero has no handle, pin or wrapper.
LEMMA NoRef ==
  ASSUME TypeOK, Counted, NEW o \in Obj, ref[o] = 0
  PROVE  local[o] = 0 /\ o \notin pinned /\ \A w \in Obj : ~Wraps(w, o)
<1>1. ~(ref[o] > 0) /\ local[o] \in Nat
  BY Numbers
<1> QED BY <1>1, OwnedFacts

\* A slot that lets go of its object and a decrement of the property count go together.
LEMMA LoseCell ==
  ASSUME TypeOK, Counted, NEW c \in Cell, NEW v \in Obj, slot[c] = v, c \notin Stale,
         \A o \in Obj : HoldingCells(o)' = HoldingCells(o) \ {c},
         prop' = [prop EXCEPT ![v] = @ - 1]
  PROVE  /\ prop[v] > 0 /\ prop' \in [Obj -> Nat]
         /\ \A o \in Obj : prop'[o] = Cardinality(HoldingCells(o))' /\ prop'[o] <= prop[o]
<1>1. \A o \in Obj : o # v => HoldingCells(o)' = HoldingCells(o)
  BY DEF HoldingCells
<1>2. c \in HoldingCells(v)
  BY DEF HoldingCells
<1>3. /\ Cardinality(HoldingCells(v) \ {c}) = Cardinality(HoldingCells(v)) - 1
      /\ Cardinality(HoldingCells(v)) > 0
  BY <1>2, OwnersFinite, CountLess
<1>4. prop[v] > 0 /\ prop' \in [Obj -> Nat] /\ prop'[v] = prop[v] - 1
      /\ \A o \in Obj : o # v => prop'[o] = prop[o]
  BY <1>3, Types DEF Counted
<1>5. \A o \in Obj : prop'[o] <= prop[o]
  BY <1>4, Types
<1>6. prop'[v] = Cardinality(HoldingCells(v))'
  BY <1>3, <1>4 DEF Counted
<1>7. \A o \in Obj : o # v => prop'[o] = Cardinality(HoldingCells(o))'
  BY <1>1, <1>4 DEF Counted
<1> QED BY <1>4, <1>5, <1>6, <1>7

\* The parts of the invariant in this state.
LEMMA Parts ==
  ASSUME IInv
  PROVE  /\ TypeOK /\ Counted /\ Shape(stack) /\ KindInv /\ EndInv /\ DyingInv /\ StoreInv
         /\ ModeInv /\ MarkInv /\ CutInv /\ CollectExact /\ SweepInv /\ ExitEmpties
BY DEF IInv, HeapInv, CountsOwners, Counted

\* And in the next.
LEMMA Whole ==
  ASSUME TypeOK', Counted', Shape(stack'), KindInv', EndInv', DyingInv', StoreInv',
         ModeInv', MarkInv', CutInv', CollectExact', SweepInv', ExitEmpties'
  PROVE  IInv'
BY DEF IInv, HeapInv, CountsOwners, Counted

\* s is rest, with the call on top that kills whom the last step left without owner.
Atop(s, rest, dead) ==
  /\ s \in Seq(FrameType) /\ Shape(s) /\ (rest # <<>> => s # <<>>)
  /\ \A op, o : op # "dealloc" => (Does(s, op, o) <=> Does(rest, op, o))
  /\ \A o : Does(s, "dealloc", o) <=> o \in dead
  /\ StaleOf(s) = StaleOf(rest)
  /\ \A f \in ToSet(s) : f.op # "dealloc" => f \in ToSet(rest)

\* What a decrement pushes: the frame of a death, or nothing.
LEMMA AtopFacts ==
  ASSUME NEW rest \in Seq(FrameType), Shape(rest), \A o : ~Does(rest, "dealloc", o), NEW v \in Obj
  PROVE  Atop(Do("dealloc", v) \o rest, rest, {v}) /\ Atop(<<>> \o rest, rest, {})
<1> DEFINE f == Frame("dealloc", v, Null, Null)
           s == <<f>> \o rest
<1>1. f \in FrameType /\ f.op = "dealloc" /\ f.obj = v /\ Do("dealloc", v) = <<f>>
  BY DEF Frame, FrameType, Op, Holder, Do
<1> HIDE DEF f
<1>2. s \in Seq(FrameType) /\ s # <<>> /\ Shape(s) /\ ToSet(s) = {f} \cup ToSet(rest)
  BY <1>1, PushFacts DEF Ends
<1> HIDE DEF s
<1>3. Atop(s, rest, {v})
  BY <1>1, <1>2 DEF Does, StaleOf, Atop
<1>4. Do("dealloc", v) \o rest = s
  BY <1>1 DEF s
<1>5. <<>> \o rest = rest
  BY ConcatEmptySeq
<1>6. Atop(rest, rest, {})
  BY DEF Atop
<1> QED BY <1>3, <1>4, <1>5, <1>6

\* A frame of the stack has a type and belongs to a holder.
LEMMA FrameIn ==
  ASSUME NEW s \in Seq(FrameType), NEW f \in ToSet(s)
  PROVE  f \in FrameType /\ f.obj \in Holder
<1>1. PICK k \in DOMAIN s : f = s[k]
  BY DEF ToSet
<1>2. f \in FrameType
  BY <1>1, LenProperties, ElementOfSeq
<1> QED BY <1>2 DEF FrameType

\* A slot is emptied and its property count goes down, whoever does it.
LEMMA ReleaseSlot ==
  ASSUME IInv, NEW c \in Cell, NEW v \in Obj, slot[c] = v, c \notin Stale,
         NEW rest \in Seq(FrameType), DecProp(v, rest), Shape(rest),
         \A o : ~Does(stack, "dealloc", o) /\ ~Does(rest, "dealloc", o),
         \A o \in Obj : \A op \in {"free", "unlink", "detach"} : Does(rest, op, o) <=> Does(stack, op, o),
         slot' \in [Cell -> Obj \cup {Null}], \A d \in Cell : slot'[d] \in {slot[d], Null},
         \A o \in Obj : {d \in Cell : slot'[d] = o /\ d \notin StaleOf(rest)} = HoldingCells(o) \ {c},
         UNCHANGED <<kind, impl, local, ref, pending, detached, mode, gcVars, sweepVars>>
  PROVE  /\ TypeOK' /\ Counted' /\ Shape(stack') /\ KindInv' /\ EndInv' /\ DyingInv'
         /\ rest # <<>> => stack' # <<>>
         /\ \A op, o : op # "dealloc" => (Does(stack', op, o) <=> Does(rest, op, o))
         /\ \A f \in ToSet(stack') : f.op # "dealloc" => f \in ToSet(rest)
<1>0. TypeOK /\ Counted /\ KindInv /\ EndInv /\ DyingInv
  BY Parts
<1> DEFINE last == prop[v] = 1 /\ v \notin pending
           dies == last /\ ref[v] = 0
<1>1. /\ prop' = [prop EXCEPT ![v] = @ - 1]
      /\ listed' = IF last THEN listed \ {v} ELSE listed
      /\ stack' = (IF dies THEN Do("dealloc", v) ELSE <<>>) \o rest
  BY DEF DecProp
<1> HIDE DEF dies
<1>3. Atop(stack', rest, IF dies THEN {v} ELSE {})
  BY <1>1, AtopFacts
<1>4. Stale' = StaleOf(rest)
  BY <1>3 DEF Stale, StaleOf, Atop
<1>5. \A o \in Obj : HoldingCells(o)' = HoldingCells(o) \ {c}
  BY <1>4 DEF HoldingCells
<1>6. /\ prop[v] > 0 /\ prop' \in [Obj -> Nat]
      /\ \A o \in Obj : prop'[o] = Cardinality(HoldingCells(o))' /\ prop'[o] <= prop[o]
  BY <1>0, <1>1, <1>5, LoseCell
<1>7. listed' \subseteq listed
  BY <1>1
<1>8. TypeOK'
  BY <1>0, <1>3, <1>6, <1>7 DEF TypeOK, gcVars, sweepVars, Atop
<1>9. \A o \in Obj : Wrappers(o)' = Wrappers(o)
  BY DEF Wrappers, Wraps
<1>10. pinned' = pinned
  BY DEF gcVars
<1>11. kind[v] # "free"
  BY <1>0, <1>6 DEF Counted
<1>12. Counted'
  <2> SUFFICES ASSUME NEW o \in Obj
               PROVE  /\ prop'[o] = Cardinality(HoldingCells(o))'
                      /\ ref'[o] = local'[o] + Cardinality(Wrappers(o))' + (IF o \in pinned' THEN 1 ELSE 0)
                      /\ kind'[o] = "free" => ref'[o] = 0 /\ prop'[o] = 0 /\ o \notin listed' \cup detached'
                      /\ o \notin pending' => (o \in listed' <=> prop'[o] > 0)
    BY DEF Counted
  <2>1. prop'[o] = Cardinality(HoldingCells(o))'
    BY <1>6
  <2>2. ref'[o] = local'[o] + Cardinality(Wrappers(o))' + (IF o \in pinned' THEN 1 ELSE 0)
    BY <1>0, <1>9, <1>10 DEF Counted
  <2>3. kind'[o] = "free" => ref'[o] = 0 /\ prop'[o] = 0 /\ o \notin listed' \cup detached'
    BY <1>0, <1>1, <1>7, <1>11, Types DEF Counted
  <2>4. o \notin pending' => (o \in listed' <=> prop'[o] > 0)
    <3>1. CASE o = v
      BY <1>0, <1>1, <1>6, <3>1, Types DEF Counted
    <3>2. CASE o # v
      BY <1>0, <1>1, <3>2, Types DEF Counted
    <3> QED BY <3>1, <3>2
  <2> QED BY <2>1, <2>2, <2>3, <2>4
<1>13. \A o \in Obj : Slots(o) = {} => Slots(o)' = {}
  BY ArcAssumption DEF Slots, Index, Cell
<1>14. KindInv'
  BY <1>0, <1>13 DEF KindInv, HasSlots, Wraps
<1>15. EndInv'
  <2>1. \A o \in Obj : Ending(stack', o) <=> Ending(stack, o)
    BY <1>3 DEF Ending, Atop
  <2>2. \A o \in Obj : /\ Does(stack', "detach", o) <=> Does(stack, "detach", o)
                       /\ Does(stack', "free", o) <=> Does(stack, "free", o)
    BY <1>3 DEF Atop
  <2>3. \A o \in Obj : prop[o] = 0 => prop'[o] = 0
    BY <1>0, <1>6, Types
  <2> QED BY <1>0, <1>7, <1>13, <2>1, <2>2, <2>3, Types DEF EndInv, HasSlots
<1>16. DyingInv'
  <2>1. \A o \in pending' : kind'[o] # "free" /\ ref'[o] = 0
    BY <1>0 DEF DyingInv
  <2>2. ASSUME NEW o \in Obj, Does(stack', "dealloc", o)
        PROVE  o \notin pending' /\ kind'[o] # "free" /\ ref'[o] = 0 /\ prop'[o] = 0
    <3>1. dies /\ o = v
      BY <1>3, <2>2 DEF Atop
    <3> QED BY <1>0, <1>1, <1>11, <3>1, Types DEF dies
  <2>3. ASSUME NEW o \in Obj, kind'[o] # "free", o \notin pending', ~Does(stack', "dealloc", o)
        PROVE  ref'[o] > 0 \/ prop'[o] > 0
    <3>1. ref[o] > 0 \/ prop[o] > 0
      BY <1>0, <2>3 DEF DyingInv
    <3>2. CASE o = v
      <4>1. ~dies
        BY <1>3, <2>3, <3>2 DEF Atop
      <4> QED BY <1>0, <1>1, <1>6, <2>3, <3>2, <4>1, Types DEF dies
    <3>3. CASE o # v
      BY <1>0, <1>1, <3>1, <3>3, Types
    <3> QED BY <3>2, <3>3
  <2> QED BY <2>1, <2>2, <2>3 DEF DyingInv
<1> QED BY <1>3, <1>8, <1>12, <1>14, <1>15, <1>16 DEF Atop

\* What a call in progress cannot touch, if it only kills.
LEMMA ReturnRest ==
  ASSUME IInv, stack # <<>>, mode' = mode, UNCHANGED sweepVars,
         \A o \in Obj : kind'[o] \in {kind[o], "free"},
         \A o \in pending : o \in pending' \/ kind'[o] = "free"
  PROVE  MarkInv' /\ CollectExact' /\ ExitEmpties' /\ SweepInv'
<1>0. ModeInv /\ SweepInv /\ TypeOK
  BY Parts
<1>1. mode \notin {"mark", "collected", "ended"}
  BY <1>0 DEF ModeInv
<1>2. MarkInv' /\ CollectExact' /\ ExitEmpties'
  BY <1>1 DEF MarkInv, CollectExact, ExitEmpties
<1>3. ASSUME mode = "sweep" PROVE SweepInv'
  <2>1. new_count > 0 /\ new_count' = new_count /\ old_count' = old_count /\ visited' = visited /\ visited \subseteq Obj
    BY <1>0, <1>3 DEF SweepInv, sweepVars, TypeOK
  <2>2. \A o \in Obj : kind[o] = "free" \/ o \in pending => kind'[o] = "free" \/ o \in pending'
    OBVIOUS
  <2>3. \A o \in Obj : (kind[o] = "iface" => o \in pending) => (kind'[o] = "iface" => o \in pending')
    OBVIOUS
  <2>4. WrappersGone => WrappersGone'
    BY <2>3 DEF WrappersGone
  <2>5. \A o \in visited : kind'[o] = "iface" => o \in pending'
    BY <1>0, <1>3, <2>1, <2>3 DEF SweepInv
  <2>6. old_count # 0 => WrappersGone' /\ \A o \in visited : kind'[o] = "free" \/ o \in pending'
    BY <1>0, <1>3, <2>1, <2>2, <2>4 DEF SweepInv
  <2> QED BY <2>1, <2>5, <2>6 DEF SweepInv
<1>4. mode # "sweep" => SweepInv'
  BY DEF SweepInv
<1> QED BY <1>2, <1>3, <1>4

\* A return to the caller leaves the modes as they were.
LEMMA ReturnMode ==
  ASSUME IInv, stack # <<>>, UNCHANGED <<mode, pinned, queue, sweepVars, local>>,
         detached' = detached \/ mode = "sweep",
         \A o \in Holder : Does(stack', "store", o) => Does(stack, "store", o),
         Does(stack', "clear", Class) => Does(stack, "clear", Class),
         \A o \in Obj : Does(stack', "unlink", o) => Does(stack, "unlink", o),
         Slots(Class) = {} => Slots(Class)' = {} \/ mode = "run"
  PROVE  ModeInv'
<1>0. ModeInv
  BY Parts
<1>1. mode \notin {"mark", "collected", "ended"}
  BY <1>0 DEF ModeInv
<1> QED BY <1>0, <1>1, Zenon DEF ModeInv, sweepVars

\* A slot is cleared, its class aside, because its object ends.
LEMMA ClearEnds ==
  ASSUME NEW s \in Seq(FrameType), Shape(s), NEW f \in ToSet(s), f.op = "clear", f.obj # Class
  PROVE  f.obj \in Obj /\ Ending(s, f.obj)
<1>1. PICK k \in DOMAIN s : f = s[k]
  BY DEF ToSet
<1>2. DOMAIN s = 1 .. Len(s) /\ Len(s) \in Nat
  BY LenProperties
<1>3. \A i \in DOMAIN s : CallAt(s, i)
  BY DEF Shape
<1>4. CallAt(s, k)
  BY <1>1, <1>3
<1>5. k < Len(s) /\ s[k + 1].op = "detach" /\ s[k + 1].obj = f.obj
  BY <1>1, <1>4 DEF CallAt
<1> DEFINE n == k + 1
<1>6. n \in DOMAIN s
  BY <1>1, <1>2, <1>5
<1>7. CallAt(s, n) /\ s[n].op = "detach" /\ s[n].obj = f.obj
  BY <1>3, <1>5, <1>6
<1> HIDE DEF n
<1>8. f.obj \in Obj /\ n < Len(s) /\ Ends(s[n + 1]) /\ s[n + 1].obj = f.obj
  BY <1>7 DEF CallAt
<1>9. n + 1 \in DOMAIN s
  BY <1>2, <1>6, <1>8
<1> QED BY <1>8, <1>9 DEF Ending, Does, Ends, ToSet

\* While garbage is cut loose, what the program uses keeps an owner.
LEMMA UsedHeld ==
  ASSUME IInv, mode \in {"clear", "unpin"}
  PROVE  /\ before.used \subseteq Obj
         /\ \A p \in before.used \cup {Class} : \A f \in ToSet(stack) : f.op = "clear" => f.obj # p
         /\ \A o \in before.used : (ref[o] > 0 \/ prop[o] > 0) /\ ~Does(stack, "dealloc", o)
<1>0. TypeOK /\ Counted /\ Shape(stack) /\ EndInv /\ DyingInv /\ ModeInv /\ CutInv
  BY Parts
<1>1. before.used \subseteq Obj
  BY <1>0 DEF TypeOK
<1>2. ASSUME NEW p \in before.used \cup {Class}, NEW f \in ToSet(stack), f.op = "clear", f.obj = p PROVE FALSE
  <2>1. p # Class
    BY <1>0, <1>2 DEF ModeInv, Does
  <2>2. Ending(stack, p)
    BY <1>0, <1>2, <2>1, ClearEnds, Types
  <2>3. p \in Obj /\ p \in pending
    BY <1>0, <1>1, <2>1, <2>2 DEF EndInv
  <2> QED BY <1>0, <2>1, <2>3 DEF CutInv
<1>3. ASSUME NEW o \in before.used PROVE ref[o] > 0 \/ prop[o] > 0
  <2>1. \A p \in before.used \cup {Class} : \A i \in Index(p) : <<p, i>> \in Cell /\ <<p, i>> \notin Stale
    <3> SUFFICES ASSUME NEW p \in before.used \cup {Class}, NEW i \in Index(p),
                        NEW f \in ToSet(stack), f.op \in {"clear", "store"}, <<p, i>> = <<f.obj, f.at>>
                 PROVE  FALSE
      BY <1>1, ArcAssumption DEF Stale, Index, Cell
    <3>1. f.op = "store" /\ f.obj \in Holder
      BY <1>1, <1>2 DEF Holder
    <3> QED BY <1>0, <3>1 DEF ModeInv, Does
  <2>2. \/ local[o] > 0
        \/ \E p \in before.used \cup {Class} : (\E i \in Index(p) : slot[<<p, i>>] = o) \/ Wraps(p, o)
    BY <1>0 DEF CutInv
  <2>3. o \in Obj
    BY <1>1
  <2>4. CASE local[o] > 0
    BY <1>0, <2>3, <2>4, OwnedFacts
  <2>5. CASE \E p \in before.used \cup {Class} : \E i \in Index(p) : slot[<<p, i>>] = o
    BY <1>0, <2>1, <2>3, <2>5, OwnedFacts
  <2>6. CASE \E p \in before.used \cup {Class} : Wraps(p, o)
    BY <1>0, <2>3, <2>6, OwnedFacts DEF Wraps
  <2> QED BY <2>2, <2>4, <2>5, <2>6
<1>4. \A o \in before.used : ~Does(stack, "dealloc", o)
  BY <1>0, <1>1, <1>3 DEF DyingInv
<1> QED BY <1>1, <1>2, <1>3, <1>4

\* Steps that touch only what the program does not use keep CutInv.
LEMMA CutKept ==
  ASSUME IInv, UNCHANGED <<mode, nodes, live, before, local>>,
         pinned' = pinned \/ (mode = "unpin" /\ pinned' \subseteq pinned),
         \A c \in Cell : slot'[c] = slot[c] \/ (slot'[c] = Null /\ c[1] \notin before.used \cup {Class}),
         \A o \in Obj : kind'[o] = kind[o] \/ (kind'[o] = "free" /\ o \notin before.used),
         \A w, o \in Obj : Wraps(w, o)' => Wraps(w, o),
         \A w \in before.used : \A o \in Obj : Wraps(w, o) => Wraps(w, o)',
         \A o \in pending' : o \in pending \/ o \notin before.used
  PROVE  mode \in {"clear", "unpin"} => CutInv'
<1> SUFFICES ASSUME mode \in {"clear", "unpin"} PROVE CutInv'
  OBVIOUS
<1>0. CutInv /\ TypeOK
  BY Parts
<1>1. before.used \subseteq Obj /\ Garbage \subseteq Obj /\ Garbage' = Garbage
  BY <1>0 DEF TypeOK, Garbage
<1>2. pinned' \subseteq Garbage' /\ (mode' = "clear" => pinned' = Garbage')
  BY <1>0, <1>1 DEF CutInv
<1>3. (\A o \in Garbage' : local'[o] = 0) /\ before'.used \cap Garbage' = {}
  BY <1>0, <1>1 DEF CutInv
<1>4. \A c \in Cell : slot'[c] \in Garbage' => c[1] \in Garbage'
  BY <1>0, <1>1, ArcAssumption DEF CutInv
<1>5. \A w \in Obj : \A o \in Garbage' : Wraps(w, o)' => w \in Garbage'
  BY <1>0, <1>1 DEF CutInv
<1>6. mode' = "unpin" => \A o \in Garbage' : Slots(o)' = {}
  <2> SUFFICES ASSUME mode = "unpin", NEW o \in Garbage, NEW i \in Index(o), slot'[<<o, i>>] # Null PROVE FALSE
    BY <1>1 DEF Slots
  <2>1. <<o, i>> \in Cell
    BY <1>1, ArcAssumption DEF Index, Cell
  <2>2. slot[<<o, i>>] # Null
    BY <2>1
  <2> QED BY <1>0, <2>2 DEF CutInv, Slots
<1>7. \A o \in Obj : kind'[o] # "free" => o \in before'.kept \cup Garbage'
  BY <1>0, <1>1 DEF CutInv
<1>8. ASSUME NEW o \in before.used PROVE kind'[o] # "free" /\ o \notin pending'
  BY <1>0, <1>1 DEF CutInv
<1>9. ASSUME NEW o \in before.used
      PROVE  local'[o] > 0 \/ \E p \in before.used \cup {Class} :
               (\E i \in Index(p) : slot'[<<p, i>>] = o) \/ Wraps(p, o)'
  <2>1. \/ local[o] > 0
        \/ \E p \in before.used \cup {Class} : (\E i \in Index(p) : slot[<<p, i>>] = o) \/ Wraps(p, o)
    BY <1>0 DEF CutInv
  <2>2. CASE local[o] > 0
    BY <2>2
  <2>3. ASSUME NEW p \in before.used \cup {Class}, NEW i \in Index(p), slot[<<p, i>>] = o
        PROVE  slot'[<<p, i>>] = o
    <3>1. <<p, i>> \in Cell /\ <<p, i>>[1] = p
      BY <1>1, ArcAssumption DEF Index, Cell
    <3> QED BY <2>3, <3>1
  <2>4. ASSUME NEW p \in before.used \cup {Class}, Wraps(p, o) PROVE Wraps(p, o)'
    <3>1. p \in before.used
      BY <2>4, ArcAssumption DEF Wraps
    <3> QED BY <1>1, <2>4, <3>1
  <2> QED BY <2>1, <2>2, <2>3, <2>4
<1> QED BY <1>2, <1>3, <1>4, <1>5, <1>6, <1>7, <1>8, <1>9 DEF CutInv

-----------------------------------------------------------------------------
(* The calls in progress, one lemma each.                                  *)

\* What the shape of the stack says of its top.
LEMMA TopFacts ==
  ASSUME IInv, stack # <<>>
  PROVE  /\ Rest \in Seq(FrameType) /\ Top \in FrameType /\ Shape(Rest)
         /\ ToSet(stack) = {Top} \cup ToSet(Rest)
         /\ \A o : ~Does(Rest, "dealloc", o)
         /\ Ends(Top) => ~Ending(Rest, Top.obj) /\ ~Does(Rest, "detach", Top.obj)
         /\ Top.op \in {"store", "unlink"} \/ (Top.op = "clear" /\ Top.obj = Class) => Rest = <<>>
         /\ Top.op = "detach" =>
              /\ Ending(Rest, Top.obj) /\ ~Does(Rest, "detach", Top.obj)
              /\ ~Does(stack, "clear", Top.obj)
         /\ \A op, o : Does(stack, op, o) <=> Does(Rest, op, o) \/ (Top.op = op /\ Top.obj = o)
         /\ Top.op \in {"free", "unlink", "dealloc", "detach"} => Top.obj \in Obj
         /\ Top.op \in {"clear", "store"} => <<Top.obj, Top.at>> \in Cell
         /\ Top.op # "dealloc" => \A o : ~Does(stack, "dealloc", o)
<1>1. stack \in Seq(FrameType) /\ Shape(stack)
  BY Parts, Types
<1>2. ToSet(stack) = {Top} \cup ToSet(Rest)
  BY <1>1, PopFacts DEF Top, Rest
<1>3. \A op, o : Does(stack, op, o) <=> Does(Rest, op, o) \/ (Top.op = op /\ Top.obj = o)
  BY <1>2 DEF Does
<1>4. CallAt(stack, 1) /\ Top = stack[1]
  <2>1. 1 \in DOMAIN stack /\ Head(stack) = stack[1]
    BY <1>1, EmptySeq, LenProperties
  <2> QED BY <1>1, <2>1 DEF Shape, Top
<1>5. /\ Top.op \in {"free", "unlink", "dealloc", "detach"} => Top.obj \in Obj
      /\ Top.op \in {"clear", "store"} => <<Top.obj, Top.at>> \in Cell
  BY <1>4 DEF CallAt
<1>6. \A o : ~Does(Rest, "dealloc", o)
  BY <1>1, PopFacts DEF Rest
<1>7. Top.op # "dealloc" => \A o : ~Does(stack, "dealloc", o)
  BY <1>3, <1>6
<1> QED BY <1>1, <1>2, <1>3, <1>5, <1>6, <1>7, PopFacts DEF Top, Rest

\* A slot that is not empty names an object.
LEMMA SlotCell == ASSUME TypeOK PROVE
  \A o \in Holder : \A i \in Slots(o) : <<o, i>> \in Cell /\ slot[<<o, i>>] \in Obj
<1>1. \A o \in Holder : \A i \in Index(o) : <<o, i>> \in Cell
  BY ArcAssumption DEF Holder, Index, Cell
<1> QED BY <1>1, Types DEF Slots

\* An object that ends releases what a slot of it holds, or has none left.
LEMMA DetachStep == IInv /\ Detach => IInv'
<1> SUFFICES ASSUME IInv, Detach PROVE IInv'
  OBVIOUS
<1> DEFINE o == Top.obj
<1>0. TypeOK /\ Counted /\ Shape(stack) /\ KindInv /\ EndInv /\ DyingInv /\ StoreInv /\ ModeInv
  BY Parts
<1>1. stack # <<>> /\ Top.op = "detach"
  BY DEF Detach, Calls
<1>2. o \in Obj /\ \A p : ~Does(stack, "dealloc", p)
  BY <1>1, TopFacts
<1>3. Does(stack, "detach", o) /\ Ending(stack, o)
  BY <1>1, TopFacts DEF Ending
<1>4. o \in pending /\ o \notin detached /\ local[o] = 0
  <2>1. o \in pending /\ ref[o] = 0
    BY <1>0, <1>2, <1>3 DEF EndInv, DyingInv
  <2>2. local[o] = 0
    BY <1>0, <1>2, <2>1, NoRef
  <2> QED BY <1>0, <1>3, <2>1, <2>2 DEF EndInv
<1>5. UNCHANGED <<kind, impl, slot, local, ref, pending, detached, mode, gcVars, sweepVars>>
  BY DEF Detach, heapVars
<1>6. CASE Slots(o) = {} /\ stack' = Rest /\ UNCHANGED <<prop, listed>>
  <2>1. /\ Rest \in Seq(FrameType) /\ Shape(Rest) /\ ToSet(stack) = {Top} \cup ToSet(Rest)
        /\ \A op, p : Does(stack, op, p) <=> Does(Rest, op, p) \/ (Top.op = op /\ Top.obj = p)
    BY <1>1, TopFacts
  <2>2. Stale' = Stale
    BY <1>1, <1>6, <2>1 DEF Stale
  <2>3. TypeOK'
    BY <1>0, <1>5, <1>6, <2>1 DEF TypeOK, gcVars, sweepVars
  <2>4. Counted'
    BY <1>0, <1>5, <1>6, <2>2 DEF Counted, HoldingCells, Wrappers, Wraps, gcVars
  <2>5. KindInv'
    BY <1>0, <1>5 DEF KindInv, HasSlots, Slots, Wraps
  <2>6. EndInv'
    <3>1. \A p \in Obj : Ending(stack', p) <=> Ending(stack, p)
      BY <1>1, <1>6, <2>1 DEF Ending
    <3>2. \A p \in Obj : /\ Does(stack', "free", p) <=> Does(stack, "free", p)
                         /\ Does(stack', "detach", p) \/ p = o <=> Does(stack, "detach", p)
      BY <1>1, <1>6, <2>1
    <3>3. \A p : Slots(p)' = Slots(p)
      BY <1>5 DEF Slots
    <3>4. \A p \in Obj : p \in pending' <=> p \in detached' \/ Ending(stack', p)
      BY <1>0, <1>5, <3>1 DEF EndInv
    <3>5. \A p \in detached' : ~Ending(stack', p) /\ p \notin listed' /\ Slots(p)' = {}
      BY <1>0, <1>5, <1>6, <3>1, <3>3, Types DEF EndInv
    <3>6. \A p \in Obj : Ending(stack', p) => Slots(p)' = {} \/ Does(stack', "detach", p)
      BY <1>0, <1>6, <3>1, <3>2, <3>3 DEF EndInv
    <3>7. \A p \in Obj : Does(stack', "detach", p) => HasSlots(p)'
      BY <1>0, <1>5, <3>2 DEF EndInv, HasSlots
    <3>8. \A p \in Obj : Does(stack', "free", p) => prop'[p] = 0 /\ p \notin listed'
      BY <1>0, <1>6, <3>2 DEF EndInv
    <3> QED BY <3>4, <3>5, <3>6, <3>7, <3>8 DEF EndInv
  <2>7. DyingInv'
    <3>1. \A p \in Obj : Does(stack', "dealloc", p) <=> Does(stack, "dealloc", p)
      BY <1>1, <1>6, <2>1
    <3> QED BY <1>0, <1>5, <1>6, <3>1 DEF DyingInv
  <2>8. StoreInv'
    BY <1>0, <1>5, <1>6, <2>1 DEF StoreInv, HasSlots
  <2>9. ModeInv'
    BY <1>1, <1>5, <1>6, <2>1, ReturnMode DEF gcVars, Slots
  <2>10. MarkInv' /\ CollectExact' /\ ExitEmpties' /\ SweepInv'
    BY <1>1, <1>5, ReturnRest
  <2>11. CutInv'
    <3>1. mode \in {"clear", "unpin"} => CutInv'
      BY <1>5, CutKept DEF gcVars, Wraps
    <3> QED BY <1>5, <3>1 DEF CutInv
  <2> QED BY <1>6, <2>1, <2>3, <2>4, <2>5, <2>6, <2>7, <2>8, <2>9, <2>10, <2>11, Whole
<1>7. ASSUME NEW i \in Slots(o), DecProp(slot[<<o, i>>], <<Frame("clear", o, i, Null)>> \o stack) PROVE IInv'
  <2> DEFINE c == <<o, i>>
             v == slot[c]
             f == Frame("clear", o, i, Null)
             rest == <<f>> \o stack
  <2>1. c \in Cell /\ v \in Obj
    BY <1>0, <1>2, SlotCell DEF Holder
  <2>2. c \notin Stale
    <3> SUFFICES ASSUME NEW g \in ToSet(stack), g.op \in {"clear", "store"}, g.obj = o PROVE FALSE
      BY DEF Stale
    <3>1. g.op = "store"
      BY <1>1, TopFacts DEF Does
    <3> QED BY <1>0, <1>2, <1>4, <3>1, ArcAssumption DEF StoreInv
  <2>3. f \in FrameType /\ f.op = "clear" /\ f.obj = o /\ f.at = i
    BY <1>2, ArcAssumption DEF Frame, FrameType, Op, Holder, Slots, Index
  <2> HIDE DEF f
  <2>4. rest \in Seq(FrameType) /\ rest # <<>> /\ Shape(rest) /\ ToSet(rest) = {f} \cup ToSet(stack)
    <3>1. stack \in Seq(FrameType) /\ o # Class
      BY <1>0, <1>2, Types, ArcAssumption
    <3>2. Head(stack).op = "detach" /\ Head(stack).obj = o
      BY <1>1 DEF Top
    <3> QED BY <1>0, <1>1, <1>2, <2>1, <2>3, <3>1, <3>2, PushFacts DEF Ends
  <2>5. DecProp(v, rest)
    BY <1>7 DEF f
  <2> HIDE DEF rest, c
  <2>6. \A op, p : op # "clear" => (Does(rest, op, p) <=> Does(stack, op, p))
    BY <2>3, <2>4 DEF Does
  <2>7. StaleOf(rest) = Stale \cup {c}
    BY <2>3, <2>4 DEF StaleOf, Stale, c
  <2>8. \A p \in Obj : {d \in Cell : slot'[d] = p /\ d \notin StaleOf(rest)} = HoldingCells(p) \ {c}
    BY <1>5, <2>7 DEF HoldingCells
  <2>9. /\ TypeOK' /\ Counted' /\ Shape(stack') /\ KindInv' /\ EndInv' /\ DyingInv'
        /\ stack' # <<>>
        /\ \A op, p : op # "dealloc" => (Does(stack', op, p) <=> Does(rest, op, p))
        /\ \A g \in ToSet(stack') : g.op # "dealloc" => g \in ToSet(rest)
    <3>1. slot' \in [Cell -> Obj \cup {Null}] /\ \A d \in Cell : slot'[d] \in {slot[d], Null}
      BY <1>0, <1>5, Types
    <3>2. \A p : ~Does(stack, "dealloc", p) /\ ~Does(rest, "dealloc", p)
      BY <1>2, <2>6
    <3>3. \A p \in Obj : \A op \in {"free", "unlink", "detach"} : Does(rest, op, p) <=> Does(stack, op, p)
      BY <2>6
    <3> QED BY <1>5, <2>1, <2>2, <2>4, <2>5, <2>8, <3>1, <3>2, <3>3, ReleaseSlot
  <2>10. StoreInv'
    <3>1. \A g \in ToSet(stack') : g.op = "store" => g \in ToSet(stack)
      BY <2>3, <2>4, <2>9
    <3> QED BY <1>0, <1>5, <3>1 DEF StoreInv, HasSlots
  <2>11. ModeInv'
    <3>1. \A p : /\ Does(stack', "store", p) => Does(stack, "store", p)
                 /\ Does(stack', "unlink", p) => Does(stack, "unlink", p)
      BY <2>6, <2>9
    <3>2. Does(stack', "clear", Class) => Does(stack, "clear", Class)
      BY <1>2, <2>3, <2>4, <2>9, ArcAssumption DEF Does
    <3> QED BY <1>1, <1>5, <3>1, <3>2, ReturnMode DEF gcVars, Slots
  <2>12. MarkInv' /\ CollectExact' /\ ExitEmpties' /\ SweepInv'
    BY <1>1, <1>5, ReturnRest
  <2>13. CutInv'
    <3>1. mode \in {"clear", "unpin"} => CutInv'
      BY <1>5, CutKept DEF gcVars, Wraps
    <3> QED BY <1>5, <3>1 DEF CutInv
  <2> QED BY <2>9, <2>10, <2>11, <2>12, <2>13, Whole
<1> QED BY <1>6, <1>7 DEF Detach

\* An object begins to end: its last call is on the stack.
LEMMA BeginEnd ==
  ASSUME IInv, NEW o \in Obj, o \notin pending, pending' = pending \cup {o},
         \A p \in Obj : Ending(stack', p) <=> Ending(stack, p) \/ p = o,
         \A p \in Obj : Does(stack', "detach", p) <=> Does(stack, "detach", p) \/ (p = o /\ HasSlots(o)),
         \A p \in Obj : Does(stack', "free", p) =>
           Does(stack, "free", p) \/ (p = o /\ prop[o] = 0 /\ o \notin listed),
         UNCHANGED <<kind, impl, slot, prop, listed, detached>>
  PROVE  EndInv' /\ KindInv'
<1>0. EndInv /\ KindInv /\ TypeOK
  BY Parts
<1>1. \A p : Slots(p)' = Slots(p)
  BY DEF Slots
<1>2. \A p \in Obj : p \in pending' <=> p \in detached' \/ Ending(stack', p)
  BY <1>0 DEF EndInv
<1>3. \A p \in detached' : ~Ending(stack', p) /\ p \notin listed' /\ Slots(p)' = {}
  BY <1>0, <1>1, Types DEF EndInv
<1>4. \A p \in Obj : Ending(stack', p) => Slots(p)' = {} \/ Does(stack', "detach", p)
  BY <1>0, <1>1 DEF EndInv, KindInv
<1>5. \A p \in Obj : Does(stack', "detach", p) => HasSlots(p)'
  BY <1>0 DEF EndInv, HasSlots
<1>6. \A p \in Obj : Does(stack', "free", p) => prop'[p] = 0 /\ p \notin listed'
  BY <1>0 DEF EndInv
<1>7. EndInv'
  BY <1>2, <1>3, <1>4, <1>5, <1>6 DEF EndInv
<1>8. KindInv'
  BY <1>0, <1>1 DEF KindInv, HasSlots, Wraps
<1> QED BY <1>7, <1>8

\* ref goes down, whoever held it.
LEMMA ReleaseRef ==
  ASSUME IInv, NEW v \in Obj, ref[v] > 0, NEW rest \in Seq(FrameType), DecRef(v, rest),
         Shape(rest), \A o : ~Does(rest, "dealloc", o),
         \A o \in pending' : o \in pending \/ (o \in Obj /\ kind[o] # "free" /\ ref[o] = 0),
         \A o \in Obj : o \in pending \/ Does(stack, "dealloc", o) => o \in pending',
         UNCHANGED <<kind, prop>>
  PROVE  /\ \E dead : Atop(stack', rest, dead)
         /\ DyingInv'
         /\ ref' \in [Obj -> Nat] /\ ref' = [ref EXCEPT ![v] = ref[v] - 1]
<1>0. TypeOK /\ Counted /\ DyingInv
  BY Parts
<1> DEFINE dies == ref[v] = 1 /\ prop[v] = 0
<1>1. ref' = [ref EXCEPT ![v] = @ - 1] /\ stack' = (IF dies THEN Do("dealloc", v) ELSE <<>>) \o rest
  BY DEF DecRef
<1> HIDE DEF dies
<1>2. Atop(stack', rest, IF dies THEN {v} ELSE {})
  BY <1>1, AtopFacts
<1>3. ref' \in [Obj -> Nat] /\ ref' = [ref EXCEPT ![v] = ref[v] - 1]
  BY <1>0, <1>1, Types
<1>4. ref'[v] = ref[v] - 1 /\ \A o \in Obj : o # v => ref'[o] = ref[o]
  BY <1>0, <1>3, Types
<1>5. v \notin pending' /\ kind[v] # "free" /\ pending' \subseteq Obj
  <2>1. ~(ref[v] = 0)
    BY <1>0, Numbers
  <2> QED BY <1>0, <2>1, Types DEF Counted, DyingInv
<1>6. \A o \in pending' : kind'[o] # "free" /\ ref'[o] = 0
  BY <1>0, <1>4, <1>5 DEF DyingInv
<1>7. ASSUME NEW o \in Obj, Does(stack', "dealloc", o)
      PROVE  o \notin pending' /\ kind'[o] # "free" /\ ref'[o] = 0 /\ prop'[o] = 0
  <2>1. dies /\ o = v
    BY <1>2, <1>7 DEF Atop
  <2> QED BY <1>4, <1>5, <2>1 DEF dies
<1>8. ASSUME NEW o \in Obj, kind'[o] # "free", o \notin pending', ~Does(stack', "dealloc", o)
      PROVE  ref'[o] > 0 \/ prop'[o] > 0
  <2>1. CASE o = v
    <3>1. ~dies
      BY <1>2, <1>8, <2>1 DEF Atop
    <3>2. ref[v] \in Nat /\ prop[v] \in Nat
      BY <1>0, Numbers
    <3>3. ref[v] # 1 \/ prop[v] # 0
      BY <3>1 DEF dies
    <3>4. ref[v] - 1 > 0 \/ prop[v] > 0
      BY <3>2, <3>3
    <3> QED BY <1>4, <2>1, <3>4
  <2>2. CASE o # v
    <3>1. ref[o] > 0 \/ prop[o] > 0
      BY <1>0, <1>8 DEF DyingInv
    <3> QED BY <1>4, <2>2, <3>1
  <2> QED BY <2>1, <2>2
<1>9. DyingInv'
  BY <1>6, <1>7, <1>8 DEF DyingInv
<1> QED BY <1>2, <1>3, <1>9

\* A wrapper that lets go of its implementation and a decrement of ref go together.
LEMMA LoseWrapper ==
  ASSUME TypeOK, Counted, NEW w \in Obj, NEW v \in Obj, Wraps(w, v),
         \A x \in Obj : Wrappers(x)' = Wrappers(x) \ {w},
         ref' = [ref EXCEPT ![v] = ref[v] - 1], local' = local, pinned' = pinned
  PROVE  \A x \in Obj :
           ref'[x] = local'[x] + Cardinality(Wrappers(x))' + (IF x \in pinned' THEN 1 ELSE 0)
<1>1. \A x \in Obj : x # v => Wrappers(x)' = Wrappers(x)
  BY DEF Wrappers, Wraps
<1>2. w \in Wrappers(v)
  BY DEF Wrappers
<1>3. /\ Cardinality(Wrappers(v) \ {w}) = Cardinality(Wrappers(v)) - 1
      /\ Cardinality(Wrappers(v)) \in Nat
  BY <1>2, OwnersFinite, CountLess
<1>4. ref'[v] = ref[v] - 1 /\ \A o \in Obj : o # v => ref'[o] = ref[o]
  BY Types
<1>5. ref'[v] = local'[v] + Cardinality(Wrappers(v))' + (IF v \in pinned' THEN 1 ELSE 0)
  <2>1. ref[v] = local[v] + Cardinality(Wrappers(v)) + (IF v \in pinned THEN 1 ELSE 0)
    BY DEF Counted
  <2>2. local[v] \in Nat /\ ref[v] \in Nat
    BY Numbers
  <2>3. Cardinality(Wrappers(v))' = Cardinality(Wrappers(v)) - 1
    BY <1>3
  <2> QED BY <1>3, <1>4, <2>1, <2>2, <2>3
<1>6. \A x \in Obj : x # v =>
        ref'[x] = local'[x] + Cardinality(Wrappers(x))' + (IF x \in pinned' THEN 1 ELSE 0)
  BY <1>1, <1>4 DEF Counted
<1> QED BY <1>5, <1>6

\* The counts when only ref, its owners and what is pending have changed.
LEMMA CountedRef ==
  ASSUME IInv, \A x \in Obj :
           ref'[x] = local'[x] + Cardinality(Wrappers(x))' + (IF x \in pinned' THEN 1 ELSE 0),
         \A x \in Obj : kind'[x] = "free" => kind[x] = "free" /\ ref'[x] = ref[x],
         \A x \in Obj : x \in pending => x \in pending',
         UNCHANGED <<slot, prop, listed, detached>>, Stale' = Stale
  PROVE  Counted'
<1>0. Counted
  BY Parts
<1>1. \A x \in Obj : HoldingCells(x)' = HoldingCells(x)
  BY DEF HoldingCells
<1>2. \A x \in Obj : prop'[x] = Cardinality(HoldingCells(x))'
  BY <1>0, <1>1 DEF Counted
<1>3. \A x \in Obj : /\ kind'[x] = "free" => ref'[x] = 0 /\ prop'[x] = 0 /\ x \notin listed' \cup detached'
                     /\ x \notin pending' => (x \in listed' <=> prop'[x] > 0)
  BY <1>0 DEF Counted
<1> QED BY <1>2, <1>3 DEF Counted

\* s is rest with the calls ops on o on top.
Onto(s, rest, ops, o) ==
  /\ s \in Seq(FrameType) /\ Shape(s) /\ s # <<>>
  /\ \A op, p : Does(s, op, p) <=> Does(rest, op, p) \/ (op \in ops /\ p = o)
  /\ StaleOf(s) = StaleOf(rest)
  /\ \A f \in ToSet(s) : f.op = "store" => f \in ToSet(rest)

\* What Dealloc pushes for an end: the end itself, under a detachment or not.
LEMMA OntoFacts ==
  ASSUME NEW rest \in Seq(FrameType), Shape(rest), \A p : ~Does(rest, "dealloc", p),
         NEW o \in Obj, ~Ending(rest, o), NEW end \in {"free", "unlink"}, end = "unlink" => rest = <<>>
  PROVE  /\ Onto(Do(end, o) \o rest, rest, {end}, o)
         /\ Onto(Do("detach", o) \o Do(end, o) \o rest, rest, {"detach", end}, o)
<1> DEFINE f == Frame(end, o, Null, Null)
           g == Frame("detach", o, Null, Null)
           s == <<f>> \o rest
           t == <<g>> \o s
<1>1. /\ f \in FrameType /\ f.op = end /\ f.obj = o /\ Do(end, o) = <<f>>
      /\ g \in FrameType /\ g.op = "detach" /\ g.obj = o /\ Do("detach", o) = <<g>>
  BY DEF Frame, FrameType, Op, Holder, Do
<1> HIDE DEF f, g
<1>2. s \in Seq(FrameType) /\ s # <<>> /\ Shape(s) /\ ToSet(s) = {f} \cup ToSet(rest) /\ Head(s) = f
  BY <1>1, PushFacts DEF Ends, Ending
<1>3. \A p : ~Does(s, "dealloc", p)
  BY <1>1, <1>2 DEF Does
<1> HIDE DEF s
<1>4. t \in Seq(FrameType) /\ t # <<>> /\ Shape(t) /\ ToSet(t) = {g} \cup ToSet(s)
  <2>1. Ends(Head(s)) /\ Head(s).obj = g.obj /\ ~Ends(g)
    BY <1>1, <1>2 DEF Ends
  <2>2. /\ s \in Seq(FrameType) /\ g \in FrameType /\ Shape(s) /\ s # <<>>
        /\ g.op = "detach" /\ g.obj \in Obj /\ "detach" \notin {"store", "unlink", "clear"}
    BY <1>1, <1>2
  <2> QED BY <1>3, <2>1, <2>2, PushFacts
<1>5. Onto(s, rest, {end}, o)
  BY <1>1, <1>2 DEF Onto, Does, StaleOf
<1> HIDE DEF t
<1>6. Onto(t, rest, {"detach", end}, o)
  BY <1>1, <1>2, <1>4 DEF Onto, Does, StaleOf
<1>7. Do(end, o) \o rest = s
  BY <1>1 DEF s
<1>8. Do("detach", o) \o Do(end, o) \o rest = t
  <2>1. <<f>> \in Seq(FrameType) /\ <<g>> \in Seq(FrameType)
    BY <1>1
  <2>2. (<<g>> \o <<f>>) \o rest = <<g>> \o (<<f>> \o rest)
    BY <2>1, ConcatAssociative
  <2> QED BY <1>1, <2>2 DEF s, t
<1> QED BY <1>5, <1>6, <1>7, <1>8

\* An object that lost its last owner begins to end.
LEMMA DeallocStep == IInv /\ Dealloc => IInv'
<1> SUFFICES ASSUME IInv, Dealloc PROVE IInv'
  OBVIOUS
<1> DEFINE o == Top.obj
<1>0. TypeOK /\ Counted /\ Shape(stack) /\ KindInv /\ EndInv /\ DyingInv /\ StoreInv /\ ModeInv /\ CutInv
  BY Parts
<1>1. stack # <<>> /\ Top.op = "dealloc"
  BY DEF Dealloc, Calls
<1>2. o \in Obj /\ Does(stack, "dealloc", o)
  BY <1>1, TopFacts
<1>3. o \notin pending /\ kind[o] # "free" /\ ref[o] = 0 /\ prop[o] = 0 /\ o \notin listed
  <2>1. o \notin pending /\ kind[o] # "free" /\ ref[o] = 0 /\ prop[o] = 0
    BY <1>0, <1>2 DEF DyingInv
  <2> QED BY <1>0, <1>2, <2>1 DEF Counted
<1>4. UNCHANGED <<kind, impl, slot, local, prop, listed, detached, mode, gcVars, sweepVars>>
  BY DEF Dealloc, heapVars
<1>5. pending' = pending \cup {o}
  BY DEF Dealloc
<1>6. /\ Rest \in Seq(FrameType) /\ Shape(Rest) /\ ToSet(stack) = {Top} \cup ToSet(Rest)
      /\ \A op, p : Does(stack, op, p) <=> Does(Rest, op, p) \/ (Top.op = op /\ Top.obj = p)
      /\ \A p : ~Does(Rest, "dealloc", p)
  BY <1>1, TopFacts
<1>7. ~Ending(Rest, o)
  <2>1. ~Ending(stack, o)
    BY <1>0, <1>2, <1>3 DEF EndInv
  <2> QED BY <1>6, <2>1 DEF Ending
<1>8. \A p \in Obj : Does(stack, "dealloc", p) => p \in pending'
  BY <1>1, <1>5, <1>6
<1>9. /\ Onto(Do("free", o) \o Rest, Rest, {"free"}, o)
      /\ Onto(Do("detach", o) \o Do("free", o) \o Rest, Rest, {"detach", "free"}, o)
  BY <1>2, <1>6, <1>7, OntoFacts
<1>10. StaleOf(Rest) = Stale
  BY <1>1, <1>6 DEF StaleOf, Stale
<1>11. MarkInv' /\ CollectExact' /\ ExitEmpties' /\ SweepInv'
  BY <1>1, <1>4, <1>5, ReturnRest
<1>12. CutInv'
  <2>1. mode \in {"clear", "unpin"} => o \notin before.used
    BY <1>2, UsedHeld
  <2>2. \A w, x \in Obj : Wraps(w, x)' <=> Wraps(w, x) /\ w # o
    BY <1>4, <1>5 DEF Wraps
  <2>3. mode \in {"clear", "unpin"} => before.used \subseteq Obj
    BY UsedHeld
  <2>4. mode \in {"clear", "unpin"} => CutInv'
    BY <1>4, <1>5, <2>1, <2>2, <2>3, CutKept DEF gcVars
  <2> QED BY <1>4, <2>4 DEF CutInv
<1>13. ASSUME NEW ops, "free" \in ops, ops \subseteq {"free", "detach"}, "detach" \in ops <=> HasSlots(o),
              stack' \in Seq(FrameType), stack' # <<>>, Shape(stack'), StaleOf(stack') = Stale,
              \A op, p : op # "dealloc" => (Does(stack', op, p) <=> Does(Rest, op, p) \/ (op \in ops /\ p = o)),
              \A f \in ToSet(stack') : f.op = "store" => f \in ToSet(Rest),
              ref' \in [Obj -> Nat], DyingInv',
              \A x \in Obj : /\ ref'[x] = local'[x] + Cardinality(Wrappers(x))' + (IF x \in pinned' THEN 1 ELSE 0)
                             /\ kind[x] = "free" => ref'[x] = ref[x]
       PROVE  IInv'
  <2>1. \A op, p : op # "dealloc" => (Does(stack', op, p) <=> Does(stack, op, p) \/ (op \in ops /\ p = o))
    BY <1>1, <1>6, <1>13
  <2>2. TypeOK'
    BY <1>0, <1>2, <1>4, <1>5, <1>13 DEF TypeOK, gcVars, sweepVars
  <2>3. Counted'
    <3>1. Stale' = Stale
      BY <1>13 DEF Stale, StaleOf
    <3> QED BY <1>4, <1>5, <1>13, <3>1, CountedRef
  <2>4. EndInv' /\ KindInv'
    <3>1. \A p \in Obj : Ending(stack', p) <=> Ending(stack, p) \/ p = o
      BY <1>13, <2>1 DEF Ending
    <3>2. \A p \in Obj : Does(stack', "detach", p) <=> Does(stack, "detach", p) \/ (p = o /\ HasSlots(o))
      BY <1>13, <2>1
    <3>3. \A p \in Obj : Does(stack', "free", p) => Does(stack, "free", p) \/ (p = o /\ prop[o] = 0 /\ o \notin listed)
      BY <1>3, <2>1
    <3> QED BY <1>2, <1>3, <1>4, <1>5, <3>1, <3>2, <3>3, BeginEnd
  <2>5. StoreInv'
    BY <1>0, <1>4, <1>6, <1>13 DEF StoreInv, HasSlots
  <2>6. ModeInv'
    <3>1. \A p : /\ Does(stack', "store", p) => Does(stack, "store", p)
                 /\ Does(stack', "unlink", p) => Does(stack, "unlink", p)
                 /\ Does(stack', "clear", p) => Does(stack, "clear", p)
      BY <1>13, <2>1
    <3> QED BY <1>1, <1>4, <3>1, ReturnMode DEF gcVars, Slots
  <2> QED BY <1>11, <1>12, <1>13, <2>2, <2>3, <2>4, <2>5, <2>6, Whole
<1>14. CASE kind[o] = "iface" /\ DecRef(impl[o], Do("free", o) \o Rest)
  <2> DEFINE v == impl[o]
             rest == Do("free", o) \o Rest
  <2>1. v \in Obj /\ Wraps(o, v) /\ ref[v] > 0
    <3>1. v \in Obj /\ Wraps(o, v)
      BY <1>0, <1>2, <1>3, <1>14 DEF KindInv, Wraps
    <3> QED BY <1>0, <1>2, <3>1, OwnedFacts
  <2>2. rest \in Seq(FrameType) /\ Shape(rest) /\ (\A p : ~Does(rest, "dealloc", p))
    BY <1>6, <1>9 DEF Onto
  <2>3. DecRef(v, rest)
    BY <1>14
  <2> HIDE DEF v, rest
  <2>4. /\ \E dead : Atop(stack', rest, dead)
        /\ DyingInv'
        /\ ref' \in [Obj -> Nat] /\ ref' = [ref EXCEPT ![v] = ref[v] - 1]
    BY <1>2, <1>3, <1>4, <1>5, <1>8, <2>1, <2>2, <2>3, ReleaseRef
  <2>5. /\ stack' \in Seq(FrameType) /\ stack' # <<>> /\ Shape(stack') /\ StaleOf(stack') = Stale
        /\ \A op, p : op # "dealloc" => (Does(stack', op, p) <=> Does(Rest, op, p) \/ (op \in {"free"} /\ p = o))
        /\ \A f \in ToSet(stack') : f.op = "store" => f \in ToSet(Rest)
    <3>1. Onto(rest, Rest, {"free"}, o)
      BY <1>9 DEF rest
    <3> QED BY <1>10, <2>4, <3>1 DEF Atop, Onto
  <2>6. \A x \in Obj : ref'[x] = local'[x] + Cardinality(Wrappers(x))' + (IF x \in pinned' THEN 1 ELSE 0)
    <3>1. \A x \in Obj : Wrappers(x)' = Wrappers(x) \ {o}
      BY <1>4, <1>5 DEF Wrappers, Wraps
    <3> QED BY <1>0, <1>2, <1>4, <2>1, <2>4, <3>1, LoseWrapper DEF gcVars
  <2>7. \A x \in Obj : kind[x] = "free" => ref'[x] = ref[x]
    <3>1. kind[v] # "free"
      BY <1>0, <2>1 DEF Counted
    <3> QED BY <2>4, <3>1
  <2>8. ~HasSlots(o)
    BY <1>14 DEF HasSlots
  <2> QED BY <1>13, <2>4, <2>5, <2>6, <2>7, <2>8
<1>15. CASE HasSlots(o) /\ stack' = Do("detach", o) \o Do("free", o) \o Rest /\ UNCHANGED ref
  <2>1. Onto(stack', Rest, {"detach", "free"}, o)
    BY <1>9, <1>15
  <2>2. /\ stack' \in Seq(FrameType) /\ stack' # <<>> /\ Shape(stack') /\ StaleOf(stack') = Stale
        /\ \A op, p : op # "dealloc" =>
             (Does(stack', op, p) <=> Does(Rest, op, p) \/ (op \in {"detach", "free"} /\ p = o))
        /\ \A f \in ToSet(stack') : f.op = "store" => f \in ToSet(Rest)
    BY <1>10, <2>1 DEF Onto
  <2>3. DyingInv'
    <3>1. \A p : ~Does(stack', "dealloc", p)
      BY <1>6, <2>1 DEF Onto
    <3>2. \A p \in Obj : p # o => ~Does(stack, "dealloc", p)
      BY <1>1, <1>6
    <3> QED BY <1>0, <1>2, <1>3, <1>4, <1>5, <1>15, <3>1, <3>2 DEF DyingInv
  <2>4. \A x \in Obj : ref'[x] = local'[x] + Cardinality(Wrappers(x))' + (IF x \in pinned' THEN 1 ELSE 0)
    <3>1. \A x \in Obj : Wrappers(x)' = Wrappers(x)
      BY <1>4, <1>5, <1>15 DEF Wrappers, Wraps, HasSlots
    <3> QED BY <1>0, <1>4, <1>15, <3>1 DEF Counted, gcVars
  <2>5. ref' \in [Obj -> Nat] /\ \A x \in Obj : kind[x] = "free" => ref'[x] = ref[x]
    BY <1>0, <1>15, Types
  <2>6. /\ "free" \in {"detach", "free"} /\ {"detach", "free"} \subseteq {"free", "detach"}
        /\ "detach" \in {"detach", "free"} <=> HasSlots(o)
    BY <1>15
  <2> QED BY <1>13, <2>2, <2>3, <2>4, <2>5, <2>6
<1> QED BY <1>3, <1>14, <1>15 DEF Dealloc

\* An empty holder stays empty when slots are only emptied.
LEMMA SlotsShrink ==
  ASSUME \A d \in Cell : slot'[d] \in {slot[d], Null}
  PROVE  \A p \in Holder : Slots(p) = {} => Slots(p)' = {}
BY ArcAssumption DEF Slots, Index, Cell, Holder

\* The empty stack.
LEMMA EmptyCalls ==
  /\ <<>> \in Seq(FrameType) /\ Shape(<<>>)
  /\ \A op, o : ~Does(<<>>, op, o)
  /\ \A o : ~Ending(<<>>, o)
  /\ StaleOf(<<>>) = {} /\ ToSet(<<>>) = {}
<1>1. <<>> \in Seq(FrameType) /\ DOMAIN <<>> = {}
  BY EmptySeq
<1>2. ToSet(<<>>) = {}
  BY <1>1 DEF ToSet
<1> QED BY <1>1, <1>2 DEF Shape, EndsOnce, Does, Ending, StaleOf

\* A slot is cleared after what it held was released.
LEMMA ClearStep == IInv /\ Clear => IInv'
<1> SUFFICES ASSUME IInv, Clear PROVE IInv'
  OBVIOUS
<1> DEFINE o == Top.obj
           c == <<Top.obj, Top.at>>
<1>0. TypeOK /\ Counted /\ Shape(stack) /\ KindInv /\ EndInv /\ DyingInv /\ StoreInv /\ ModeInv
  BY Parts
<1>1. stack # <<>> /\ Top.op = "clear" /\ stack' = Rest
  BY DEF Clear, Calls
<1>2. /\ Rest \in Seq(FrameType) /\ Shape(Rest) /\ ToSet(stack) = {Top} \cup ToSet(Rest)
      /\ \A op, p : Does(stack, op, p) <=> Does(Rest, op, p) \/ (Top.op = op /\ Top.obj = p)
      /\ c \in Cell
  BY <1>1, TopFacts
<1>3. UNCHANGED <<kind, impl, local, ref, prop, pending, listed, detached, mode, gcVars, sweepVars>>
  BY DEF Clear
<1>4. slot' = [slot EXCEPT ![c] = Null]
  BY DEF Clear
<1> HIDE DEF c
<1>5. slot' \in [Cell -> Obj \cup {Null}] /\ slot'[c] = Null /\ \A d \in Cell : d # c => slot'[d] = slot[d]
  BY <1>0, <1>2, <1>4, Types
<1>6. Stale = Stale' \cup {c}
  BY <1>1, <1>2 DEF Stale, c
<1>7. TypeOK'
  BY <1>0, <1>1, <1>2, <1>3, <1>5 DEF TypeOK, gcVars, sweepVars
<1>8. \A x \in Obj : HoldingCells(x)' = HoldingCells(x) /\ Wrappers(x)' = Wrappers(x)
  <2>1. ASSUME NEW x \in Obj PROVE HoldingCells(x)' = HoldingCells(x)
    BY <1>2, <1>5, <1>6, ArcAssumption DEF HoldingCells
  <2>2. ASSUME NEW x \in Obj PROVE Wrappers(x)' = Wrappers(x)
    BY <1>3 DEF Wrappers, Wraps
  <2> QED BY <2>1, <2>2
<1>9. Counted'
  BY <1>0, <1>3, <1>8 DEF Counted, gcVars
<1>10. \A p \in Holder : Slots(p) = {} => Slots(p)' = {}
  <2>1. \A d \in Cell : slot'[d] \in {slot[d], Null}
    BY <1>5
  <2> QED BY <2>1, SlotsShrink
<1>11. KindInv'
  BY <1>0, <1>3, <1>10 DEF KindInv, HasSlots, Wraps, Holder
<1>12. \A op, p : op # "clear" => (Does(stack', op, p) <=> Does(stack, op, p))
  BY <1>1, <1>2
<1>13. EndInv'
  <2>1. \A p \in Obj : Ending(stack', p) <=> Ending(stack, p)
    BY <1>12 DEF Ending
  <2>2. \A p \in Obj : p \in pending' <=> p \in detached' \/ Ending(stack', p)
    BY <1>0, <1>3, <2>1 DEF EndInv
  <2>3. \A p \in detached' : ~Ending(stack', p) /\ p \notin listed' /\ Slots(p)' = {}
    BY <1>0, <1>3, <1>10, <2>1, Types DEF EndInv, Holder
  <2>4. \A p \in Obj : Ending(stack', p) => Slots(p)' = {} \/ Does(stack', "detach", p)
    BY <1>0, <1>10, <1>12, <2>1 DEF EndInv, Holder
  <2>5. \A p \in Obj : Does(stack', "detach", p) => HasSlots(p)'
    BY <1>0, <1>3, <1>12 DEF EndInv, HasSlots
  <2>6. \A p \in Obj : Does(stack', "free", p) => prop'[p] = 0 /\ p \notin listed'
    BY <1>0, <1>3, <1>12 DEF EndInv
  <2> QED BY <2>2, <2>3, <2>4, <2>5, <2>6 DEF EndInv
<1>14. DyingInv'
  BY <1>0, <1>3, <1>12 DEF DyingInv
<1>15. StoreInv'
  BY <1>0, <1>1, <1>2, <1>3 DEF StoreInv, HasSlots
<1>16. ModeInv'
  <2>1. Does(stack', "clear", Class) => Does(stack, "clear", Class)
    BY <1>1, <1>2
  <2>2. Slots(Class) = {} => Slots(Class)' = {}
    BY <1>10 DEF Holder
  <2> QED BY <1>1, <1>3, <1>12, <2>1, <2>2, ReturnMode DEF gcVars
<1>17. MarkInv' /\ CollectExact' /\ ExitEmpties' /\ SweepInv'
  BY <1>1, <1>3, ReturnRest
<1>18. CutInv'
  <2>1. mode \in {"clear", "unpin"} => c[1] \notin before.used \cup {Class}
    BY <1>1, <1>2, UsedHeld DEF c
  <2>2. mode \in {"clear", "unpin"} => CutInv'
    BY <1>3, <1>5, <2>1, CutKept DEF gcVars, Wraps
  <2> QED BY <1>3, <2>2 DEF CutInv
<1> QED BY <1>1, <1>2, <1>7, <1>9, <1>11, <1>13, <1>14, <1>15, <1>16, <1>17, <1>18, Whole

\* What the sweep detached moves from one list to the other.
LEMMA UnlinkStep == IInv /\ Unlink => IInv'
<1> SUFFICES ASSUME IInv, Unlink PROVE IInv'
  OBVIOUS
<1> DEFINE o == Top.obj
<1>0. TypeOK /\ Counted /\ Shape(stack) /\ KindInv /\ EndInv /\ DyingInv /\ StoreInv /\ ModeInv
  BY Parts
<1>1. stack # <<>> /\ Top.op = "unlink" /\ stack' = Rest
  BY DEF Unlink, Calls
<1>2. stack' = <<>> /\ o \in Obj /\ \A op, p : Does(stack, op, p) <=> op = "unlink" /\ p = o
  BY <1>1, TopFacts, EmptyCalls
<1>3. UNCHANGED <<kind, impl, slot, local, ref, prop, pending, mode, gcVars, sweepVars>>
  BY DEF Unlink, heapVars
<1>4. listed' = listed \ {o} /\ detached' = detached \cup {o}
  BY DEF Unlink
<1>5. mode = "sweep"
  BY <1>0, <1>2 DEF ModeInv
<1>6. /\ \A p \in Obj : Ending(stack, p) <=> p = o
      /\ o \in pending /\ o \notin detached /\ Slots(o) = {} /\ kind[o] # "free"
  <2>1. \A p \in Obj : Ending(stack, p) <=> p = o
    BY <1>2 DEF Ending
  <2>2. o \in pending /\ o \notin detached /\ Slots(o) = {}
    BY <1>0, <1>2, <2>1 DEF EndInv
  <2> QED BY <1>0, <2>1, <2>2 DEF DyingInv
<1>7. TypeOK'
  BY <1>0, <1>2, <1>3, <1>4, EmptyCalls DEF TypeOK, gcVars, sweepVars
<1>8. \A x \in Obj : HoldingCells(x)' = HoldingCells(x) /\ Wrappers(x)' = Wrappers(x)
  <2>1. Stale = {} /\ Stale' = {}
    <3>1. \A f \in ToSet(stack) : f.op \notin {"clear", "store"}
      BY <1>2 DEF Does
    <3> QED BY <1>2, <3>1, EmptyCalls DEF Stale
  <2>2. ASSUME NEW x \in Obj PROVE HoldingCells(x)' = HoldingCells(x)
    BY <1>3, <2>1 DEF HoldingCells
  <2>3. ASSUME NEW x \in Obj PROVE Wrappers(x)' = Wrappers(x)
    BY <1>3 DEF Wrappers, Wraps
  <2> QED BY <2>2, <2>3
<1>9. Counted'
  BY <1>0, <1>3, <1>4, <1>6, <1>8 DEF Counted, gcVars
<1>10. \A p : Slots(p)' = Slots(p)
  BY <1>3 DEF Slots
<1>11. KindInv'
  BY <1>0, <1>3, <1>10 DEF KindInv, HasSlots, Wraps
<1>12. EndInv'
  <2>1. \A p : ~Ending(stack', p) /\ ~Does(stack', "detach", p) /\ ~Does(stack', "free", p)
    BY <1>2, EmptyCalls
  <2>2. \A p \in Obj : p \in pending' <=> p \in detached'
    BY <1>0, <1>3, <1>4, <1>6 DEF EndInv
  <2>3. \A p \in detached' : p \notin listed' /\ Slots(p)' = {}
    BY <1>0, <1>4, <1>6, <1>10 DEF EndInv
  <2> QED BY <2>1, <2>2, <2>3 DEF EndInv
<1>13. DyingInv'
  <2>1. \A p : ~Does(stack', "dealloc", p) /\ ~Does(stack, "dealloc", p)
    BY <1>2, EmptyCalls
  <2> QED BY <1>0, <1>3, <2>1 DEF DyingInv
<1>14. StoreInv'
  BY <1>2, EmptyCalls DEF StoreInv
<1>15. ModeInv'
  BY <1>1, <1>2, <1>3, <1>5, EmptyCalls, ReturnMode DEF gcVars, Slots
<1>16. MarkInv' /\ CollectExact' /\ ExitEmpties' /\ SweepInv'
  BY <1>1, <1>3, ReturnRest
<1>17. CutInv'
  BY <1>3, <1>5 DEF CutInv
<1> QED BY <1>2, <1>7, <1>9, <1>11, <1>12, <1>13, <1>14, <1>15, <1>16, <1>17, EmptyCalls, Whole

\* One element more.
LEMMA CountMore ==
  ASSUME NEW S, IsFiniteSet(S), NEW x, x \notin S
  PROVE  Cardinality(S \cup {x}) = Cardinality(S) + 1 /\ Cardinality(S) \in Nat
BY FS_AddElement, FS_CardinalityType

\* The end of a property write: the new value is counted and stored.
LEMMA StoreStep == IInv /\ Store => IInv'
<1> SUFFICES ASSUME IInv, Store, NEW o, NEW c, NEW v, o = Top.obj, c = <<Top.obj, Top.at>>, v = Top.val
             PROVE  IInv'
  OBVIOUS
<1>0. TypeOK /\ Counted /\ Shape(stack) /\ KindInv /\ EndInv /\ DyingInv /\ StoreInv /\ ModeInv
  BY Parts
<1>1. stack # <<>> /\ Top.op = "store" /\ stack' = Rest
  BY DEF Store, Calls
<1>2. /\ stack' = <<>> /\ c \in Cell /\ ToSet(stack) = {Top} /\ Top \in FrameType
      /\ \A op, p : Does(stack, op, p) <=> op = "store" /\ p = o
  BY <1>1, TopFacts, EmptyCalls
<1>3. UNCHANGED <<kind, impl, local, ref, pending, detached, mode, gcVars, sweepVars>>
  BY DEF Store
<1>4. slot' = [slot EXCEPT ![c] = v]
  BY DEF Store
<1>5. IF v = Null THEN UNCHANGED <<prop, listed>> ELSE IncProp(v)
  BY DEF Store
<1>6. v \in Obj \cup {Null} /\ o \in Holder /\ (v # Null => local[v] > 0)
      /\ (o # Class => local[o] > 0 /\ HasSlots(o))
  BY <1>0, <1>1, <1>2 DEF FrameType, StoreInv
<1>7. Stale = {c}
  BY <1>1, <1>2 DEF Stale
<1>8. mode = "run"
  BY <1>0, <1>2, <1>6 DEF ModeInv
<1>9. slot' \in [Cell -> Obj \cup {Null}] /\ slot'[c] = v /\ \A d \in Cell : d # c => slot'[d] = slot[d]
  BY <1>0, <1>2, <1>4, <1>6, Types
<1>10. pending = {} /\ detached = {} /\ pinned = {}
  <2>1. \A p \in Obj : ~Ending(stack, p)
    BY <1>2 DEF Ending
  <2> QED BY <1>0, <1>8, <2>1, Types DEF EndInv, ModeInv
<1>11. Stale' = {}
  BY <1>2, EmptyCalls DEF Stale
<1>12. ASSUME v # Null PROVE v \in Obj /\ kind[v] # "free" /\ prop[v] \in Nat
  <2>1. v \in Obj /\ local[v] > 0
    BY <1>6, <1>12
  <2>2. ref[v] > 0
    BY <1>0, <2>1, OwnedFacts
  <2> QED BY <1>0, <2>1, <2>2, Numbers DEF Counted
<1>13. /\ prop' \in [Obj -> Nat] /\ listed' \subseteq Obj
       /\ \A x \in Obj : prop'[x] = Cardinality(HoldingCells(x))' /\ prop'[x] >= prop[x]
       /\ \A x \in Obj : prop'[x] # prop[x] \/ (x \in listed' /\ x \notin listed) => kind[x] # "free"
       /\ \A x \in Obj : x \in listed' <=> prop'[x] > 0
  <2>1. \A x \in Obj : x # v => HoldingCells(x)' = HoldingCells(x)
    BY <1>2, <1>7, <1>9, <1>11 DEF HoldingCells
  <2>2. \A x \in Obj : prop[x] = Cardinality(HoldingCells(x)) /\ prop[x] \in Nat /\ (x \in listed <=> prop[x] > 0)
    BY <1>0, <1>10, Numbers DEF Counted
  <2>3. CASE v = Null
    <3>1. \A x \in Obj : x # v
      BY <2>3, ArcAssumption
    <3>2. prop' = prop /\ listed' = listed
      BY <1>5, <2>3
    <3>3. \A x \in Obj : prop'[x] = Cardinality(HoldingCells(x))' /\ prop'[x] >= prop[x]
      BY <2>1, <2>2, <3>1, <3>2
    <3> QED BY <1>0, <2>2, <3>2, <3>3, Types
  <2>4. CASE v # Null
    <3>1. prop' = [prop EXCEPT ![v] = @ + 1] /\ listed' = listed \cup {v}
      BY <1>5, <2>4 DEF IncProp
    <3>2. HoldingCells(v)' = HoldingCells(v) \cup {c} /\ c \notin HoldingCells(v)
      BY <1>2, <1>7, <1>9, <1>11 DEF HoldingCells
    <3>3. Cardinality(HoldingCells(v) \cup {c}) = Cardinality(HoldingCells(v)) + 1
      BY <3>2, OwnersFinite, CountMore
    <3>4. /\ prop' \in [Obj -> Nat] /\ prop'[v] = prop[v] + 1
          /\ \A x \in Obj : x # v => prop'[x] = prop[x]
      BY <1>0, <1>12, <2>4, <3>1, Types
    <3>5. prop'[v] = Cardinality(HoldingCells(v))' /\ prop'[v] >= prop[v] /\ prop'[v] > 0
      BY <1>12, <2>2, <2>4, <3>2, <3>3, <3>4
    <3>6. \A x \in Obj : x # v => prop'[x] = Cardinality(HoldingCells(x))' /\ prop'[x] >= prop[x]
      BY <2>1, <2>2, <3>4
    <3>7. listed' \subseteq Obj
      BY <1>0, <1>12, <2>4, <3>1, Types
    <3>8. \A x \in Obj : x = v \/ (prop'[x] = prop[x] /\ (x \in listed' <=> x \in listed))
      BY <3>1, <3>4
    <3>9. \A x \in Obj : prop'[x] # prop[x] \/ (x \in listed' /\ x \notin listed) => kind[x] # "free"
      BY <1>12, <2>4, <3>8
    <3>10. \A x \in Obj : x \in listed' <=> prop'[x] > 0
      BY <2>2, <3>1, <3>5, <3>8
    <3>11. \A x \in Obj : prop'[x] = Cardinality(HoldingCells(x))' /\ prop'[x] >= prop[x]
      BY <3>5, <3>6
    <3> QED BY <3>4, <3>7, <3>9, <3>10, <3>11
  <2> QED BY <2>3, <2>4
<1>14. TypeOK'
  BY <1>0, <1>2, <1>3, <1>9, <1>13, EmptyCalls DEF TypeOK, gcVars, sweepVars
<1>15. Counted'
  <2>1. \A x \in Obj : Wrappers(x)' = Wrappers(x)
    BY <1>3 DEF Wrappers, Wraps
  <2>2. \A x \in Obj : ref'[x] = local'[x] + Cardinality(Wrappers(x))' + (IF x \in pinned' THEN 1 ELSE 0)
    BY <1>0, <1>3, <2>1 DEF Counted, gcVars
  <2>3. \A x \in Obj : kind'[x] = "free" => ref'[x] = 0 /\ prop'[x] = 0 /\ x \notin listed' \cup detached'
    BY <1>0, <1>3, <1>13 DEF Counted
  <2> QED BY <1>13, <2>2, <2>3 DEF Counted
<1>16. \A p \in Obj : p # o => (Slots(p) = {} => Slots(p)' = {})
  BY <1>9, ArcAssumption DEF Slots, Index, Cell
<1>17. KindInv'
  <2>1. \A p \in Obj : ~HasSlots(p) => p # o
    BY <1>6, ArcAssumption
  <2>2. \A p \in Obj : ~HasSlots(p)' => Slots(p)' = {}
    BY <1>0, <1>3, <1>16, <2>1 DEF KindInv, HasSlots
  <2>3. (\A w, x \in Obj : Wraps(w, x)' => HasSlots(x)') /\ \A w \in Obj : kind'[w] = "iface" => impl'[w] \in Obj
    BY <1>0, <1>3 DEF KindInv, HasSlots, Wraps
  <2> QED BY <2>2, <2>3 DEF KindInv
<1>18. EndInv'
  <2>1. \A p : ~Ending(stack', p) /\ ~Does(stack', "detach", p) /\ ~Does(stack', "free", p)
    BY <1>2, EmptyCalls
  <2> QED BY <1>3, <1>10, <2>1 DEF EndInv
<1>19. DyingInv'
  <2>1. \A p : ~Does(stack', "dealloc", p) /\ ~Does(stack, "dealloc", p)
    BY <1>2, EmptyCalls
  <2>2. \A p \in Obj : kind'[p] # "free" => ref'[p] > 0 \/ prop'[p] > 0
    BY <1>0, <1>3, <1>10, <1>13, <2>1, Numbers DEF DyingInv
  <2> QED BY <1>3, <1>10, <2>1, <2>2 DEF DyingInv
<1>20. StoreInv'
  BY <1>2, EmptyCalls DEF StoreInv
<1>21. ModeInv'
  BY <1>1, <1>2, <1>3, <1>8, EmptyCalls, ReturnMode DEF gcVars
<1>22. MarkInv' /\ CollectExact' /\ ExitEmpties' /\ SweepInv'
  BY <1>1, <1>3, ReturnRest
<1>23. CutInv'
  BY <1>3, <1>8 DEF CutInv
<1> QED BY <1>2, <1>14, <1>15, <1>17, <1>18, <1>19, <1>20, <1>21, <1>22, <1>23, EmptyCalls, Whole

\* The memory of an object goes.
LEMMA FreeStep == IInv /\ Free => IInv'
<1> SUFFICES ASSUME IInv, Free, NEW o, o = Top.obj PROVE IInv'
  OBVIOUS
<1>0. TypeOK /\ Counted /\ Shape(stack) /\ KindInv /\ EndInv /\ DyingInv /\ StoreInv /\ ModeInv
  BY Parts
<1>1. stack # <<>> /\ Top.op = "free" /\ stack' = Rest /\ Release({o})
  BY DEF Free, Calls
<1>2. /\ Rest \in Seq(FrameType) /\ Shape(Rest) /\ ToSet(stack) = {Top} \cup ToSet(Rest)
      /\ \A op, p : Does(stack, op, p) <=> Does(Rest, op, p) \/ (Top.op = op /\ Top.obj = p)
      /\ \A p : ~Does(stack, "dealloc", p)
      /\ o \in Obj /\ ~Ending(Rest, o) /\ ~Does(Rest, "detach", o)
  BY <1>1, TopFacts DEF Ends
<1>3. UNCHANGED <<local, listed, detached, mode, gcVars, sweepVars>>
  BY <1>1 DEF Free, Release
<1>4. Does(stack, "free", o) /\ Ending(stack, o) /\ ~Does(stack, "detach", o)
  BY <1>1, <1>2 DEF Ending
<1>5. /\ o \in pending /\ o \notin detached /\ Slots(o) = {} /\ prop[o] = 0 /\ o \notin listed
      /\ kind[o] # "free" /\ ref[o] = 0
  <2>1. o \in pending /\ o \notin detached /\ Slots(o) = {} /\ prop[o] = 0 /\ o \notin listed
    BY <1>0, <1>2, <1>4 DEF EndInv
  <2> QED BY <1>0, <2>1 DEF DyingInv
<1>6. local[o] = 0 /\ o \notin pinned /\ \A w \in Obj : ~Wraps(w, o)
  BY <1>0, <1>2, <1>5, NoRef
<1>7. /\ kind' = [x \in Obj |-> IF x \in {o} THEN "free" ELSE kind[x]]
      /\ impl' = [x \in Obj |-> IF x \in {o} THEN Null ELSE impl[x]]
      /\ slot' = [d \in Cell |-> IF d[1] \in {o} THEN Null ELSE slot[d]]
      /\ ref' = [x \in Obj |-> IF x \in {o} THEN 0 ELSE ref[x]]
      /\ prop' = [x \in Obj |-> IF x \in {o} THEN 0 ELSE prop[x]]
      /\ pending' = pending \ {o}
  BY <1>1 DEF Release, Freed, Zeroed
<1>8. /\ kind'[o] = "free" /\ \A x \in Obj : x # o => kind'[x] = kind[x] /\ impl'[x] = impl[x]
      /\ \A x \in Obj : ref'[x] = ref[x] /\ prop'[x] = prop[x]
      /\ kind' \in [Obj -> Kind] /\ impl' \in [Obj -> Obj \cup {Null}]
      /\ ref' \in [Obj -> Nat] /\ prop' \in [Obj -> Nat]
  BY <1>0, <1>2, <1>5, <1>7, Types DEF Kind
<1>9. slot' \in [Cell -> Obj \cup {Null}] /\ \A d \in Cell : slot'[d] = slot[d]
  <2>1. ASSUME NEW d \in Cell, d[1] = o PROVE slot[d] = Null
    <3>1. d = <<o, d[2]>> /\ d[2] \in Index(o)
      BY <1>2, <2>1, ArcAssumption DEF Cell, Index
    <3> QED BY <1>5, <3>1 DEF Slots
  <2> QED BY <1>0, <1>7, <2>1, Types
<1>10. \A w, x \in Obj : Wraps(w, x)' <=> Wraps(w, x)
  <2>1. \A x \in Obj : ~Wraps(o, x)
    BY <1>5 DEF Wraps
  <2>2. \A x \in Obj : ~Wraps(o, x)'
    BY <1>8 DEF Wraps
  <2>3. \A w, x \in Obj : w # o => (Wraps(w, x)' <=> Wraps(w, x))
    BY <1>7, <1>8 DEF Wraps
  <2> QED BY <2>1, <2>2, <2>3
<1>11. TypeOK'
  BY <1>0, <1>1, <1>2, <1>3, <1>7, <1>8, <1>9 DEF TypeOK, gcVars, sweepVars
<1>12. Stale' = Stale
  BY <1>1, <1>2 DEF Stale
<1>13. Counted'
  <2>1. \A x \in Obj : HoldingCells(x)' = HoldingCells(x)
    BY <1>9, <1>12 DEF HoldingCells
  <2>2. \A x \in Obj : Wrappers(x)' = Wrappers(x)
    BY <1>10 DEF Wrappers
  <2>3. \A x \in Obj : /\ prop'[x] = Cardinality(HoldingCells(x))'
                       /\ ref'[x] = local'[x] + Cardinality(Wrappers(x))' + (IF x \in pinned' THEN 1 ELSE 0)
    BY <1>0, <1>3, <1>8, <2>1, <2>2 DEF Counted, gcVars
  <2>4. \A x \in Obj : /\ kind'[x] = "free" => ref'[x] = 0 /\ prop'[x] = 0 /\ x \notin listed' \cup detached'
                       /\ x \notin pending' => (x \in listed' <=> prop'[x] > 0)
    BY <1>0, <1>3, <1>5, <1>7, <1>8 DEF Counted
  <2> QED BY <2>3, <2>4 DEF Counted
<1>14. \A p \in Obj : Slots(p)' = Slots(p)
  BY <1>9, ArcAssumption DEF Slots, Index, Cell
<1>15. KindInv'
  <2>1. \A p \in Obj : ~HasSlots(p)' => Slots(p)' = {}
    BY <1>0, <1>5, <1>8, <1>14 DEF KindInv, HasSlots
  <2>2. \A w, x \in Obj : Wraps(w, x)' => HasSlots(x)'
    BY <1>0, <1>6, <1>8, <1>10 DEF KindInv, HasSlots
  <2>3. \A w \in Obj : kind'[w] = "iface" => impl'[w] \in Obj
    BY <1>0, <1>8 DEF KindInv
  <2> QED BY <2>1, <2>2, <2>3 DEF KindInv
<1>16. \A op, p : Does(stack', op, p) => Does(stack, op, p)
  BY <1>1, <1>2
<1>17. EndInv'
  <2>1. \A p \in Obj : Ending(stack', p) <=> Ending(stack, p) /\ p # o
    BY <1>1, <1>2 DEF Ending
  <2>2. \A p \in Obj : p \in pending' <=> p \in detached' \/ Ending(stack', p)
    BY <1>0, <1>3, <1>5, <1>7, <2>1 DEF EndInv
  <2>3. \A p \in detached' : ~Ending(stack', p) /\ p \notin listed' /\ Slots(p)' = {}
    BY <1>0, <1>3, <1>14, <2>1, Types DEF EndInv
  <2>4. \A p \in Obj : Ending(stack', p) => Slots(p)' = {} \/ Does(stack', "detach", p)
    BY <1>0, <1>1, <1>2, <1>14, <2>1 DEF EndInv
  <2>5. \A p \in Obj : Does(stack', "detach", p) => HasSlots(p)'
    BY <1>0, <1>1, <1>2, <1>8 DEF EndInv, HasSlots
  <2>6. \A p \in Obj : Does(stack', "free", p) => prop'[p] = 0 /\ p \notin listed'
    BY <1>0, <1>3, <1>8, <1>16 DEF EndInv
  <2> QED BY <2>2, <2>3, <2>4, <2>5, <2>6 DEF EndInv
<1>18. DyingInv'
  <2>1. \A p : ~Does(stack', "dealloc", p)
    BY <1>2, <1>16
  <2> QED BY <1>0, <1>2, <1>7, <1>8, <2>1, Types DEF DyingInv
<1>19. StoreInv'
  <2>1. \A f \in ToSet(stack') : f.op = "store" => f \in ToSet(stack) /\ f.obj \in Holder
    BY <1>1, <1>2, FrameIn
  <2>2. \A x \in Obj : local[x] > 0 => x # o
    BY <1>6
  <2> QED BY <1>0, <1>3, <1>8, <2>1, <2>2 DEF StoreInv, HasSlots, Holder
<1>20. ModeInv'
  <2>1. Slots(Class)' = Slots(Class)
    BY <1>9, ArcAssumption DEF Slots, Index, Cell
  <2> QED BY <1>1, <1>3, <1>16, <2>1, ReturnMode DEF gcVars
<1>21. MarkInv' /\ CollectExact' /\ ExitEmpties' /\ SweepInv'
  <2>1. \A x \in Obj : kind'[x] \in {kind[x], "free"}
    BY <1>8
  <2>2. \A x \in pending : x \in pending' \/ kind'[x] = "free"
    BY <1>7, <1>8
  <2> QED BY <1>1, <1>3, <2>1, <2>2, ReturnRest
<1>22. CutInv'
  <2>1. mode \in {"clear", "unpin"} => o \notin before.used /\ before.used \subseteq Obj
    BY <1>0, <1>5, UsedHeld, Parts DEF CutInv
  <2>2. mode \in {"clear", "unpin"} => CutInv'
    BY <1>3, <1>7, <1>8, <1>9, <1>10, <2>1, CutKept DEF gcVars
  <2> QED BY <1>3, <2>2 DEF CutInv
<1> QED BY <1>1, <1>2, <1>11, <1>13, <1>15, <1>17, <1>18, <1>19, <1>20, <1>21, <1>22, Whole

-----------------------------------------------------------------------------
(* The program: no call is in progress.                                    *)

\* Between two operations nothing is stale, and outside the sweep nothing is ending.
LEMMA Idle ==
  ASSUME IInv, stack = <<>>
  PROVE  /\ pending = detached /\ Stale = {}
         /\ \A op, o : ~Does(stack, op, o)
         /\ mode # "sweep" => pending = {} /\ detached = {}
         /\ \A o \in Obj : kind[o] # "free" /\ o \notin pending => ref[o] > 0 \/ prop[o] > 0
<1>0. TypeOK /\ EndInv /\ ModeInv /\ DyingInv
  BY Parts
<1>1. \A op, o : ~Does(stack, op, o) /\ ~Ending(stack, o)
  BY EmptyCalls
<1>2. \A o \in Obj : o \in pending <=> o \in detached
  BY <1>0, <1>1 DEF EndInv
<1>3. pending = detached
  BY <1>0, <1>2, Types
<1> QED BY <1>0, <1>1, <1>3, EmptyCalls DEF ModeInv, DyingInv, Stale

\* Operations that leave the stack empty keep its part of the invariant.
LEMMA IdleAfter ==
  ASSUME IInv, stack = <<>>, stack' = <<>>, UNCHANGED <<pending, detached, listed>>,
         \A o \in detached : Slots(o)' = {}
  PROVE  stack' \in Seq(FrameType) /\ Shape(stack') /\ EndInv' /\ StoreInv' /\ Stale' = Stale
<1>0. EndInv
  BY Parts
<1>1. \A o : ~Ending(stack', o) /\ ~Does(stack', "detach", o) /\ ~Does(stack', "free", o)
  BY EmptyCalls
<1>2. pending = detached
  BY Idle
<1>3. EndInv'
  BY <1>0, <1>1, <1>2 DEF EndInv
<1> QED BY <1>3, EmptyCalls DEF StoreInv, Stale

\* Operations of the program keep the parts about collections and the exit.
LEMMA RunRest ==
  ASSUME IInv, mode = "run", mode' = "run", UNCHANGED <<detached, gcVars, sweepVars>>,
         \A o \in Obj : ~Does(stack', "unlink", o), ~Does(stack', "clear", Class)
  PROVE  ModeInv' /\ MarkInv' /\ CutInv' /\ CollectExact' /\ SweepInv' /\ ExitEmpties'
<1>0. ModeInv
  BY Parts
<1>1. ModeInv'
  BY <1>0 DEF ModeInv, gcVars, sweepVars
<1> QED BY <1>1 DEF MarkInv, CutInv, CollectExact, SweepInv, ExitEmpties

\* One handle more, or less, on v.
LEMMA HandleCount ==
  ASSUME TypeOK, Counted, NEW v \in Obj, NEW d \in {1, -1}, local[v] + d >= 0,
         ref' = [ref EXCEPT ![v] = @ + d], local' = [local EXCEPT ![v] = @ + d],
         \A x \in Obj : Wrappers(x)' = Wrappers(x), pinned' = pinned
  PROVE  \A x \in Obj :
           /\ ref'[x] = local'[x] + Cardinality(Wrappers(x))' + (IF x \in pinned' THEN 1 ELSE 0)
           /\ ref'[x] \in Nat /\ (x # v => ref'[x] = ref[x] /\ local'[x] = local[x])
<1>1. ref'[v] = ref[v] + d /\ local'[v] = local[v] + d
      /\ \A x \in Obj : x # v => ref'[x] = ref[x] /\ local'[x] = local[x]
  BY Types
<1>2. \A x \in Obj : /\ ref[x] = local[x] + Cardinality(Wrappers(x)) + (IF x \in pinned THEN 1 ELSE 0)
                     /\ Cardinality(Wrappers(x))' = Cardinality(Wrappers(x))
                     /\ Cardinality(Wrappers(x)) \in Nat /\ ref[x] \in Nat /\ local[x] \in Nat
  BY OwnersFinite, Numbers DEF Counted
<1>3. ref'[v] = local'[v] + Cardinality(Wrappers(v))' + (IF v \in pinned' THEN 1 ELSE 0) /\ ref'[v] \in Nat
  <2> DEFINE k == IF v \in pinned THEN 1 ELSE 0
             n == Cardinality(Wrappers(v))
  <2>1. k \in Nat /\ n \in Nat /\ ref[v] = local[v] + n + k /\ ref[v] \in Nat /\ local[v] \in Nat
    BY <1>2
  <2>2. (IF v \in pinned' THEN 1 ELSE 0) = k /\ Cardinality(Wrappers(v))' = n
    BY <1>2
  <2> HIDE DEF k, n
  <2>3. d \in Int /\ ref[v] + d = (local[v] + d) + n + k /\ ref[v] + d >= 0
    BY <2>1
  <2> QED BY <1>1, <2>1, <2>2, <2>3
<1>4. \A x \in Obj : x # v =>
        ref'[x] = local'[x] + Cardinality(Wrappers(x))' + (IF x \in pinned' THEN 1 ELSE 0) /\ ref'[x] \in Nat
  BY <1>1, <1>2
<1> QED BY <1>1, <1>3, <1>4

\* One lemma per operation of the program.
LEMMA ReadStep ==
  ASSUME NEW p \in Holder, NEW i \in Index(p), IInv, Read(p, i) PROVE IInv'
<1>0. TypeOK /\ Counted /\ KindInv /\ EndInv /\ DyingInv
  BY Parts
<1> DEFINE v == slot[<<p, i>>]
<1>1. mode = "run" /\ stack = <<>> /\ i \in Slots(p)
  BY DEF Read, In, Slots
<1>2. <<p, i>> \in Cell /\ v \in Obj
  BY <1>0, <1>1, SlotCell
<1>3. UNCHANGED <<kind, impl, slot, prop, pending, listed, detached, stack, mode, gcVars, sweepVars>>
  BY DEF Read
<1>4. local[v] < MaxLocals /\ local' = [local EXCEPT ![v] = @ + 1] /\ ref' = [ref EXCEPT ![v] = @ + 1]
  BY DEF Read
<1>5. kind[v] # "free"
  <2>1. prop[v] > 0
    BY <1>0, <1>1, <1>2, Idle, OwnedFacts
  <2> QED BY <1>0, <1>2, <2>1 DEF Counted
<1> HIDE DEF v
<1>6. \A x : Slots(x)' = Slots(x)
  BY <1>3 DEF Slots
<1>7. Shape(stack') /\ EndInv' /\ StoreInv' /\ Stale' = Stale
  <2>1. detached = {}
    BY <1>1, Idle
  <2> QED BY <1>1, <1>3, <2>1, IdleAfter
<1>8. KindInv'
  BY <1>0, <1>3, <1>6 DEF KindInv, HasSlots, Wraps
<1>9. \A x \in Obj : Wrappers(x)' = Wrappers(x)
  BY <1>3 DEF Wrappers, Wraps
<1>10. \A x \in Obj :
         /\ ref'[x] = local'[x] + Cardinality(Wrappers(x))' + (IF x \in pinned' THEN 1 ELSE 0)
         /\ ref'[x] \in Nat /\ (x # v => ref'[x] = ref[x] /\ local'[x] = local[x])
  <2>1. local[v] + 1 >= 0 /\ pinned' = pinned
    BY <1>0, <1>2, <1>3, Numbers DEF gcVars
  <2> QED BY <1>0, <1>2, <1>4, <1>9, <2>1, HandleCount
<1>11. TypeOK'
  <2>1. local' \in [Obj -> 0 .. MaxLocals] /\ ref' \in [Obj -> Nat]
    BY <1>0, <1>2, <1>4, <1>10, Types, ArcAssumption
  <2> QED BY <1>0, <1>3, <2>1 DEF TypeOK, gcVars, sweepVars
<1>12. Counted'
  <2>1. \A x \in Obj : kind'[x] = "free" => kind[x] = "free" /\ ref'[x] = ref[x]
    BY <1>3, <1>5, <1>10
  <2> QED BY <1>3, <1>7, <1>10, <2>1, CountedRef
<1>13. DyingInv'
  <2>1. pending' = {} /\ (\A op, o : ~Does(stack', op, o)) /\ (\A o \in Obj : kind[o] # "free" => ref[o] > 0 \/ prop[o] > 0)
    BY <1>1, <1>3, Idle
  <2>2. ref'[v] > 0
    BY <1>0, <1>2, <1>4, Numbers, Types
  <2>3. \A o \in Obj : kind'[o] # "free" => ref'[o] > 0 \/ prop'[o] > 0
    BY <1>3, <1>10, <2>1, <2>2
  <2> QED BY <2>1, <2>3 DEF DyingInv
<1>14. ModeInv' /\ MarkInv' /\ CutInv' /\ CollectExact' /\ SweepInv' /\ ExitEmpties'
  BY <1>1, <1>3, EmptyCalls, RunRest
<1> QED BY <1>7, <1>8, <1>11, <1>12, <1>13, <1>14, Whole

LEMMA DropStep ==
  ASSUME NEW v \in Obj, IInv, Drop(v) PROVE IInv'
<1>0. TypeOK /\ Counted /\ KindInv /\ EndInv /\ DyingInv
  BY Parts
<1>1. mode = "run" /\ stack = <<>> /\ local[v] > 0
  BY DEF Drop, In, Owns
<1>2. UNCHANGED <<kind, impl, slot, prop, pending, listed, detached, mode, gcVars, sweepVars>>
  BY DEF Drop
<1>3. local' = [local EXCEPT ![v] = @ - 1] /\ DecRef(v, <<>>)
  BY DEF Drop
<1>4. ref[v] > 0 /\ kind[v] # "free"
  <2>1. ref[v] > 0
    BY <1>0, <1>1, OwnedFacts
  <2> QED BY <1>0, <2>1 DEF Counted
<1>5. /\ \E dead : Atop(stack', <<>>, dead)
      /\ DyingInv'
      /\ ref' \in [Obj -> Nat] /\ ref' = [ref EXCEPT ![v] = ref[v] - 1]
  <2>1. \A o \in Obj : o \in pending \/ Does(stack, "dealloc", o) => o \in pending'
    BY <1>1, <1>2, EmptyCalls
  <2>2. \A o \in pending' : o \in pending \/ (o \in Obj /\ kind[o] # "free" /\ ref[o] = 0)
    BY <1>2
  <2> QED BY <1>2, <1>3, <1>4, <2>1, <2>2, EmptyCalls, ReleaseRef
<1>6. /\ stack' \in Seq(FrameType) /\ Shape(stack') /\ StaleOf(stack') = {}
      /\ \A op, o : op # "dealloc" => ~Does(stack', op, o)
      /\ \A f \in ToSet(stack') : f.op = "dealloc"
  BY <1>5, EmptyCalls DEF Atop
<1>7. Stale' = Stale
  BY <1>1, <1>6, Idle DEF Stale, StaleOf
<1>8. \A x : Slots(x)' = Slots(x)
  BY <1>2 DEF Slots
<1>9. KindInv'
  BY <1>0, <1>2, <1>8 DEF KindInv, HasSlots, Wraps
<1>10. \A x \in Obj : Wrappers(x)' = Wrappers(x)
  BY <1>2 DEF Wrappers, Wraps
<1>11. \A x \in Obj :
         /\ ref'[x] = local'[x] + Cardinality(Wrappers(x))' + (IF x \in pinned' THEN 1 ELSE 0)
         /\ ref'[x] \in Nat /\ (x # v => ref'[x] = ref[x] /\ local'[x] = local[x])
  <2>1. local[v] + (-1) >= 0 /\ pinned' = pinned /\ local[v] - 1 = local[v] + (-1) /\ ref[v] - 1 = ref[v] + (-1)
    BY <1>0, <1>1, <1>2, Numbers DEF gcVars
  <2>2. ref' = [ref EXCEPT ![v] = @ + (-1)] /\ local' = [local EXCEPT ![v] = @ + (-1)]
    BY <1>3, <1>5, <2>1
  <2> QED BY <1>0, <1>10, <2>1, <2>2, HandleCount
<1>12. TypeOK'
  <2>1. local' \in [Obj -> 0 .. MaxLocals]
    BY <1>0, <1>1, <1>3, Types, ArcAssumption
  <2> QED BY <1>0, <1>2, <1>5, <1>6, <2>1 DEF TypeOK, gcVars, sweepVars
<1>13. Counted'
  <2>1. \A x \in Obj : kind'[x] = "free" => kind[x] = "free" /\ ref'[x] = ref[x]
    BY <1>2, <1>4, <1>11
  <2> QED BY <1>2, <1>7, <1>11, <2>1, CountedRef
<1>14. EndInv'
  <2>1. pending' = {} /\ detached' = {}
    BY <1>1, <1>2, Idle
  <2>2. \A o : ~Ending(stack', o) /\ ~Does(stack', "detach", o) /\ ~Does(stack', "free", o)
    BY <1>6 DEF Ending
  <2> QED BY <2>1, <2>2 DEF EndInv
<1>15. StoreInv'
  BY <1>6 DEF StoreInv
<1>16. ModeInv' /\ MarkInv' /\ CutInv' /\ CollectExact' /\ SweepInv' /\ ExitEmpties'
  BY <1>1, <1>2, <1>6, RunRest
<1> QED BY <1>5, <1>6, <1>9, <1>12, <1>13, <1>14, <1>15, <1>16, Whole

\* An address that is free: nothing holds it, and it holds nothing.
LEMMA FreeFacts ==
  ASSUME IInv, NEW o \in Obj, kind[o] = "free"
  PROVE  /\ ref[o] = 0 /\ prop[o] = 0 /\ o \notin listed /\ o \notin pending /\ Slots(o) = {}
         /\ local[o] = 0 /\ o \notin pinned
         /\ \A w \in Obj : ~Wraps(w, o) /\ ~Wraps(o, w)
<1>0. TypeOK /\ Counted /\ KindInv /\ DyingInv
  BY Parts
<1>1. ref[o] = 0 /\ prop[o] = 0 /\ o \notin listed /\ o \notin pending
  BY <1>0 DEF Counted, DyingInv
<1>2. Slots(o) = {}
  BY <1>0 DEF KindInv, HasSlots
<1> QED BY <1>0, <1>1, <1>2, NoRef DEF Wraps

LEMMA AllocateStep ==
  ASSUME NEW o \in Obj, NEW k \in {"class", "native"}, IInv, Allocate(o, k) PROVE IInv'
<1>0. TypeOK /\ Counted /\ KindInv /\ EndInv /\ DyingInv
  BY Parts
<1>1. mode = "run" /\ stack = <<>> /\ kind[o] = "free" /\ MaxLocals > 0
  BY DEF Allocate, In
<1>2. UNCHANGED <<impl, slot, prop, pending, listed, detached, stack, mode, gcVars, sweepVars>>
  BY DEF Allocate
<1>3. /\ kind' = [kind EXCEPT ![o] = k] /\ local' = [local EXCEPT ![o] = 1] /\ ref' = [ref EXCEPT ![o] = 1]
  BY DEF Allocate
<1>4. ref[o] = 0 /\ local[o] = 0 /\ \A w \in Obj : ~Wraps(w, o) /\ ~Wraps(o, w)
  BY <1>1, FreeFacts
<1>5. kind'[o] = k /\ \A x \in Obj : x # o => kind'[x] = kind[x]
  BY <1>0, <1>3, Types
<1>6. \A w, x \in Obj : Wraps(w, x)' <=> Wraps(w, x)
  <2>1. \A x \in Obj : ~Wraps(o, x)'
    BY <1>5 DEF Wraps
  <2>2. \A w, x \in Obj : w # o => (Wraps(w, x)' <=> Wraps(w, x))
    BY <1>2, <1>5 DEF Wraps
  <2> QED BY <1>4, <2>1, <2>2
<1>7. \A x : Slots(x)' = Slots(x)
  BY <1>2 DEF Slots
<1>8. Shape(stack') /\ EndInv' /\ StoreInv' /\ Stale' = Stale
  <2>1. detached = {}
    BY <1>1, Idle
  <2> QED BY <1>1, <1>2, <2>1, IdleAfter
<1>9. KindInv'
  BY <1>0, <1>2, <1>4, <1>5, <1>6, <1>7 DEF KindInv, HasSlots
<1>10. \A x \in Obj : Wrappers(x)' = Wrappers(x)
  BY <1>6 DEF Wrappers
<1>11. \A x \in Obj :
         /\ ref'[x] = local'[x] + Cardinality(Wrappers(x))' + (IF x \in pinned' THEN 1 ELSE 0)
         /\ ref'[x] \in Nat /\ (x # o => ref'[x] = ref[x] /\ local'[x] = local[x])
  <2>1. local[o] + 1 >= 0 /\ pinned' = pinned
    BY <1>2, <1>4 DEF gcVars
  <2>2. ref' = [ref EXCEPT ![o] = @ + 1] /\ local' = [local EXCEPT ![o] = @ + 1]
    BY <1>3, <1>4
  <2> QED BY <1>0, <1>10, <2>1, <2>2, HandleCount
<1>12. TypeOK'
  <2>1. local' \in [Obj -> 0 .. MaxLocals] /\ ref' \in [Obj -> Nat] /\ kind' \in [Obj -> Kind]
    BY <1>0, <1>1, <1>3, Types, ArcAssumption DEF Kind
  <2> QED BY <1>0, <1>2, <2>1 DEF TypeOK, gcVars, sweepVars
<1>13. Counted'
  <2>1. \A x \in Obj : kind'[x] = "free" => kind[x] = "free" /\ ref'[x] = ref[x]
    BY <1>5, <1>11
  <2> QED BY <1>2, <1>8, <1>11, <2>1, CountedRef
<1>14. DyingInv'
  <2>1. pending' = {} /\ (\A op, x : ~Does(stack', op, x)) /\ (\A x \in Obj : kind[x] # "free" => ref[x] > 0 \/ prop[x] > 0)
    BY <1>1, <1>2, Idle
  <2>2. ref'[o] > 0
    BY <1>0, <1>3, Types
  <2>3. \A x \in Obj : kind'[x] # "free" => ref'[x] > 0 \/ prop'[x] > 0
    BY <1>2, <1>5, <1>11, <2>1, <2>2
  <2> QED BY <2>1, <2>3 DEF DyingInv
<1>15. ModeInv' /\ MarkInv' /\ CutInv' /\ CollectExact' /\ SweepInv' /\ ExitEmpties'
  BY <1>1, <1>2, EmptyCalls, RunRest
<1> QED BY <1>8, <1>9, <1>12, <1>13, <1>14, <1>15, Whole

LEMMA AllocateIfaceStep ==
  ASSUME NEW o \in Obj, NEW x \in Obj, IInv, AllocateIface(o, x) PROVE IInv'
<1>0. TypeOK /\ Counted /\ KindInv /\ EndInv /\ DyingInv
  BY Parts
<1>1. mode = "run" /\ stack = <<>> /\ kind[o] = "free" /\ MaxLocals > 0 /\ HasSlots(x) /\ x # o
  BY DEF AllocateIface, In, HasSlots
<1>2. UNCHANGED <<slot, prop, pending, listed, detached, stack, mode, gcVars, sweepVars>>
  BY DEF AllocateIface
<1>3. /\ kind' = [kind EXCEPT ![o] = "iface"] /\ impl' = [impl EXCEPT ![o] = x]
      /\ local' = [local EXCEPT ![o] = 1] /\ ref' = [ref EXCEPT ![o] = 1, ![x] = @ + 1]
  BY DEF AllocateIface
<1>4. /\ ref[o] = 0 /\ local[o] = 0 /\ o \notin pending /\ o \notin pinned /\ Slots(o) = {}
      /\ \A w \in Obj : ~Wraps(w, o) /\ ~Wraps(o, w)
  BY <1>1, FreeFacts
<1>5. /\ kind'[o] = "iface" /\ impl'[o] = x
      /\ \A y \in Obj : y # o => kind'[y] = kind[y] /\ impl'[y] = impl[y]
      /\ ref'[o] = 1 /\ ref'[x] = ref[x] + 1 /\ \A y \in Obj : y # o /\ y # x => ref'[y] = ref[y]
      /\ local'[o] = 1 /\ \A y \in Obj : y # o => local'[y] = local[y]
  BY <1>0, <1>1, <1>3, Types
<1>6. /\ \A y \in Obj : Wraps(o, y)' <=> y = x
      /\ \A w, y \in Obj : w # o => (Wraps(w, y)' <=> Wraps(w, y))
  <2>1. \A y \in Obj : Wraps(o, y)' <=> y = x
    BY <1>2, <1>4, <1>5 DEF Wraps
  <2>2. \A w, y \in Obj : w # o => (Wraps(w, y)' <=> Wraps(w, y))
    BY <1>2, <1>5 DEF Wraps
  <2> QED BY <2>1, <2>2
<1>7. \A y : Slots(y)' = Slots(y)
  BY <1>2 DEF Slots
<1>8. Shape(stack') /\ EndInv' /\ StoreInv' /\ Stale' = Stale
  <2>1. detached = {}
    BY <1>1, Idle
  <2> QED BY <1>1, <1>2, <2>1, IdleAfter
<1>9. KindInv'
  <2>1. \A y \in Obj : ~HasSlots(y)' => Slots(y)' = {}
    BY <1>0, <1>4, <1>5, <1>7 DEF KindInv, HasSlots
  <2>2. \A w, y \in Obj : Wraps(w, y)' => HasSlots(y)'
    <3>1. \A y \in Obj : y # o => (HasSlots(y)' <=> HasSlots(y))
      BY <1>5 DEF HasSlots
    <3> QED BY <1>0, <1>1, <1>4, <1>6, <3>1 DEF KindInv
  <2>3. \A w \in Obj : kind'[w] = "iface" => impl'[w] \in Obj
    BY <1>0, <1>5 DEF KindInv
  <2> QED BY <2>1, <2>2, <2>3 DEF KindInv
<1>10. /\ Wrappers(x)' = Wrappers(x) \cup {o} /\ o \notin Wrappers(x)
       /\ \A y \in Obj : y # x => Wrappers(y)' = Wrappers(y)
  BY <1>4, <1>6 DEF Wrappers
<1>11. \A y \in Obj : ref'[y] = local'[y] + Cardinality(Wrappers(y))' + (IF y \in pinned' THEN 1 ELSE 0)
  <2>1. pinned' = pinned
    BY <1>2 DEF gcVars
  <2>2. \A y \in Obj : /\ ref[y] = local[y] + Cardinality(Wrappers(y)) + (IF y \in pinned THEN 1 ELSE 0)
                       /\ Cardinality(Wrappers(y)) \in Nat /\ local[y] \in Nat /\ ref[y] \in Nat
    BY <1>0, OwnersFinite, Numbers DEF Counted
  <2>3. ref'[x] = local'[x] + Cardinality(Wrappers(x))' + (IF x \in pinned' THEN 1 ELSE 0)
    <3> DEFINE k == IF x \in pinned THEN 1 ELSE 0
               n == Cardinality(Wrappers(x))
    <3>1. k \in Nat /\ n \in Nat /\ ref[x] = local[x] + n + k /\ local[x] \in Nat
      BY <2>2
    <3>2. Cardinality(Wrappers(x))' = n + 1 /\ (IF x \in pinned' THEN 1 ELSE 0) = k
      BY <1>10, <2>1, OwnersFinite, CountMore
    <3> HIDE DEF k, n
    <3> QED BY <1>1, <1>5, <3>1, <3>2
  <2>4. ref'[o] = local'[o] + Cardinality(Wrappers(o))' + (IF o \in pinned' THEN 1 ELSE 0)
    <3>1. Cardinality(Wrappers(o))' = 0 /\ o \notin pinned'
      BY <1>1, <1>4, <1>10, <2>1, FS_EmptySet DEF Wrappers
    <3> QED BY <1>5, <3>1
  <2>5. \A y \in Obj : y # o /\ y # x =>
          ref'[y] = local'[y] + Cardinality(Wrappers(y))' + (IF y \in pinned' THEN 1 ELSE 0)
    BY <1>5, <1>10, <2>1, <2>2
  <2> QED BY <2>3, <2>4, <2>5
<1>12. TypeOK'
  <2>1. local' \in [Obj -> 0 .. MaxLocals] /\ ref' \in [Obj -> Nat] /\ kind' \in [Obj -> Kind]
        /\ impl' \in [Obj -> Obj \cup {Null}]
    BY <1>0, <1>1, <1>3, Types, ArcAssumption DEF Kind
  <2> QED BY <1>0, <1>2, <2>1 DEF TypeOK, gcVars, sweepVars
<1>13. Counted'
  <2>1. \A y \in Obj : kind'[y] = "free" => kind[y] = "free" /\ ref'[y] = ref[y]
    BY <1>1, <1>5 DEF HasSlots
  <2> QED BY <1>2, <1>8, <1>11, <2>1, CountedRef
<1>14. DyingInv'
  <2>1. pending' = {} /\ (\A op, y : ~Does(stack', op, y)) /\ (\A y \in Obj : kind[y] # "free" => ref[y] > 0 \/ prop[y] > 0)
    BY <1>1, <1>2, Idle
  <2>2. ref'[o] > 0 /\ ref'[x] > 0
    BY <1>0, <1>5, Numbers
  <2>3. \A y \in Obj : kind'[y] # "free" => ref'[y] > 0 \/ prop'[y] > 0
    BY <1>2, <1>5, <2>1, <2>2
  <2> QED BY <2>1, <2>3 DEF DyingInv
<1>15. ModeInv' /\ MarkInv' /\ CutInv' /\ CollectExact' /\ SweepInv' /\ ExitEmpties'
  BY <1>1, <1>2, EmptyCalls, RunRest
<1> QED BY <1>8, <1>9, <1>12, <1>13, <1>14, <1>15, Whole

LEMMA SetPropertyStep ==
  ASSUME NEW p \in Holder, NEW i \in Index(p), NEW v \in Obj \cup {Null}, IInv, SetProperty(p, i, v)
  PROVE  IInv'
<1>0. TypeOK /\ Counted /\ KindInv /\ EndInv /\ DyingInv /\ ModeInv
  BY Parts
<1> DEFINE c == <<p, i>>
           f == Frame("store", p, i, v)
           rest == <<f>>
<1>1. mode = "run" /\ stack = <<>> /\ (p = Class \/ (Owns(p) /\ HasSlots(p))) /\ (v = Null \/ Owns(v))
  BY DEF SetProperty, In
<1>2. UNCHANGED <<heapVars, ref, pending, detached, mode, gcVars, sweepVars>>
  BY DEF SetProperty
<1>3. c \in Cell /\ i \in Slot \cup Static
  BY ArcAssumption DEF Cell, Index, Holder
<1>4. f \in FrameType /\ f.op = "store" /\ f.obj = p /\ f.at = i /\ f.val = v
  BY <1>3 DEF Frame, FrameType, Op
<1>5. rest \in Seq(FrameType) /\ Shape(rest) /\ ToSet(rest) = {f}
  <2>1. <<f>> \o <<>> = <<f>>
    OBVIOUS
  <2> HIDE DEF f
  <2>2. <<f>> \o <<>> \in Seq(FrameType) /\ Shape(<<f>> \o <<>>) /\ ToSet(<<f>> \o <<>>) = {f} \cup ToSet(<<>>)
    BY <1>3, <1>4, EmptyCalls, PushFacts DEF Ends
  <2> QED BY <2>1, <2>2, EmptyCalls
<1>6. \A op, o : Does(rest, op, o) <=> op = "store" /\ o = p
  BY <1>4, <1>5 DEF Does
<1>7. StaleOf(rest) = {c}
  BY <1>4, <1>5 DEF StaleOf
<1>8. pending = {} /\ detached = {} /\ Stale = {} /\ \A op, o : ~Does(stack, op, o)
  BY <1>1, Idle
<1> HIDE DEF f
<1>9. CASE slot[c] = Null
  <2>1. stack' = rest /\ UNCHANGED <<prop, listed>>
    BY <1>9, <1>4 DEF SetProperty, f
  <2> HIDE DEF rest, c
  <2>2. TypeOK'
    BY <1>0, <1>2, <1>5, <2>1 DEF TypeOK, heapVars, gcVars, sweepVars
  <2>3. \A x : Slots(x)' = Slots(x)
    BY <1>2 DEF Slots, heapVars
  <2>4. KindInv'
    BY <1>0, <1>2, <2>3 DEF KindInv, HasSlots, Wraps, heapVars
  <2>5. Stale' = {c}
    BY <1>7, <2>1 DEF Stale, StaleOf
  <2>6. Counted'
    <3>1. \A x \in Obj : HoldingCells(x)' = HoldingCells(x)
      BY <1>2, <1>8, <1>9, <2>5, ArcAssumption DEF HoldingCells, heapVars
    <3>2. \A x \in Obj : Wrappers(x)' = Wrappers(x)
      BY <1>2 DEF Wrappers, Wraps, heapVars
    <3> QED BY <1>0, <1>2, <2>1, <3>1, <3>2 DEF Counted, heapVars, gcVars
  <2>7. EndInv'
    <3>1. \A x : ~Ending(stack', x) /\ ~Does(stack', "detach", x) /\ ~Does(stack', "free", x)
      BY <1>6, <2>1 DEF Ending
    <3> QED BY <1>2, <1>8, <3>1 DEF EndInv
  <2>8. DyingInv'
    <3>1. \A x : ~Does(stack', "dealloc", x)
      BY <1>6, <2>1
    <3> QED BY <1>0, <1>2, <1>8, <2>1, <3>1 DEF DyingInv, heapVars
  <2>9. StoreInv'
    BY <1>1, <1>2, <1>4, <1>5, <2>1 DEF StoreInv, Owns, HasSlots, heapVars
  <2>10. ModeInv' /\ MarkInv' /\ CutInv' /\ CollectExact' /\ SweepInv' /\ ExitEmpties'
    BY <1>1, <1>2, <1>6, <2>1, RunRest
  <2> QED BY <1>5, <2>1, <2>2, <2>4, <2>6, <2>7, <2>8, <2>9, <2>10, Whole
<1>10. CASE slot[c] # Null
  <2> DEFINE w == slot[c]
  <2>1. w \in Obj
    BY <1>0, <1>3, <1>10, Types
  <2>2. DecProp(w, rest)
    BY <1>10, <1>4 DEF SetProperty, f
  <2>3. UNCHANGED <<kind, impl, slot, local, ref, pending, detached, mode, gcVars, sweepVars>>
    BY <1>2 DEF heapVars
  <2> SUFFICES ASSUME NEW u \in Obj, slot[c] = u, DecProp(u, rest) PROVE IInv'
    BY <2>1, <2>2
  <2> HIDE DEF rest, c, w
  <2>4. \A o : ~Does(stack, "dealloc", o) /\ ~Does(rest, "dealloc", o)
    BY <1>6, <1>8
  <2>5. \A o \in Obj : \A op \in {"free", "unlink", "detach"} : Does(rest, op, o) <=> Does(stack, op, o)
    BY <1>6, <1>8
  <2>6. slot' \in [Cell -> Obj \cup {Null}] /\ \A d \in Cell : slot'[d] \in {slot[d], Null}
    BY <1>0, <2>3, Types
  <2>7. \A o \in Obj : {d \in Cell : slot'[d] = o /\ d \notin StaleOf(rest)} = HoldingCells(o) \ {c}
    BY <1>7, <1>8, <2>3 DEF HoldingCells
  <2>8. /\ TypeOK' /\ Counted' /\ Shape(stack') /\ KindInv' /\ EndInv' /\ DyingInv'
        /\ \A op, o : op # "dealloc" => (Does(stack', op, o) <=> Does(rest, op, o))
        /\ \A g \in ToSet(stack') : g.op # "dealloc" => g \in ToSet(rest)
    BY <1>3, <1>5, <1>8, <2>3, <2>4, <2>5, <2>6, <2>7, ReleaseSlot
  <2>9. StoreInv'
    <3>1. \A g \in ToSet(stack') : g.op = "store" => g = f
      BY <1>5, <2>8
    <3> QED BY <1>1, <1>4, <2>3, <3>1 DEF StoreInv, Owns, HasSlots
  <2>10. ModeInv' /\ MarkInv' /\ CutInv' /\ CollectExact' /\ SweepInv' /\ ExitEmpties'
    BY <1>1, <1>6, <2>3, <2>8, RunRest
  <2> QED BY <2>8, <2>9, <2>10, Whole
<1> QED BY <1>9, <1>10

-----------------------------------------------------------------------------
(* The collector.                                                          *)

\* A step that only moves the collector or the sweep on.
LEMMA QuietStep ==
  ASSUME IInv, stack = <<>>, UNCHANGED <<heapVars, ref, prop, pending, listed, detached, stack, pinned>>
  PROVE  /\ Counted' /\ Shape(stack') /\ KindInv' /\ EndInv' /\ DyingInv' /\ StoreInv'
         /\ \A x : Slots(x)' = Slots(x) /\ Edges(x)' = Edges(x)
         /\ \A w, x : Wraps(w, x)' <=> Wraps(w, x)
         /\ stack' \in Seq(FrameType) /\ \A op, o : ~Does(stack', op, o)
<1>0. TypeOK /\ Counted /\ KindInv /\ EndInv /\ DyingInv
  BY Parts
<1>1. \A x : Slots(x)' = Slots(x)
  BY DEF Slots, heapVars
<1>2. \A w, x : Wraps(w, x)' <=> Wraps(w, x)
  BY DEF Wraps, heapVars
<1>3. \A x : Edges(x)' = Edges(x)
  BY <1>1, <1>2 DEF Edges, heapVars
<1>4. stack' \in Seq(FrameType) /\ Shape(stack') /\ EndInv' /\ StoreInv' /\ Stale' = Stale
  <2>1. \A o \in detached : Slots(o)' = {}
    BY <1>0, <1>1 DEF EndInv
  <2> QED BY <2>1, IdleAfter
<1>5. \A op, o : ~Does(stack', op, o)
  BY EmptyCalls
<1>6. Counted'
  <2>1. \A x : HoldingCells(x)' = HoldingCells(x)
    BY <1>4 DEF HoldingCells, heapVars
  <2>2. \A x : Wrappers(x)' = Wrappers(x)
    BY <1>2 DEF Wrappers
  <2> QED BY <1>0, <2>1, <2>2 DEF Counted, heapVars
<1>7. KindInv'
  BY <1>0, <1>1, <1>2 DEF KindInv, HasSlots, heapVars
<1>8. DyingInv'
  BY <1>0, <1>5, EmptyCalls DEF DyingInv, heapVars
<1> QED BY <1>1, <1>2, <1>3, <1>4, <1>5, <1>6, <1>7, <1>8

\* The edges of an object lead to objects.
LEMMA EdgesIn == ASSUME TypeOK, NEW o \in Obj PROVE Edges(o) \subseteq Obj
BY SlotCell DEF Edges, Holder

\* Reach is the least set that holds its roots and is closed.
LEMMA ReachFacts ==
  ASSUME NEW R \in SUBSET Obj
  PROVE  /\ Reach(R) \in SUBSET Obj /\ R \subseteq Reach(R)
         /\ TypeOK => \A x \in Reach(R) : Edges(x) \subseteq Reach(R)
         /\ \A S \in SUBSET Obj : R \subseteq S /\ (\A x \in S : Edges(x) \subseteq S) => Reach(R) \subseteq S
<1>1. Reach(R) \in SUBSET Obj /\ R \subseteq Reach(R)
  BY DEF Reach
<1>2. \A S \in SUBSET Obj : R \subseteq S /\ (\A x \in S : Edges(x) \subseteq S) => Reach(R) \subseteq S
  BY DEF Reach
<1>3. ASSUME TypeOK, NEW x \in Reach(R), NEW y \in Edges(x) PROVE y \in Reach(R)
  <2>1. y \in Obj
    BY <1>1, <1>3, EdgesIn
  <2> SUFFICES ASSUME NEW S \in SUBSET Obj, R \subseteq S, \A z \in S : Edges(z) \subseteq S PROVE y \in S
    BY <2>1 DEF Reach
  <2>2. x \in S
    BY <1>2
  <2> QED BY <1>3, <2>2
<1> QED BY <1>1, <1>2, <1>3

\* More roots reach more.
LEMMA ReachMore ==
  ASSUME TypeOK, NEW R \in SUBSET Obj, NEW Q \in SUBSET Obj, R \subseteq Q
  PROVE  Reach(R) \subseteq Reach(Q)
<1>1. Reach(Q) \in SUBSET Obj /\ R \subseteq Reach(Q) /\ \A x \in Reach(Q) : Edges(x) \subseteq Reach(Q)
  BY ReachFacts
<1> HIDE DEF Reach
<1> QED BY <1>1, ReachFacts

\* The roots are objects.
LEMMA ProgramRootsIn == ASSUME TypeOK PROVE ProgramRoots \in SUBSET Obj
BY SlotCell DEF ProgramRoots, Holder

\* What the graph does not know, the program has a handle on, or on a wrapper of it.
LEMMA OutsideHeld ==
  ASSUME IInv, mode \in {"run", "mark"}, stack = <<>>, NEW o \in Obj, kind[o] # "free", o \notin Nodes
  PROVE  o \in Reach(ProgramRoots)
<1>0. TypeOK /\ Counted /\ KindInv /\ ModeInv
  BY Parts
<1>1. pending = {} /\ pinned = {} /\ \A x \in Obj : kind[x] # "free" => ref[x] > 0 \/ prop[x] > 0
  BY <1>0, Idle DEF ModeInv
<1>2. \A x \in Obj : x \notin listed => ~(prop[x] > 0)
  BY <1>0, <1>1 DEF Counted
<1>3. \A x \in Obj : x \notin listed /\ kind[x] # "free" => local[x] > 0 \/ \E w \in Obj : Wraps(w, x)
  <2> TAKE x \in Obj
  <2> HAVE x \notin listed /\ kind[x] # "free"
  <2>1. ref[x] # 0
    BY <1>0, <1>1, <1>2, Numbers
  <2>2. local[x] # 0 \/ \E w \in Obj : Wraps(w, x)
    BY <1>0, <1>1, <2>1, OwnedFacts
  <2> QED BY <1>0, <2>2, Numbers
<1>4. ProgramRoots \subseteq Reach(ProgramRoots) /\ \A x \in Reach(ProgramRoots) : Edges(x) \subseteq Reach(ProgramRoots)
  BY <1>0, ProgramRootsIn, ReachFacts
<1>5. \A x \in Obj : local[x] > 0 => x \in ProgramRoots
  BY DEF ProgramRoots
<1>6. CASE local[o] > 0
  BY <1>4, <1>5, <1>6
<1>7. CASE \E w \in Obj : Wraps(w, o)
  <2>1. PICK w \in Obj : Wraps(w, o)
    BY <1>7
  <2>2. w \notin listed /\ kind[w] = "iface" /\ \A u \in Obj : ~Wraps(u, w)
    BY <1>0, <2>1 DEF Nodes, Wraps, KindInv, HasSlots
  <2>3. local[w] > 0
    BY <1>3, <2>2
  <2>4. o \in Edges(w)
    BY <2>1 DEF Edges
  <2> QED BY <1>4, <1>5, <2>3, <2>4
<1> QED BY <1>3, <1>6, <1>7 DEF Nodes

\* An object whose counts the graph explains has no owner outside it.
LEMMA OwnersInside ==
  ASSUME TypeOK, Counted, Stale = {}, pinned = {}, NEW N \in SUBSET Obj, NEW o \in Obj,
         ref[o] + prop[o] = Internal(N, o)
  PROVE  /\ local[o] = 0
         /\ \A c \in Cell : slot[c] = o => c[1] \in N
         /\ \A w \in Obj : Wraps(w, o) => w \in N
<1> DEFINE A == {c \in N \X Slot : slot[c] = o}
           B == {w \in N : Wraps(w, o)}
           H == HoldingCells(o)
           W == Wrappers(o)
<1>1. A \subseteq H /\ B \subseteq W
  BY DEF HoldingCells, Wrappers, Cell
<1>2. IsFiniteSet(H) /\ IsFiniteSet(W)
  BY OwnersFinite
<1>3. prop[o] = Cardinality(H) /\ ref[o] = local[o] + Cardinality(W) + 0 /\ local[o] \in Nat
  BY Numbers DEF Counted
<1>4. ref[o] + prop[o] = Cardinality(A) + Cardinality(B)
  BY DEF Internal
<1>5. \A c \in H : c = <<c[1], c[2]>> /\ slot[c] = o
  BY DEF HoldingCells, Cell
<1>6. \A c \in Cell : slot[c] = o => c \in H
  BY DEF HoldingCells
<1>7. \A w \in Obj : Wraps(w, o) => w \in W
  BY DEF Wrappers
<1> HIDE DEF A, B, H, W
<1>8. /\ Cardinality(A) <= Cardinality(H) /\ (Cardinality(A) = Cardinality(H) => A = H)
      /\ Cardinality(B) <= Cardinality(W) /\ (Cardinality(B) = Cardinality(W) => B = W)
      /\ IsFiniteSet(A) /\ IsFiniteSet(B)
  BY <1>1, <1>2, FS_Subset
<1>9. Cardinality(A) \in Nat /\ Cardinality(B) \in Nat /\ Cardinality(H) \in Nat /\ Cardinality(W) \in Nat
  BY <1>2, <1>8, FS_CardinalityType
<1>10. local[o] = 0 /\ Cardinality(A) = Cardinality(H) /\ Cardinality(B) = Cardinality(W)
  BY <1>3, <1>4, <1>8, <1>9
<1>11. A = H /\ B = W
  BY <1>8, <1>10
<1>12. \A c \in A : c[1] \in N
  BY DEF A
<1>13. B \subseteq N
  BY DEF B
<1> QED BY <1>6, <1>7, <1>10, <1>11, <1>12, <1>13

\* One lemma per step of a collection.
LEMMA CollectStep == IInv /\ Collect => IInv'
<1> SUFFICES ASSUME IInv, Collect PROVE IInv'
  OBVIOUS
<1>0. TypeOK /\ Counted /\ KindInv /\ ModeInv
  BY Parts
<1>1. /\ mode = "run" /\ stack = <<>> /\ mode' = "mark"
      /\ nodes' = Nodes /\ live' = Roots(Nodes) /\ queue' = Roots(Nodes)
      /\ before' = [used |-> Reach(ProgramRoots),
                    kept |-> Reach(ProgramRoots \cup {o \in Obj : kind[o] = "native"})]
  BY DEF Collect, In
<1>2. UNCHANGED <<heapVars, ref, prop, pending, listed, detached, stack, pinned, sweepVars>>
  BY DEF Collect
<1>3. /\ Counted' /\ Shape(stack') /\ KindInv' /\ EndInv' /\ DyingInv' /\ StoreInv'
      /\ \A op, o : ~Does(stack', op, o)
  BY <1>1, <1>2, QuietStep
<1> DEFINE R == ProgramRoots
           Q == R \cup {o \in Obj : kind[o] = "native"}
<1>4. R \in SUBSET Obj /\ Q \in SUBSET Obj
  BY <1>0, ProgramRootsIn
<1>5. Reach(R) \in SUBSET Obj /\ Reach(Q) \in SUBSET Obj /\ Q \subseteq Reach(Q) /\ Reach(R) \subseteq Reach(Q)
      /\ \A x \in Reach(Q) : Edges(x) \subseteq Reach(Q)
  <2> HIDE DEF Q, R
  <2>1. R \subseteq Q
    BY DEF Q
  <2> QED BY <1>0, <1>4, <2>1, ReachFacts, ReachMore
<1>6. Nodes \in SUBSET Obj /\ Roots(Nodes) \subseteq Nodes
  BY <1>0, Types DEF Nodes, Roots
<1>7. pinned = {} /\ pending = {} /\ detached = {} /\ Stale = {}
  BY <1>0, <1>1, Idle DEF ModeInv
<1>8. TypeOK'
  <2>1. before' \in [used : SUBSET Obj, kept : SUBSET Obj]
    BY <1>1, <1>5
  <2>2. pinned' = {}
    BY <1>2, <1>7
  <2>3. nodes' \subseteq Obj /\ live' \subseteq nodes' /\ queue' \subseteq live' /\ pinned' \subseteq nodes'
    BY <1>1, <1>6, <2>2
  <2>4. mode' \in Mode
    BY <1>1 DEF Mode
  <2> QED BY <1>0, <1>2, <2>1, <2>3, <2>4 DEF TypeOK, heapVars, sweepVars
<1>9. ModeInv'
  <2>1. visited' = {} /\ old_count' = 0 /\ new_count' = 0
    BY <1>0, <1>1, <1>2 DEF ModeInv, sweepVars
  <2> QED BY <1>1, <1>2, <1>3, <1>7, <2>1 DEF ModeInv
<1>10. Roots(Nodes) \subseteq Reach(Q)
  <2> SUFFICES ASSUME NEW o \in Roots(Nodes), o \notin Reach(Q) PROVE FALSE
    OBVIOUS
  <2>1. o \in Obj /\ o \in Nodes /\ kind[o] # "native" /\ o \notin Reach(R)
    BY <1>5, <1>6
  <2>2. ref[o] + prop[o] # Internal(Nodes, o)
    BY <1>7, <2>1 DEF Roots
  <2>3. \A x \in Obj : o \in Edges(x) => x \notin Reach(R)
    BY <1>5
  <2>4. \A x \in Obj : kind[x] # "free" /\ o \in Edges(x) => x \in Nodes
    BY <1>1, <2>3, OutsideHeld
  <2>5. \A w \in Obj : Wraps(w, o) => w \in Nodes
    <3> TAKE w \in Obj
    <3> HAVE Wraps(w, o)
    <3>1. kind[w] # "free" /\ o \in Edges(w)
      BY <2>1 DEF Wraps, Edges
    <3> QED BY <2>4, <3>1
  <2>6. o \notin R
    BY <1>5, <2>1
  <2>7. local[o] = 0
    BY <1>0, <2>1, <2>6, Numbers DEF ProgramRoots
  <2>8. \A c \in Cell : slot[c] = o => c \in Nodes \X Slot
    <3> TAKE c \in Cell
    <3> HAVE slot[c] = o
    <3>1. c = <<c[1], c[2]>> /\ c[1] \in Holder /\ c[2] \in Index(c[1])
      BY ArcAssumption DEF Cell, Holder, Index
    <3>2. c[2] \in Slots(c[1]) /\ slot[<<c[1], c[2]>>] = o
      BY <2>1, <3>1, ArcAssumption DEF Slots
    <3>3. c[1] # Class
      BY <2>6, <3>2 DEF ProgramRoots
    <3>4. c[1] \in Obj /\ c[2] \in Slot
      BY <3>1, <3>3, ArcAssumption DEF Holder, Index
    <3>5. kind[c[1]] # "free"
      BY <1>0, <3>2, <3>4 DEF KindInv, HasSlots
    <3>6. o \in Edges(c[1])
      BY <3>2 DEF Edges
    <3> QED BY <2>4, <3>1, <3>4, <3>5, <3>6
  <2>9. HoldingCells(o) = {c \in Nodes \X Slot : slot[c] = o}
    <3>1. Nodes \X Slot \subseteq Cell
      BY <1>6 DEF Cell
    <3> QED BY <1>7, <2>8, <3>1 DEF HoldingCells
  <2>10. Wrappers(o) = {w \in Nodes : Wraps(w, o)}
    BY <1>6, <2>5 DEF Wrappers
  <2>11. ref[o] = 0 + Cardinality(Wrappers(o)) + 0 /\ prop[o] = Cardinality(HoldingCells(o))
    BY <1>0, <1>7, <2>1, <2>7 DEF Counted
  <2>12. Internal(Nodes, o) = Cardinality(HoldingCells(o)) + Cardinality(Wrappers(o))
    BY <2>9, <2>10 DEF Internal
  <2> QED BY <2>2, <2>11, <2>12, OwnersFinite
<1>11. MarkInv'
  <2>1. Nodes' = Nodes /\ \A N : Roots(N)' = Roots(N)
    <3>1. \A w, x : Wraps(w, x)' <=> Wraps(w, x)
      BY <1>1, <1>2, QuietStep
    <3>2. Nodes' = Nodes
      BY <1>2, <3>1 DEF Nodes
    <3>3. \A N, x : Internal(N, x)' = Internal(N, x)
      BY <1>2, <3>1 DEF Internal, heapVars
    <3> QED BY <1>2, <3>2, <3>3 DEF Roots, heapVars
  <2>2. ProgramRoots' = R /\ (ProgramRoots \cup {o \in Obj : kind[o] = "native"})' = Q
    BY <1>2 DEF ProgramRoots, Slots, heapVars
  <2>3. \A S : Reach(S)' = Reach(S)
    <3>1. \A x : Edges(x)' = Edges(x)
      BY <1>1, <1>2, QuietStep
    <3> QED BY <3>1 DEF Reach
  <2>4. Roots(Nodes)' = Roots(Nodes)
    BY <2>1
  <2>5. Reach(ProgramRoots)' = Reach(R)
        /\ Reach(ProgramRoots \cup {o \in Obj : kind[o] = "native"})' = Reach(Q)
    BY <2>2, <2>3
  <2> HIDE DEF R, Q
  <2>6. before'.used = Reach(ProgramRoots) /\ before'.kept = Reach(Q)
    BY <1>1 DEF Q, R
  <2> QED BY <1>1, <1>10, <2>1, <2>4, <2>5, <2>6 DEF MarkInv, R
<1>12. CutInv' /\ CollectExact' /\ SweepInv' /\ ExitEmpties'
  BY <1>1 DEF CutInv, CollectExact, SweepInv, ExitEmpties
<1> QED BY <1>3, <1>8, <1>9, <1>11, <1>12, Whole

LEMMA MarkStep == ASSUME NEW o \in Obj, IInv, Mark(o) PROVE IInv'
<1>0. TypeOK /\ ModeInv /\ MarkInv
  BY Parts
<1> DEFINE new == (Edges(o) \cap nodes) \ live
<1>1. /\ mode = "mark" /\ stack = <<>> /\ o \in queue
      /\ live' = live \cup new /\ queue' = (queue \ {o}) \cup new
  BY DEF Mark, In
<1>2. UNCHANGED <<heapVars, ref, prop, pending, listed, detached, stack, mode, nodes, pinned, before, sweepVars>>
  BY DEF Mark
<1>3. /\ Counted' /\ Shape(stack') /\ KindInv' /\ EndInv' /\ DyingInv' /\ StoreInv'
      /\ \A op, x : ~Does(stack', op, x)
      /\ \A x : Edges(x)' = Edges(x) /\ Slots(x)' = Slots(x)
      /\ \A w, x : Wraps(w, x)' <=> Wraps(w, x)
  BY <1>1, <1>2, QuietStep
<1>4. TypeOK'
  <2>1. live' \subseteq nodes' /\ queue' \subseteq live' /\ pinned' \subseteq nodes'
    BY <1>0, <1>1, <1>2 DEF TypeOK
  <2> QED BY <1>0, <1>2, <2>1 DEF TypeOK, heapVars, sweepVars
<1>5. ModeInv'
  BY <1>0, <1>1, <1>2, <1>3 DEF ModeInv, sweepVars, heapVars
<1>6. MarkInv'
  <2>1. Nodes' = Nodes
    BY <1>2, <1>3 DEF Nodes
  <2>2. \A N : Roots(N)' = Roots(N)
    <3>1. \A N, x : Internal(N, x)' = Internal(N, x)
      BY <1>2, <1>3 DEF Internal, heapVars
    <3> QED BY <1>2, <3>1 DEF Roots, heapVars
  <2>3. ProgramRoots' = ProgramRoots /\ {x \in Obj : kind[x] = "native"}' = {x \in Obj : kind[x] = "native"}
    BY <1>2, <1>3 DEF ProgramRoots, heapVars
  <2>4. \A S : Reach(S)' = Reach(S)
    BY <1>3 DEF Reach
  <2> DEFINE Q == ProgramRoots \cup {x \in Obj : kind[x] = "native"}
  <2>5. Q' = Q /\ Q \in SUBSET Obj
    BY <1>0, <2>3, ProgramRootsIn
  <2>6. before.used = Reach(ProgramRoots) /\ before.kept = Reach(Q) /\ live \subseteq before.kept
        /\ nodes = Nodes /\ Roots(Nodes) \subseteq live /\ \A x \in live \ queue : Edges(x) \cap nodes \subseteq live
    BY <1>0, <1>1 DEF MarkInv
  <2> HIDE DEF Q
  <2>7. \A x \in before.kept : Edges(x) \subseteq before.kept
    BY <1>0, <2>5, <2>6, ReachFacts
  <2>8. o \in live
    BY <1>0, <1>1 DEF TypeOK
  <2>9. live' \subseteq before.kept
    BY <1>1, <2>6, <2>7, <2>8
  <2>10. \A x \in live' \ queue' : Edges(x) \cap nodes \subseteq live'
    BY <1>1, <2>6
  <2>11. \A x \in live' \ queue' : Edges(x)' \cap nodes' \subseteq live'
    BY <1>2, <1>3, <2>10
  <2>12. nodes' = Nodes' /\ Roots(Nodes)' \subseteq live'
    BY <1>1, <1>2, <2>1, <2>2, <2>6
  <2>13. before'.used = Reach(ProgramRoots)' /\ before'.kept = Reach(Q)' /\ live' \subseteq before'.kept
    BY <1>2, <2>3, <2>4, <2>5, <2>6, <2>9
  <2> USE DEF Q
  <2> QED BY <2>11, <2>12, <2>13 DEF MarkInv
<1>7. CutInv' /\ CollectExact' /\ SweepInv' /\ ExitEmpties'
  BY <1>1, <1>2 DEF CutInv, CollectExact, SweepInv, ExitEmpties
<1> QED BY <1>3, <1>4, <1>5, <1>6, <1>7, Whole

\* When all is marked, what is left is owned by nothing but what is left.
LEMMA GarbageAlone ==
  ASSUME IInv, mode = "mark", stack = <<>>, queue = {}
  PROVE  /\ \A o \in Garbage : local[o] = 0
         /\ \A c \in Cell : slot[c] \in Garbage => c[1] \in Garbage
         /\ \A w \in Obj : \A o \in Garbage : Wraps(w, o) => w \in Garbage
<1>0. TypeOK /\ Counted /\ ModeInv /\ MarkInv /\ KindInv
  BY Parts
<1>1. nodes = Nodes /\ Roots(nodes) \subseteq live /\ \A x \in live : Edges(x) \cap nodes \subseteq live
  BY <1>0 DEF MarkInv
<1>2. pinned = {} /\ Stale = {} /\ nodes \in SUBSET Obj
  BY <1>0, Idle DEF ModeInv, TypeOK
<1>3. ASSUME NEW o \in Garbage
      PROVE  /\ o \in Obj /\ local[o] = 0
             /\ \A c \in Cell : slot[c] = o => c[1] \in nodes
             /\ \A w \in Obj : Wraps(w, o) => w \in nodes
  <2>1. o \in nodes /\ o \notin Roots(nodes) /\ o \in Obj
    BY <1>1, <1>2 DEF Garbage
  <2>2. ref[o] + prop[o] = Internal(nodes, o)
    BY <2>1 DEF Roots
  <2> QED BY <1>0, <1>2, <2>1, <2>2, OwnersInside
<1>4. ASSUME NEW o \in Garbage, NEW x \in nodes, o \in Edges(x) PROVE x \in Garbage
  BY <1>1, <1>4 DEF Garbage
<1>5. ASSUME NEW c \in Cell, slot[c] \in Garbage PROVE c[1] \in Garbage
  <2>1. slot[c] \in Obj /\ c[1] \in nodes
    BY <1>3, <1>5
  <2>2. c = <<c[1], c[2]>> /\ c[2] \in Slots(c[1])
    BY <2>1, ArcAssumption DEF Slots, Index, Cell
  <2>3. slot[c] \in Edges(c[1])
    BY <2>2 DEF Edges
  <2> QED BY <1>4, <1>5, <2>1, <2>3
<1>6. ASSUME NEW w \in Obj, NEW o \in Garbage, Wraps(w, o) PROVE w \in Garbage
  <2>1. w \in nodes /\ o \in Edges(w)
    BY <1>3, <1>6 DEF Edges
  <2> QED BY <1>4, <2>1
<1> QED BY <1>3, <1>5, <1>6

\* The program's objects are held by the program, its statics or each other.
LEMMA UsedAlone ==
  ASSUME IInv, mode = "mark", stack = <<>>, queue = {}
  PROVE  /\ before.used \cap Garbage = {}
         /\ \A o \in before.used :
              /\ kind[o] # "free"
              /\ local[o] > 0 \/ \E p \in before.used \cup {Class} :
                   (\E i \in Index(p) : slot[<<p, i>>] = o) \/ Wraps(p, o)
<1>0. TypeOK /\ Counted /\ MarkInv
  BY Parts
<1> DEFINE U == before.used
           held(o) == \E p \in U \cup {Class} : (\E i \in Index(p) : slot[<<p, i>>] = o) \/ Wraps(p, o)
<1>1. U = Reach(ProgramRoots) /\ ProgramRoots \in SUBSET Obj
  BY <1>0, ProgramRootsIn DEF MarkInv
<1>2. U \in SUBSET Obj /\ ProgramRoots \subseteq U /\ (\A x \in U : Edges(x) \subseteq U)
      /\ \A S \in SUBSET Obj : ProgramRoots \subseteq S /\ (\A x \in S : Edges(x) \subseteq S) => U \subseteq S
  BY <1>0, <1>1, ReachFacts
<1> HIDE DEF U
<1>3. /\ \A o \in Garbage : local[o] = 0
      /\ \A c \in Cell : slot[c] \in Garbage => c[1] \in Garbage
      /\ \A w \in Obj : \A o \in Garbage : Wraps(w, o) => w \in Garbage
  BY GarbageAlone
<1>4. Class \notin Garbage /\ Garbage \subseteq Obj
  BY <1>0, ArcAssumption DEF Garbage, TypeOK
<1>5. \A x \in Holder : \A y \in Edges(x) : y \in Garbage => x \in Garbage
  <2> SUFFICES ASSUME NEW x \in Holder, NEW y \in Edges(x), y \in Garbage PROVE x \in Garbage
    OBVIOUS
  <2>1. CASE \E i \in Slots(x) : y = slot[<<x, i>>]
    <3>1. PICK i \in Slots(x) : y = slot[<<x, i>>]
      BY <2>1
    <3>2. <<x, i>> \in Cell
      BY <1>0, SlotCell
    <3> QED BY <1>3, <3>1, <3>2
  <2>2. CASE Wraps(x, y)
    BY <1>3, <2>2 DEF Wraps
  <2> QED BY <2>1, <2>2 DEF Edges
<1>6. \A o \in ProgramRoots : local[o] > 0 \/ o \in Edges(Class)
  BY DEF ProgramRoots, Edges
<1>7. U \cap Garbage = {}
  <2> DEFINE S == U \ Garbage
  <2>1. S \in SUBSET Obj
    BY <1>2
  <2>2. ProgramRoots \subseteq S
    <3>1. \A o \in ProgramRoots : o \notin Garbage
      BY <1>3, <1>4, <1>5, <1>6 DEF Holder
    <3> QED BY <1>2, <3>1
  <2>3. \A x \in S : Edges(x) \subseteq S
    BY <1>2, <1>5 DEF Holder
  <2> QED BY <1>2, <2>1, <2>2, <2>3
<1>8. \A o \in U : local[o] > 0 \/ held(o)
  <2> DEFINE S == {o \in U : local[o] > 0 \/ held(o)}
  <2>1. S \in SUBSET Obj
    BY <1>2
  <2>2. \A p \in U \cup {Class} : \A y \in Edges(p) : held(y)
    BY DEF Edges, Slots
  <2> HIDE DEF held
  <2>3. ProgramRoots \subseteq S
    BY <1>2, <1>6, <2>2
  <2>4. \A x \in S : Edges(x) \subseteq S
    BY <1>2, <2>2
  <2> QED BY <1>2, <2>1, <2>3, <2>4
<1>9. \A o \in U : kind[o] # "free"
  <2> SUFFICES ASSUME NEW o \in U PROVE ref[o] > 0 \/ prop[o] > 0
    BY <1>0, <1>2 DEF Counted
  <2>0. Stale = {} /\ o \in Obj
    BY <1>2, Idle
  <2>1. CASE local[o] > 0
    BY <1>0, <2>0, <2>1, OwnedFacts
  <2>2. CASE held(o)
    <3>1. PICK p \in U \cup {Class} : (\E i \in Index(p) : slot[<<p, i>>] = o) \/ Wraps(p, o)
      BY <2>2
    <3>2. CASE Wraps(p, o)
      BY <1>0, <2>0, <3>2, OwnedFacts DEF Wraps
    <3>3. CASE \E i \in Index(p) : slot[<<p, i>>] = o
      <4>1. PICK i \in Index(p) : slot[<<p, i>>] = o
        BY <3>3
      <4>2. <<p, i>> \in Cell
        BY <1>2, <3>1, ArcAssumption DEF Cell, Index
      <4> QED BY <1>0, <2>0, <4>1, <4>2, OwnedFacts
    <3> QED BY <3>1, <3>2, <3>3
  <2> QED BY <1>8, <2>1, <2>2
<1> QED BY <1>7, <1>8, <1>9 DEF U

LEMMA PinStep == IInv /\ Pin => IInv'
<1> SUFFICES ASSUME IInv, Pin PROVE IInv'
  OBVIOUS
<1>0. TypeOK /\ Counted /\ KindInv /\ DyingInv /\ ModeInv /\ MarkInv
  BY Parts
<1>1. /\ mode = "mark" /\ stack = <<>> /\ queue = {} /\ mode' = "clear" /\ pinned' = Garbage
      /\ ref' = [o \in Obj |-> IF o \in Garbage THEN ref[o] + 1 ELSE ref[o]]
  BY DEF Pin, In
<1>2. UNCHANGED <<heapVars, prop, pending, listed, detached, stack, nodes, live, queue, before, sweepVars>>
  BY DEF Pin
<1>3. pending = {} /\ detached = {} /\ Stale = {} /\ pinned = {}
      /\ \A o \in Obj : kind[o] # "free" => ref[o] > 0 \/ prop[o] > 0
  BY <1>0, <1>1, Idle DEF ModeInv
<1>4. /\ \A o \in Garbage : local[o] = 0
      /\ \A c \in Cell : slot[c] \in Garbage => c[1] \in Garbage
      /\ \A w \in Obj : \A o \in Garbage : Wraps(w, o) => w \in Garbage
      /\ before.used \cap Garbage = {}
      /\ \A o \in before.used :
           /\ kind[o] # "free"
           /\ local[o] > 0 \/ \E p \in before.used \cup {Class} :
                (\E i \in Index(p) : slot[<<p, i>>] = o) \/ Wraps(p, o)
  BY <1>1, GarbageAlone, UsedAlone
<1>5. Garbage' = Garbage /\ Garbage \subseteq Obj /\ Garbage \subseteq nodes
  BY <1>0, <1>2 DEF Garbage, TypeOK
<1>6. /\ \A x : Slots(x)' = Slots(x)
      /\ \A w, x : Wraps(w, x)' <=> Wraps(w, x)
  BY <1>2 DEF Slots, Wraps, heapVars
<1>7. Shape(stack') /\ EndInv' /\ StoreInv' /\ Stale' = Stale /\ stack' = <<>>
  <2>1. stack' = <<>> /\ UNCHANGED <<pending, detached, listed>> /\ \A o \in detached : Slots(o)' = {}
    BY <1>1, <1>2, <1>3
  <2> QED BY <1>1, <2>1, IdleAfter
<1>8. KindInv'
  BY <1>0, <1>2, <1>6 DEF KindInv, HasSlots, heapVars
<1>9. ref' \in [Obj -> Nat] /\ \A o \in Obj : ref'[o] >= ref[o]
  BY <1>0, <1>1, Numbers
<1>10. TypeOK'
  <2>1. mode' \in Mode /\ pinned' \subseteq nodes'
    BY <1>1, <1>2, <1>5 DEF Mode
  <2> QED BY <1>0, <1>2, <1>9, <2>1 DEF TypeOK, heapVars, sweepVars
<1>11. Counted'
  <2>1. \A x \in Obj : ref'[x] = local'[x] + Cardinality(Wrappers(x))' + (IF x \in pinned' THEN 1 ELSE 0)
    <3> TAKE x \in Obj
    <3>1. Cardinality(Wrappers(x))' = Cardinality(Wrappers(x)) /\ Cardinality(Wrappers(x)) \in Nat
      BY <1>6, OwnersFinite DEF Wrappers
    <3>2. ref[x] = local[x] + Cardinality(Wrappers(x)) + 0 /\ local[x] \in Nat
      BY <1>0, <1>3, Numbers DEF Counted
    <3>3. local'[x] = local[x]
      BY <1>2 DEF heapVars
    <3> DEFINE n == Cardinality(Wrappers(x))
    <3> HIDE DEF n
    <3>4. ref'[x] = local[x] + n + (IF x \in pinned' THEN 1 ELSE 0)
      <4>1. ref[x] = local[x] + n /\ n \in Nat
        BY <3>1, <3>2 DEF n
      <4> QED BY <1>1, <3>2, <4>1
    <3> QED BY <3>1, <3>3, <3>4 DEF n
  <2>2. \A x \in Obj : kind'[x] = "free" => kind[x] = "free" /\ ref'[x] = ref[x]
    <3>1. \A x \in Garbage : kind[x] # "free"
      <4> SUFFICES ASSUME NEW x \in Garbage, kind[x] = "free" PROVE FALSE
        OBVIOUS
      <4>1. x \in Nodes /\ x \in Obj
        BY <1>0, <1>1, <1>5 DEF MarkInv, Garbage
      <4>2. x \notin listed /\ \A w \in Obj : ~Wraps(w, x)
        BY <4>1, FreeFacts
      <4> QED BY <1>0, <4>1, <4>2, Types DEF Nodes
    <3> QED BY <1>1, <1>2, <3>1 DEF heapVars
  <2> QED BY <1>2, <1>7, <2>1, <2>2, CountedRef DEF heapVars
<1>12. DyingInv'
  <2>1. \A op, o : ~Does(stack', op, o)
    BY <1>7, EmptyCalls
  <2>2. \A o \in Obj : kind'[o] # "free" => ref'[o] > 0 \/ prop'[o] > 0
    BY <1>0, <1>2, <1>3, <1>9, Numbers DEF heapVars
  <2> QED BY <1>2, <1>3, <2>1, <2>2 DEF DyingInv
<1>13. ModeInv'
  <2>1. \A op, o : ~Does(stack', op, o)
    BY <1>7, EmptyCalls
  <2> QED BY <1>0, <1>1, <1>2, <1>3, <2>1 DEF ModeInv, sweepVars
<1>14. CutInv'
  <2>1. \A o \in Obj : kind[o] # "free" => o \in before.kept \cup Garbage
    <3> SUFFICES ASSUME NEW o \in Obj, kind[o] # "free", o \notin before.kept PROVE o \in Garbage
      OBVIOUS
    <3>1. before.kept = Reach(ProgramRoots \cup {x \in Obj : kind[x] = "native"}) /\ nodes = Nodes
          /\ live \subseteq before.kept
      BY <1>0, <1>1 DEF MarkInv
    <3>2. Reach(ProgramRoots) \subseteq before.kept
      <4> DEFINE Q == ProgramRoots \cup {x \in Obj : kind[x] = "native"}
      <4>1. ProgramRoots \in SUBSET Obj /\ Q \in SUBSET Obj /\ ProgramRoots \subseteq Q
        BY <1>0, ProgramRootsIn
      <4>2. before.kept = Reach(Q)
        BY <3>1
      <4> HIDE DEF Q
      <4> QED BY <1>0, <4>1, <4>2, ReachMore
    <3>3. o \in Nodes
      BY <1>1, <3>2, OutsideHeld
    <3> QED BY <3>1, <3>3 DEF Garbage
  <2>2. \A o \in before.used : o \notin pending'
    BY <1>2, <1>3
  <2> QED BY <1>1, <1>2, <1>4, <1>5, <1>6, <2>1, <2>2 DEF CutInv, heapVars
<1>15. MarkInv' /\ CollectExact' /\ SweepInv' /\ ExitEmpties'
  BY <1>1 DEF MarkInv, CollectExact, SweepInv, ExitEmpties
<1> QED BY <1>7, <1>8, <1>10, <1>11, <1>12, <1>13, <1>14, <1>15, Whole

\* The cut keeps the parts about marking and the exit.
LEMMA CutRest ==
  ASSUME IInv, mode \in {"clear", "unpin"}, mode' \in {"clear", "unpin"}, UNCHANGED <<detached, queue, sweepVars>>,
         \A op \in {"store", "clear", "unlink"} : \A o : ~Does(stack', op, o)
  PROVE  ModeInv' /\ MarkInv' /\ CollectExact' /\ SweepInv' /\ ExitEmpties'
<1>1. ModeInv
  BY Parts
<1>2. ModeInv'
  BY <1>1 DEF ModeInv, sweepVars
<1> QED BY <1>2 DEF MarkInv, CollectExact, SweepInv, ExitEmpties

LEMMA ClearEdgeStep == ASSUME NEW o \in Obj, NEW i \in Slot, IInv, ClearEdge(o, i) PROVE IInv'
<1>0. TypeOK /\ CutInv
  BY Parts
<1> DEFINE c == <<o, i>>
<1>1. mode = "clear" /\ stack = <<>> /\ o \in pinned /\ slot[c] # Null
      /\ slot' = [slot EXCEPT ![c] = Null] /\ DecProp(slot[c], <<>>)
  BY DEF ClearEdge, In
<1>2. UNCHANGED <<kind, impl, local, ref, pending, detached, mode, gcVars, sweepVars>>
  BY DEF ClearEdge
<1>3. c \in Cell /\ c[1] = o
  BY DEF Cell
<1>4. slot[c] \in Obj /\ Stale = {} /\ \A op, x : ~Does(stack, op, x)
  BY <1>0, <1>1, <1>3, Types, Idle
<1> SUFFICES ASSUME NEW v \in Obj, slot[c] = v, DecProp(v, <<>>) PROVE IInv'
  BY <1>1, <1>4
<1> HIDE DEF c
<1>5. /\ slot' \in [Cell -> Obj \cup {Null}] /\ \A d \in Cell : slot'[d] \in {slot[d], Null}
      /\ \A d \in Cell : slot'[d] = slot[d] \/ (slot'[d] = Null /\ d = c)
      /\ slot'[c] = Null
  BY <1>0, <1>1, <1>3, Types
<1>6. \A x \in Obj : {d \in Cell : slot'[d] = x /\ d \notin StaleOf(<<>>)} = HoldingCells(x) \ {c}
  BY <1>4, <1>5, EmptyCalls, ArcAssumption DEF HoldingCells
<1>7. /\ TypeOK' /\ Counted' /\ Shape(stack') /\ KindInv' /\ EndInv' /\ DyingInv'
      /\ \A op, x : op # "dealloc" => ~Does(stack', op, x)
      /\ \A g \in ToSet(stack') : g.op = "dealloc"
  BY <1>2, <1>3, <1>4, <1>5, <1>6, EmptyCalls, ReleaseSlot
<1>8. StoreInv'
  BY <1>7 DEF StoreInv
<1>9. ModeInv' /\ MarkInv' /\ CollectExact' /\ SweepInv' /\ ExitEmpties'
  BY <1>1, <1>2, <1>7, CutRest DEF gcVars
<1>10. CutInv'
  <2>1. o \notin before.used \cup {Class}
    BY <1>0, <1>1, ArcAssumption DEF CutInv
  <2>2. \A w, x \in Obj : Wraps(w, x)' <=> Wraps(w, x)
    BY <1>2 DEF Wraps
  <2> QED BY <1>1, <1>2, <1>3, <1>5, <2>1, <2>2, CutKept, UsedHeld DEF gcVars
<1> QED BY <1>7, <1>8, <1>9, <1>10, Whole

LEMMA AllClearedStep == IInv /\ AllCleared => IInv'
<1> SUFFICES ASSUME IInv, AllCleared PROVE IInv'
  OBVIOUS
<1>0. TypeOK /\ CutInv
  BY Parts
<1>1. mode = "clear" /\ mode' = "unpin" /\ stack = <<>> /\ \A o \in pinned : Slots(o) = {}
  BY DEF AllCleared, In
<1>2. UNCHANGED <<heapVars, ref, prop, pending, listed, detached, stack, gcVars, sweepVars>>
  BY DEF AllCleared
<1>3. /\ Counted' /\ Shape(stack') /\ KindInv' /\ EndInv' /\ DyingInv' /\ StoreInv'
      /\ \A op, x : ~Does(stack', op, x)
      /\ \A x : Edges(x)' = Edges(x) /\ Slots(x)' = Slots(x)
      /\ \A w, x : Wraps(w, x)' <=> Wraps(w, x)
  BY <1>1, <1>2, QuietStep DEF gcVars
<1>4. TypeOK'
  BY <1>0, <1>1, <1>2 DEF TypeOK, Mode, heapVars, gcVars, sweepVars
<1>5. CutInv'
  <2>1. Garbage' = Garbage /\ pinned = Garbage
    BY <1>0, <1>1, <1>2 DEF Garbage, gcVars, CutInv
  <2> QED BY <1>0, <1>1, <1>2, <1>3, <2>1 DEF CutInv, heapVars, gcVars
<1>6. ModeInv' /\ MarkInv' /\ CollectExact' /\ SweepInv' /\ ExitEmpties'
  BY <1>1, <1>2, <1>3, CutRest DEF gcVars
<1> QED BY <1>3, <1>4, <1>5, <1>6, Whole

LEMMA UnpinStep == ASSUME NEW o \in Obj, IInv, Unpin(o) PROVE IInv'
<1>0. TypeOK /\ Counted /\ KindInv
  BY Parts
<1>1. mode = "unpin" /\ stack = <<>> /\ o \in pinned /\ pinned' = pinned \ {o} /\ DecRef(o, <<>>)
  BY DEF Unpin, In
<1>2. UNCHANGED <<heapVars, prop, pending, listed, detached, mode, nodes, live, queue, before, sweepVars>>
  BY DEF Unpin
<1>3. pending = {} /\ detached = {} /\ Stale = {}
  BY <1>1, Idle
<1>4. ref[o] > 0 /\ kind[o] # "free"
  <2>1. ref[o] > 0
    BY <1>0, <1>1, OwnedFacts
  <2> QED BY <1>0, <2>1 DEF Counted
<1>5. /\ \E dead : Atop(stack', <<>>, dead)
      /\ DyingInv'
      /\ ref' \in [Obj -> Nat] /\ ref' = [ref EXCEPT ![o] = ref[o] - 1]
  <2>1. \A x \in Obj : x \in pending \/ Does(stack, "dealloc", x) => x \in pending'
    BY <1>1, <1>2, EmptyCalls
  <2>2. \A x \in pending' : x \in pending \/ (x \in Obj /\ kind[x] # "free" /\ ref[x] = 0)
    BY <1>2
  <2>3. UNCHANGED <<kind, prop>>
    BY <1>2 DEF heapVars
  <2> QED BY <1>1, <1>4, <2>1, <2>2, <2>3, EmptyCalls, ReleaseRef
<1>6. /\ stack' \in Seq(FrameType) /\ Shape(stack') /\ StaleOf(stack') = {}
      /\ \A op, x : op # "dealloc" => ~Does(stack', op, x)
      /\ \A f \in ToSet(stack') : f.op = "dealloc"
  BY <1>5, EmptyCalls DEF Atop
<1>7. Stale' = Stale
  BY <1>3, <1>6 DEF Stale, StaleOf
<1>8. \A x : Slots(x)' = Slots(x)
  BY <1>2 DEF Slots, heapVars
<1>9. \A w, x : Wraps(w, x)' <=> Wraps(w, x)
  BY <1>2 DEF Wraps, heapVars
<1>10. KindInv'
  BY <1>0, <1>2, <1>8, <1>9 DEF KindInv, HasSlots, heapVars
<1>11. TypeOK'
  <2>1. pinned' \subseteq nodes'
    BY <1>0, <1>1, <1>2 DEF TypeOK
  <2> QED BY <1>0, <1>2, <1>5, <1>6, <2>1 DEF TypeOK, heapVars, sweepVars
<1>12. Counted'
  <2>1. \A x \in Obj : Wrappers(x)' = Wrappers(x) /\ local'[x] = local[x]
    BY <1>2, <1>9 DEF Wrappers, heapVars
  <2>2. ref'[o] = ref[o] - 1 /\ \A x \in Obj : x # o => ref'[x] = ref[x]
    BY <1>0, <1>5, Types
  <2>3. \A x \in Obj : ref[x] = local[x] + Cardinality(Wrappers(x)) + (IF x \in pinned THEN 1 ELSE 0)
    BY <1>0 DEF Counted
  <2>4. ref'[o] = local'[o] + Cardinality(Wrappers(o))' + (IF o \in pinned' THEN 1 ELSE 0)
    <3> DEFINE n == Cardinality(Wrappers(o))
    <3>1. n \in Nat /\ local[o] \in Nat /\ ref[o] = local[o] + n + 1
      BY <1>0, <1>1, <2>3, OwnersFinite, Numbers
    <3>2. Cardinality(Wrappers(o))' = n /\ (IF o \in pinned' THEN 1 ELSE 0) = 0
      BY <1>1, <2>1
    <3> HIDE DEF n
    <3> QED BY <2>1, <2>2, <3>1, <3>2
  <2>5. \A x \in Obj : x # o => ref'[x] = local'[x] + Cardinality(Wrappers(x))' + (IF x \in pinned' THEN 1 ELSE 0)
    BY <1>1, <2>1, <2>2, <2>3
  <2>6. \A x \in Obj : kind'[x] = "free" => kind[x] = "free" /\ ref'[x] = ref[x]
    BY <1>2, <1>4, <2>2 DEF heapVars
  <2>7. \A x \in Obj : ref'[x] = local'[x] + Cardinality(Wrappers(x))' + (IF x \in pinned' THEN 1 ELSE 0)
    BY <2>4, <2>5
  <2> QED BY <1>2, <1>7, <2>6, <2>7, CountedRef DEF heapVars
<1>13. EndInv'
  <2>1. \A x : ~Ending(stack', x) /\ ~Does(stack', "detach", x) /\ ~Does(stack', "free", x)
    BY <1>6 DEF Ending
  <2> QED BY <1>2, <1>3, <2>1 DEF EndInv
<1>14. StoreInv'
  BY <1>6 DEF StoreInv
<1>15. ModeInv' /\ MarkInv' /\ CollectExact' /\ SweepInv' /\ ExitEmpties'
  BY <1>1, <1>2, <1>6, CutRest
<1>16. CutInv'
  <2>1. UNCHANGED <<mode, nodes, live, before, local, slot, kind, pending>>
    BY <1>2 DEF heapVars
  <2> QED BY <1>1, <1>9, <2>1, CutKept, UsedHeld
<1> QED BY <1>5, <1>6, <1>10, <1>11, <1>12, <1>13, <1>14, <1>15, <1>16, Whole

\* A pin less on each, and no slot: nothing is left that could own garbage.
LEMMA GarbageGone ==
  ASSUME IInv, mode = "unpin", stack = <<>>, pinned = {}, NEW o \in Garbage
  PROVE  o \in Obj /\ kind[o] = "free"
<1>0. TypeOK /\ Counted /\ KindInv /\ CutInv
  BY Parts
<1>1. pending = {} /\ Stale = {} /\ \A x \in Obj : kind[x] # "free" => ref[x] > 0 \/ prop[x] > 0
  BY Idle
<1>2. Garbage \subseteq Obj
  BY <1>0 DEF Garbage, TypeOK
<1>3. /\ \A x \in Garbage : local[x] = 0 /\ Slots(x) = {}
      /\ \A c \in Cell : slot[c] \in Garbage => c[1] \in Garbage
      /\ \A w \in Obj : \A x \in Garbage : Wraps(w, x) => w \in Garbage
  BY <1>0 DEF CutInv
<1>4. \A x \in Garbage : prop[x] = 0
  <2> TAKE x \in Garbage
  <2>1. \A c \in Cell : slot[c] # x
    <3> SUFFICES ASSUME NEW c \in Cell, slot[c] = x PROVE FALSE
      OBVIOUS
    <3>1. c[1] \in Garbage /\ c = <<c[1], c[2]>> /\ c[2] \in Index(c[1])
      BY <1>2, <1>3, ArcAssumption DEF Cell, Index
    <3>2. c[2] \in Slots(c[1])
      BY <1>2, <3>1, ArcAssumption DEF Slots
    <3> QED BY <1>3, <3>1, <3>2
  <2> QED BY <1>0, <1>2, <2>1, OwnedFacts
<1>5. ASSUME NEW x \in Garbage, \A w \in Obj : ~Wraps(w, x) PROVE kind[x] = "free"
  <2>1. ref[x] = 0
    BY <1>0, <1>2, <1>3, <1>5, OwnedFacts
  <2> QED BY <1>0, <1>1, <1>2, <1>4, <2>1, Numbers
<1>6. \A w \in Obj : ~Wraps(w, o)
  <2> SUFFICES ASSUME NEW w \in Obj, Wraps(w, o) PROVE FALSE
    OBVIOUS
  <2>1. w \in Garbage /\ kind[w] = "iface"
    BY <1>3 DEF Wraps
  <2>2. \A u \in Obj : ~Wraps(u, w)
    BY <1>0, <2>1 DEF KindInv, HasSlots
  <2> QED BY <1>5, <2>1, <2>2
<1> QED BY <1>2, <1>5, <1>6

LEMMA CollectedStep == IInv /\ Collected => IInv'
<1> SUFFICES ASSUME IInv, Collected PROVE IInv'
  OBVIOUS
<1>0. TypeOK /\ ModeInv /\ CutInv
  BY Parts
<1>1. /\ mode = "unpin" /\ mode' = "collected" /\ stack = <<>> /\ pinned = {}
      /\ nodes' = {} /\ live' = {}
  BY DEF Collected, In
<1>2. UNCHANGED <<heapVars, ref, prop, pending, listed, detached, stack, queue, pinned, before, sweepVars>>
  BY DEF Collected
<1>3. /\ Counted' /\ Shape(stack') /\ KindInv' /\ EndInv' /\ DyingInv' /\ StoreInv'
      /\ \A op, x : ~Does(stack', op, x)
      /\ \A x : Slots(x)' = Slots(x)
  BY <1>1, <1>2, QuietStep
<1>4. queue' = {} /\ pinned' = {} /\ detached = {}
  BY <1>0, <1>1, <1>2 DEF ModeInv
<1>5. TypeOK'
  BY <1>0, <1>1, <1>2, <1>4 DEF TypeOK, Mode, heapVars, sweepVars
<1>6. ModeInv'
  BY <1>0, <1>1, <1>2, <1>3, <1>4 DEF ModeInv, sweepVars
<1>7. CollectExact'
  <2>1. \A o \in Garbage : kind[o] = "free"
    BY <1>1, GarbageGone
  <2>2. \A o \in Obj : kind[o] # "free" => o \in before.kept
    BY <1>0, <1>1, <2>1 DEF CutInv
  <2>3. before.used \subseteq {o \in Obj : kind[o] # "free"}
    BY <1>0, <1>1, UsedHeld DEF CutInv
  <2> QED BY <1>2, <2>2, <2>3 DEF CollectExact, heapVars
<1>8. MarkInv' /\ CutInv' /\ SweepInv' /\ ExitEmpties'
  BY <1>1 DEF MarkInv, CutInv, SweepInv, ExitEmpties
<1> QED BY <1>3, <1>5, <1>6, <1>7, <1>8, Whole

LEMMA ResumeStep == IInv /\ Resume => IInv'
<1> SUFFICES ASSUME IInv, Resume PROVE IInv'
  OBVIOUS
<1>0. TypeOK /\ ModeInv
  BY Parts
<1>1. mode = "collected" /\ mode' = "run" /\ stack = <<>> /\ before' = [used |-> {}, kept |-> {}]
  BY DEF Resume, In
<1>2. UNCHANGED <<heapVars, ref, prop, pending, listed, detached, stack, nodes, live, queue, pinned, sweepVars>>
  BY DEF Resume
<1>3. /\ Counted' /\ Shape(stack') /\ KindInv' /\ EndInv' /\ DyingInv' /\ StoreInv'
      /\ \A op, x : ~Does(stack', op, x)
  BY <1>1, <1>2, QuietStep
<1>4. TypeOK'
  BY <1>0, <1>1, <1>2 DEF TypeOK, Mode, heapVars, sweepVars
<1>5. ModeInv'
  BY <1>0, <1>1, <1>2, <1>3 DEF ModeInv, sweepVars
<1>6. MarkInv' /\ CutInv' /\ CollectExact' /\ SweepInv' /\ ExitEmpties'
  BY <1>1 DEF MarkInv, CutInv, CollectExact, SweepInv, ExitEmpties
<1> QED BY <1>3, <1>4, <1>5, <1>6, Whole

-----------------------------------------------------------------------------
(* The end of the isolate.                                                 *)

\* One lemma per step of the exit.
LEMMA ExitStep == IInv /\ Exit => IInv'
<1> SUFFICES ASSUME IInv, Exit PROVE IInv'
  OBVIOUS
<1>0. TypeOK /\ ModeInv
  BY Parts
<1>1. mode = "run" /\ mode' = "statics" /\ stack = <<>> /\ \A o \in Obj : local[o] = 0
  BY DEF Exit, In
<1>2. UNCHANGED <<heapVars, ref, prop, pending, listed, detached, stack, gcVars, sweepVars>>
  BY DEF Exit
<1>3. /\ Counted' /\ Shape(stack') /\ KindInv' /\ EndInv' /\ DyingInv' /\ StoreInv'
      /\ \A op, x : ~Does(stack', op, x)
  BY <1>1, <1>2, QuietStep DEF gcVars
<1>4. TypeOK'
  BY <1>0, <1>1, <1>2 DEF TypeOK, Mode, heapVars, gcVars, sweepVars
<1>5. ModeInv'
  BY <1>0, <1>1, <1>2, <1>3 DEF ModeInv, heapVars, gcVars, sweepVars
<1>6. MarkInv' /\ CutInv' /\ CollectExact' /\ SweepInv' /\ ExitEmpties'
  BY <1>1 DEF MarkInv, CutInv, CollectExact, SweepInv, ExitEmpties
<1> QED BY <1>3, <1>4, <1>5, <1>6, Whole

LEMMA DereferenceStaticStep == ASSUME NEW i \in Static, IInv, DereferenceStatic(i) PROVE IInv'
<1>0. TypeOK /\ ModeInv
  BY Parts
<1> DEFINE c == <<Class, i>>
           f == Frame("clear", Class, i, Null)
           rest == <<f>>
<1>1. mode = "statics" /\ stack = <<>> /\ slot[c] # Null /\ DecProp(slot[c], rest)
  BY DEF DereferenceStatic, In
<1>2. UNCHANGED <<kind, impl, slot, local, ref, pending, detached, mode, gcVars, sweepVars>>
  BY DEF DereferenceStatic, heapVars
<1>3. c \in Cell
  BY DEF Cell
<1>4. f \in FrameType /\ f.op = "clear" /\ f.obj = Class /\ f.at = i
  BY DEF Frame, FrameType, Op, Holder
<1>5. rest \in Seq(FrameType) /\ Shape(rest) /\ ToSet(rest) = {f}
  <2>1. <<f>> \o <<>> = <<f>>
    OBVIOUS
  <2> HIDE DEF f
  <2>2. <<f>> \o <<>> \in Seq(FrameType) /\ Shape(<<f>> \o <<>>) /\ ToSet(<<f>> \o <<>>) = {f} \cup ToSet(<<>>)
    BY <1>3, <1>4, EmptyCalls, PushFacts DEF Ends
  <2> QED BY <2>1, <2>2, EmptyCalls
<1>6. \A op, o : Does(rest, op, o) <=> op = "clear" /\ o = Class
  BY <1>4, <1>5 DEF Does
<1>7. StaleOf(rest) = {c}
  BY <1>4, <1>5 DEF StaleOf
<1>8. slot[c] \in Obj /\ Stale = {} /\ \A op, x : ~Does(stack, op, x)
  BY <1>0, <1>1, <1>3, Types, Idle
<1> HIDE DEF f
<1> SUFFICES ASSUME NEW v \in Obj, slot[c] = v, DecProp(v, rest) PROVE IInv'
  BY <1>1, <1>8
<1> HIDE DEF c, rest
<1>9. slot' \in [Cell -> Obj \cup {Null}] /\ \A d \in Cell : slot'[d] \in {slot[d], Null}
  BY <1>0, <1>2, Types
<1>10. \A o \in Obj : {d \in Cell : slot'[d] = o /\ d \notin StaleOf(rest)} = HoldingCells(o) \ {c}
  BY <1>2, <1>7, <1>8 DEF HoldingCells
<1>11. \A o \in Obj : \A op \in {"free", "unlink", "detach"} : Does(rest, op, o) <=> Does(stack, op, o)
  BY <1>6, <1>8
<1>12. /\ TypeOK' /\ Counted' /\ Shape(stack') /\ KindInv' /\ EndInv' /\ DyingInv'
       /\ \A op, x : op # "dealloc" => (Does(stack', op, x) <=> Does(rest, op, x))
       /\ \A g \in ToSet(stack') : g.op # "dealloc" => g \in ToSet(rest)
  BY <1>2, <1>3, <1>5, <1>6, <1>8, <1>9, <1>10, <1>11, ReleaseSlot
<1>13. StoreInv'
  BY <1>4, <1>5, <1>12 DEF StoreInv
<1>14. ModeInv'
  <2>1. \A o : ~Does(stack', "store", o) /\ ~Does(stack', "unlink", o)
    BY <1>6, <1>12
  <2> QED BY <1>0, <1>1, <1>2, <2>1 DEF ModeInv, gcVars, sweepVars
<1>15. MarkInv' /\ CutInv' /\ CollectExact' /\ SweepInv' /\ ExitEmpties'
  BY <1>1, <1>2 DEF MarkInv, CutInv, CollectExact, SweepInv, ExitEmpties
<1> QED BY <1>12, <1>13, <1>14, <1>15, Whole

LEMMA BeginSweepStep == IInv /\ BeginSweep => IInv'
<1> SUFFICES ASSUME IInv, BeginSweep PROVE IInv'
  OBVIOUS
<1>0. TypeOK /\ ModeInv
  BY Parts
<1>1. mode = "statics" /\ mode' = "sweep" /\ stack = <<>> /\ Slots(Class) = {}
  BY DEF BeginSweep, In
<1>2. UNCHANGED <<heapVars, ref, prop, pending, listed, detached, stack, gcVars, sweepVars>>
  BY DEF BeginSweep
<1>3. /\ Counted' /\ Shape(stack') /\ KindInv' /\ EndInv' /\ DyingInv' /\ StoreInv'
      /\ \A op, x : ~Does(stack', op, x)
      /\ \A x : Slots(x)' = Slots(x)
  BY <1>1, <1>2, QuietStep DEF gcVars
<1>4. TypeOK'
  BY <1>0, <1>1, <1>2 DEF TypeOK, Mode, heapVars, gcVars, sweepVars
<1>5. ModeInv'
  BY <1>0, <1>1, <1>2, <1>3 DEF ModeInv, heapVars, gcVars, sweepVars
<1>6. SweepInv'
  <2>1. visited' = {} /\ old_count' = 0 /\ stack' = <<>>
    BY <1>0, <1>1, <1>2 DEF ModeInv, sweepVars
  <2> QED BY <2>1 DEF SweepInv
<1>7. MarkInv' /\ CutInv' /\ CollectExact' /\ ExitEmpties'
  BY <1>1 DEF MarkInv, CutInv, CollectExact, ExitEmpties
<1> QED BY <1>3, <1>4, <1>5, <1>6, <1>7, Whole

\* Once no wrapper is left to detach, what has a count is held by slots alone.
LEMMA SweepFacts ==
  ASSUME IInv, mode = "sweep", stack = <<>>
  PROVE  /\ \A w \in Obj : kind[w] = "iface" /\ w \notin pending => ref[w] = 0 /\ w \in listed
         /\ WrappersGone => \A o \in Obj : ref[o] = 0 /\ (kind[o] = "free" \/ o \in pending \/ o \in listed)
<1>0. TypeOK /\ Counted /\ KindInv /\ ModeInv
  BY Parts
<1>1. pinned = {} /\ (\A o \in Obj : local[o] = 0)
      /\ (\A o \in Obj : kind[o] # "free" /\ o \notin pending => ref[o] > 0 \/ prop[o] > 0)
  BY <1>0, Idle DEF ModeInv
<1>2. \A o \in Obj : (\A w \in Obj : ~Wraps(w, o)) => ref[o] = 0
  BY <1>0, <1>1, OwnedFacts
<1>3. \A o \in Obj : ref[o] = 0 => kind[o] = "free" \/ o \in pending \/ o \in listed
  BY <1>0, <1>1, Numbers DEF Counted
<1>4. \A w \in Obj : kind[w] = "iface" => \A u \in Obj : ~Wraps(u, w)
  BY <1>0 DEF KindInv, HasSlots
<1>5. WrappersGone => \A o, w \in Obj : ~Wraps(w, o)
  BY DEF WrappersGone, Wraps
<1> QED BY <1>2, <1>3, <1>4, <1>5

LEMMA SweepSkipStep == ASSUME NEW o \in Obj, IInv, SweepSkip(o) PROVE IInv'
<1>0. TypeOK /\ ModeInv /\ SweepInv
  BY Parts
<1>1. /\ mode = "sweep" /\ stack = <<>> /\ o \in listed /\ ~Sweepable(o)
      /\ visited' = visited \cup {o}
  BY DEF SweepSkip, In
<1>2. UNCHANGED <<heapVars, ref, prop, pending, listed, detached, stack, mode, gcVars, old_count, new_count>>
  BY DEF SweepSkip
<1>3. /\ Counted' /\ Shape(stack') /\ KindInv' /\ EndInv' /\ DyingInv' /\ StoreInv'
      /\ \A op, x : ~Does(stack', op, x)
      /\ \A x : Slots(x)' = Slots(x)
  BY <1>1, <1>2, QuietStep DEF gcVars
<1>4. TypeOK'
  BY <1>0, <1>1, <1>2 DEF TypeOK, heapVars, gcVars
<1>5. ModeInv'
  BY <1>0, <1>1, <1>2, <1>3 DEF ModeInv, heapVars, gcVars
<1>6. SweepInv'
  <2>1. /\ kind[o] = "iface" => o \in pending
        /\ WrappersGone => o \in pending
        /\ o \in pending \/ ref[o] > 0
    BY <1>0, <1>1, SweepFacts, Numbers DEF Sweepable
  <2>2. WrappersGone' = WrappersGone
    BY <1>2 DEF WrappersGone, heapVars
  <2> QED BY <1>0, <1>1, <1>2, <2>1, <2>2 DEF SweepInv, heapVars
<1>7. MarkInv' /\ CutInv' /\ CollectExact' /\ ExitEmpties'
  BY <1>1, <1>2 DEF MarkInv, CutInv, CollectExact, ExitEmpties
<1> QED BY <1>3, <1>4, <1>5, <1>6, <1>7, Whole

LEMMA NextPassStep == IInv /\ NextPass => IInv'
<1> SUFFICES ASSUME IInv, NextPass PROVE IInv'
  OBVIOUS
<1>0. TypeOK /\ ModeInv /\ SweepInv
  BY Parts
<1>1. /\ mode = "sweep" /\ stack = <<>> /\ listed \subseteq visited
      /\ old_count' = new_count /\ new_count' = 0 /\ visited' = {}
  BY DEF NextPass, PassOver, In
<1>2. UNCHANGED <<heapVars, ref, prop, pending, listed, detached, stack, mode, gcVars>>
  BY DEF NextPass
<1>3. /\ Counted' /\ Shape(stack') /\ KindInv' /\ EndInv' /\ DyingInv' /\ StoreInv'
      /\ \A op, x : ~Does(stack', op, x)
      /\ \A x : Slots(x)' = Slots(x)
  BY <1>1, <1>2, QuietStep DEF gcVars
<1>4. TypeOK'
  BY <1>0, <1>1, <1>2 DEF TypeOK, heapVars, gcVars
<1>5. ModeInv'
  BY <1>0, <1>1, <1>2, <1>3 DEF ModeInv, heapVars, gcVars
<1>6. SweepInv'
  <2>1. WrappersGone
    BY <1>0, <1>1, SweepFacts DEF SweepInv, WrappersGone
  <2>2. WrappersGone'
    BY <1>2, <2>1 DEF WrappersGone, heapVars
  <2> QED BY <1>1, <1>2, <2>2 DEF SweepInv
<1>7. MarkInv' /\ CutInv' /\ CollectExact' /\ ExitEmpties'
  BY <1>1, <1>2 DEF MarkInv, CutInv, CollectExact, ExitEmpties
<1> QED BY <1>3, <1>4, <1>5, <1>6, <1>7, Whole

LEMMA SweepDetachStep == ASSUME NEW o \in Obj, IInv, SweepDetach(o) PROVE IInv'
<1>0. TypeOK /\ Counted /\ KindInv /\ DyingInv /\ ModeInv /\ SweepInv
  BY Parts
<1>1. /\ mode = "sweep" /\ stack = <<>> /\ o \in listed /\ ref[o] = 0 /\ o \notin pending
      /\ visited' = visited \cup {o} /\ new_count' = new_count + 1 /\ pending' = pending \cup {o}
  BY DEF SweepDetach, In, Sweepable
<1>2. UNCHANGED <<kind, impl, slot, local, prop, listed, detached, mode, gcVars, old_count>>
  BY DEF SweepDetach, heapVars
<1>3. kind[o] # "free"
  BY <1>0, <1>1 DEF Counted
<1>4. (\A op, p : ~Does(stack, op, p)) /\ (\A p : ~Ending(stack, p)) /\ Stale = {}
  BY <1>1, EmptyCalls, Idle
<1>5. /\ Onto(Do("unlink", o) \o <<>>, <<>>, {"unlink"}, o)
      /\ Onto(Do("detach", o) \o Do("unlink", o) \o <<>>, <<>>, {"detach", "unlink"}, o)
  BY EmptyCalls, OntoFacts
<1>6. Do("unlink", o) \o <<>> = Do("unlink", o)
      /\ Do("detach", o) \o Do("unlink", o) \o <<>> = Do("detach", o) \o Do("unlink", o)
  BY DEF Do
<1>7. SweepInv'
  <2>1. new_count' > 0
    BY <1>0, <1>1 DEF TypeOK
  <2>2. WrappersGone => WrappersGone'
    BY <1>1, <1>2 DEF WrappersGone
  <2> QED BY <1>0, <1>1, <1>2, <2>1, <2>2 DEF SweepInv
<1>8. MarkInv' /\ CutInv' /\ CollectExact' /\ ExitEmpties'
  BY <1>1, <1>2 DEF MarkInv, CutInv, CollectExact, ExitEmpties
<1>9. ASSUME NEW ops, ops \subseteq {"unlink", "detach"}, "unlink" \in ops, "detach" \in ops <=> HasSlots(o),
             stack' \in Seq(FrameType), Shape(stack'), StaleOf(stack') = {},
             \A op, p : op # "dealloc" => (Does(stack', op, p) <=> op \in ops /\ p = o),
             ref' \in [Obj -> Nat], DyingInv',
             \A x \in Obj : /\ ref'[x] = local'[x] + Cardinality(Wrappers(x))' + (IF x \in pinned' THEN 1 ELSE 0)
                            /\ kind[x] = "free" => ref'[x] = ref[x]
      PROVE  IInv'
  <2>1. TypeOK'
    <3>1. visited' \subseteq Obj /\ new_count' \in Nat /\ pending' \subseteq Obj
      BY <1>0, <1>1 DEF TypeOK
    <3> QED BY <1>0, <1>2, <1>9, <3>1 DEF TypeOK, gcVars
  <2>2. Counted'
    <3>1. Stale' = Stale
      BY <1>4, <1>9 DEF Stale, StaleOf
    <3>2. \A x \in Obj : kind'[x] = "free" => kind[x] = "free" /\ ref'[x] = ref[x]
      BY <1>2, <1>9
    <3> QED BY <1>1, <1>2, <1>9, <3>1, <3>2, CountedRef
  <2>3. EndInv' /\ KindInv'
    <3>1. \A p \in Obj : Ending(stack', p) <=> Ending(stack, p) \/ p = o
      BY <1>4, <1>9 DEF Ending
    <3>2. \A p \in Obj : Does(stack', "detach", p) <=> Does(stack, "detach", p) \/ (p = o /\ HasSlots(o))
      BY <1>4, <1>9
    <3>3. \A p \in Obj : Does(stack', "free", p) => Does(stack, "free", p) \/ (p = o /\ prop[o] = 0 /\ o \notin listed)
      BY <1>9
    <3> QED BY <1>1, <1>2, <3>1, <3>2, <3>3, BeginEnd
  <2>4. \A p : ~Does(stack', "store", p) /\ ~Does(stack', "clear", p)
    BY <1>9
  <2>5. StoreInv'
    BY <2>4 DEF StoreInv, Does
  <2>6. ModeInv'
    <3>1. Slots(Class)' = Slots(Class)
      BY <1>2 DEF Slots
    <3> QED BY <1>0, <1>1, <1>2, <2>4, <3>1 DEF ModeInv, gcVars
  <2> QED BY <1>7, <1>8, <1>9, <2>1, <2>2, <2>3, <2>5, <2>6, Whole
<1>10. CASE kind[o] = "iface" /\ DecRef(impl[o], Do("unlink", o))
  <2> DEFINE v == impl[o]
             rest == Do("unlink", o)
  <2>1. v \in Obj /\ Wraps(o, v) /\ ref[v] > 0
    <3>1. v \in Obj /\ Wraps(o, v)
      BY <1>0, <1>1, <1>10 DEF KindInv, Wraps
    <3> QED BY <1>0, <3>1, OwnedFacts
  <2>2. rest \in Seq(FrameType) /\ Shape(rest) /\ (\A p : ~Does(rest, "dealloc", p)) /\ Onto(rest, <<>>, {"unlink"}, o)
    <3>1. Onto(rest, <<>>, {"unlink"}, o)
      BY <1>5, <1>6
    <3> HIDE DEF rest
    <3> QED BY <3>1, EmptyCalls DEF Onto
  <2>3. DecRef(v, rest)
    BY <1>10
  <2> HIDE DEF v, rest
  <2>4. /\ \E dead : Atop(stack', rest, dead)
        /\ DyingInv'
        /\ ref' \in [Obj -> Nat] /\ ref' = [ref EXCEPT ![v] = ref[v] - 1]
    <3>1. \A p \in pending' : p \in pending \/ (p \in Obj /\ kind[p] # "free" /\ ref[p] = 0)
      BY <1>1, <1>3
    <3>2. \A p \in Obj : p \in pending \/ Does(stack, "dealloc", p) => p \in pending'
      BY <1>1, <1>4
    <3> QED BY <1>2, <2>1, <2>2, <2>3, <3>1, <3>2, ReleaseRef
  <2>5. /\ stack' \in Seq(FrameType) /\ Shape(stack') /\ StaleOf(stack') = {}
        /\ \A op, p : op # "dealloc" => (Does(stack', op, p) <=> op \in {"unlink"} /\ p = o)
    BY <2>2, <2>4, EmptyCalls DEF Atop, Onto
  <2>6. \A x \in Obj : ref'[x] = local'[x] + Cardinality(Wrappers(x))' + (IF x \in pinned' THEN 1 ELSE 0)
    <3>1. \A x \in Obj : Wrappers(x)' = Wrappers(x) \ {o}
      BY <1>1, <1>2 DEF Wrappers, Wraps
    <3> QED BY <1>0, <1>2, <2>1, <2>4, <3>1, LoseWrapper DEF gcVars
  <2>7. \A x \in Obj : kind[x] = "free" => ref'[x] = ref[x]
    <3>1. kind[v] # "free"
      BY <1>0, <2>1 DEF Counted
    <3> QED BY <2>4, <3>1
  <2>8. ~HasSlots(o)
    BY <1>10 DEF HasSlots
  <2> QED BY <1>9, <2>4, <2>5, <2>6, <2>7, <2>8
<1>11. CASE HasSlots(o) /\ stack' = Do("detach", o) \o Do("unlink", o) /\ UNCHANGED ref
  <2>1. Onto(stack', <<>>, {"detach", "unlink"}, o)
    BY <1>5, <1>6, <1>11
  <2>2. /\ stack' \in Seq(FrameType) /\ Shape(stack') /\ StaleOf(stack') = {}
        /\ \A op, p : Does(stack', op, p) <=> op \in {"detach", "unlink"} /\ p = o
    BY <2>1, EmptyCalls DEF Onto
  <2>3. DyingInv'
    <3>1. \A p : ~Does(stack', "dealloc", p)
      BY <2>2
    <3> QED BY <1>0, <1>1, <1>2, <1>3, <1>4, <1>11, <3>1 DEF DyingInv
  <2>4. \A x \in Obj : ref'[x] = local'[x] + Cardinality(Wrappers(x))' + (IF x \in pinned' THEN 1 ELSE 0)
    <3>1. \A x \in Obj : Wrappers(x)' = Wrappers(x)
      BY <1>1, <1>2, <1>11 DEF Wrappers, Wraps, HasSlots
    <3> QED BY <1>0, <1>2, <1>11, <3>1 DEF Counted, gcVars
  <2>5. ref' \in [Obj -> Nat] /\ \A x \in Obj : kind[x] = "free" => ref'[x] = ref[x]
    BY <1>0, <1>11, Types
  <2> QED BY <1>9, <1>11, <2>2, <2>3, <2>4, <2>5
<1> QED BY <1>10, <1>11 DEF SweepDetach

LEMMA FreeDetachedStep == IInv /\ FreeDetached => IInv'
<1> SUFFICES ASSUME IInv, FreeDetached PROVE IInv'
  OBVIOUS
<1>0. TypeOK /\ Counted /\ KindInv /\ EndInv /\ ModeInv /\ SweepInv
  BY Parts
<1>1. /\ mode = "sweep" /\ stack = <<>> /\ listed \subseteq visited /\ old_count = new_count
      /\ Release(detached) /\ detached' = {} /\ mode' = "ended"
      /\ UNCHANGED <<listed, stack, gcVars, sweepVars>>
  BY DEF FreeDetached, PassOver, In, Again
<1>2. pending = detached /\ Stale = {}
  BY <1>1, Idle
<1>3. WrappersGone
  BY <1>0, <1>1, SweepFacts DEF SweepInv, WrappersGone
<1>4. \A o \in Obj : ref[o] = 0 /\ (kind[o] = "free" \/ o \in detached)
  <2>1. \A o \in Obj : ref[o] = 0 /\ (kind[o] = "free" \/ o \in pending \/ o \in listed)
    BY <1>1, <1>3, SweepFacts
  <2>2. \A o \in visited : kind[o] = "free" \/ o \in pending \/ new_count # 0
    BY <1>0, <1>1, <2>1, Numbers DEF SweepInv, TypeOK
  <2>3. \A o \in visited : kind[o] = "free" \/ o \in pending
    BY <1>0, <1>1, <2>2 DEF SweepInv
  <2> QED BY <1>1, <1>2, <2>1, <2>3
<1>5. /\ kind' = [x \in Obj |-> IF x \in detached THEN "free" ELSE kind[x]]
      /\ impl' = [x \in Obj |-> IF x \in detached THEN Null ELSE impl[x]]
      /\ slot' = [d \in Cell |-> IF d[1] \in detached THEN Null ELSE slot[d]]
      /\ ref' = [x \in Obj |-> IF x \in detached THEN 0 ELSE ref[x]]
      /\ prop' = [x \in Obj |-> IF x \in detached THEN 0 ELSE prop[x]]
      /\ pending' = pending \ detached /\ local' = local
  BY <1>1 DEF Release, Freed, Zeroed
<1>6. \A o \in Obj : kind'[o] = "free" /\ ref'[o] = 0 /\ prop'[o] = 0 /\ o \notin listed /\ local[o] = 0
  <2>1. \A o \in Obj : kind'[o] = "free" /\ ref'[o] = 0
    BY <1>4, <1>5
  <2>2. \A o \in Obj : prop'[o] = 0 /\ o \notin listed
    BY <1>0, <1>4, <1>5 DEF Counted, EndInv
  <2> QED BY <1>0, <1>1, <2>1, <2>2 DEF ModeInv
<1>7. \A c \in Cell : slot'[c] = Null
  <2> SUFFICES ASSUME NEW c \in Cell, slot[c] # Null, c[1] \notin detached PROVE FALSE
    BY <1>5
  <2>1. c = <<c[1], c[2]>> /\ c[1] \in Holder /\ c[2] \in Index(c[1])
    BY ArcAssumption DEF Cell, Holder, Index
  <2>2. c[2] \in Slots(c[1])
    BY <2>1 DEF Slots
  <2>3. c[1] # Class
    BY <1>0, <1>1, <2>2 DEF ModeInv
  <2>4. c[1] \in Obj /\ kind[c[1]] = "free"
    BY <1>4, <2>1, <2>3 DEF Holder
  <2> QED BY <2>2, <2>4, FreeFacts
<1>8. pending' = {} /\ pinned' = {} /\ queue' = {}
  BY <1>0, <1>1, <1>2, <1>5 DEF ModeInv, gcVars
<1>9. TypeOK'
  <2>1. kind' \in [Obj -> Kind] /\ impl' \in [Obj -> Obj \cup {Null}]
    BY <1>0, <1>5, Types DEF Kind
  <2>2. slot' \in [Cell -> Obj \cup {Null}]
    BY <1>5, <1>7
  <2>3. ref' \in [Obj -> Nat] /\ prop' \in [Obj -> Nat]
    BY <1>5, <1>6
  <2>4. pending' \subseteq Obj /\ listed' \subseteq Obj /\ detached' \subseteq Obj /\ mode' \in Mode /\ stack' \in Seq(FrameType)
    BY <1>0, <1>1, <1>8 DEF Mode, TypeOK
  <2> QED BY <1>0, <1>1, <1>5, <2>1, <2>2, <2>3, <2>4 DEF TypeOK, gcVars, sweepVars
<1>10. Counted'
  <2> SUFFICES ASSUME NEW o \in Obj
               PROVE  /\ prop'[o] = Cardinality(HoldingCells(o))'
                      /\ ref'[o] = local'[o] + Cardinality(Wrappers(o))' + (IF o \in pinned' THEN 1 ELSE 0)
                      /\ kind'[o] = "free" => ref'[o] = 0 /\ prop'[o] = 0 /\ o \notin listed' \cup detached'
                      /\ o \notin pending' => (o \in listed' <=> prop'[o] > 0)
    BY DEF Counted
  <2>1. HoldingCells(o)' = {}
    BY <1>7, ArcAssumption DEF HoldingCells
  <2>2. Wrappers(o)' = {}
    BY <1>6 DEF Wrappers, Wraps
  <2>3. Cardinality(HoldingCells(o))' = 0 /\ Cardinality(Wrappers(o))' = 0
    BY <2>1, <2>2, FS_EmptySet
  <2> QED BY <1>1, <1>5, <1>6, <1>8, <2>3
<1>11. \A o \in Holder : Slots(o)' = {}
  BY <1>7, ArcAssumption DEF Slots, Index, Cell, Holder
<1>12. KindInv'
  BY <1>6, <1>11 DEF KindInv, HasSlots, Wraps, Holder
<1>13. \A op, o : ~Does(stack', op, o) /\ ~Ending(stack', o)
  BY <1>1, EmptyCalls
<1>14. EndInv' /\ DyingInv' /\ StoreInv' /\ Shape(stack')
  BY <1>1, <1>6, <1>8, <1>13, EmptyCalls DEF EndInv, DyingInv, StoreInv
<1>15. ModeInv'
  BY <1>1, <1>5, <1>6, <1>8, <1>11, <1>13 DEF ModeInv, Holder
<1>16. MarkInv' /\ CutInv' /\ CollectExact' /\ SweepInv'
  BY <1>1 DEF MarkInv, CutInv, CollectExact, SweepInv
<1>17. ExitEmpties'
  BY <1>6 DEF ExitEmpties
<1> QED BY <1>9, <1>10, <1>12, <1>14, <1>15, <1>16, <1>17, Whole

-----------------------------------------------------------------------------
(* The specification.                                                      *)

\* The invariant holds at first.
LEMMA InitIInv == Init => IInv
<1> SUFFICES ASSUME Init PROVE IInv
  OBVIOUS
<1> USE DEF Init
<1>1. \A op, o : ~Does(stack, op, o) /\ ~Ending(stack, o)
  BY EmptyCalls
<1>2. TypeOK
  <2>1. kind \in [Obj -> Kind] /\ impl \in [Obj -> Obj \cup {Null}] /\ slot \in [Cell -> Obj \cup {Null}]
    BY DEF Kind
  <2>2. local \in [Obj -> 0 .. MaxLocals] /\ ref \in [Obj -> Nat] /\ prop \in [Obj -> Nat]
    BY ArcAssumption
  <2>3. stack \in Seq(FrameType) /\ mode \in Mode /\ before \in [used : SUBSET Obj, kept : SUBSET Obj]
    BY EmptyCalls DEF Mode
  <2> QED BY <2>1, <2>2, <2>3 DEF TypeOK
<1>3. \A o \in Holder : Slots(o) = {}
  BY ArcAssumption DEF Slots, Cell, Index, Holder
<1>4. Counted
  <2> SUFFICES ASSUME NEW o \in Obj
               PROVE  /\ prop[o] = Cardinality(HoldingCells(o))
                      /\ ref[o] = local[o] + Cardinality(Wrappers(o)) + (IF o \in pinned THEN 1 ELSE 0)
                      /\ kind[o] = "free" => ref[o] = 0 /\ prop[o] = 0 /\ o \notin listed \cup detached
                      /\ o \notin pending => (o \in listed <=> prop[o] > 0)
    BY DEF Counted
  <2>1. HoldingCells(o) = {} /\ Wrappers(o) = {}
    BY ArcAssumption DEF HoldingCells, Wrappers, Wraps
  <2> QED BY <2>1, FS_EmptySet
<1>5. KindInv
  BY <1>3 DEF KindInv, HasSlots, Wraps, Holder
<1>6. EndInv /\ DyingInv /\ StoreInv /\ Shape(stack)
  BY <1>1, EmptyCalls DEF EndInv, DyingInv, StoreInv
<1>7. ModeInv
  BY <1>1 DEF ModeInv
<1>8. MarkInv /\ CutInv /\ CollectExact /\ SweepInv /\ ExitEmpties
  BY DEF MarkInv, CutInv, CollectExact, SweepInv, ExitEmpties
<1>9. CountsOwners
  BY <1>2, <1>4 DEF CountsOwners, Counted
<1> QED BY <1>5, <1>6, <1>7, <1>8, <1>9 DEF IInv, HeapInv

\* A step that changes nothing.
LEMMA Stutter == IInv /\ UNCHANGED vars => IInv'
<1> SUFFICES ASSUME IInv, UNCHANGED vars PROVE IInv'
  OBVIOUS
<1>0. /\ TypeOK /\ Counted /\ Shape(stack) /\ KindInv /\ EndInv /\ DyingInv /\ StoreInv
      /\ ModeInv /\ MarkInv /\ CutInv /\ CollectExact /\ SweepInv /\ ExitEmpties
  BY Parts
<1>1. /\ UNCHANGED <<kind, impl, slot, local, ref, prop, pending, listed, detached, stack, mode>>
      /\ UNCHANGED <<nodes, live, queue, pinned, before, visited, old_count, new_count>>
  BY DEF vars, heapVars, gcVars, sweepVars
<1>2. /\ \A x : Slots(x)' = Slots(x)
      /\ \A w, x : Wraps(w, x)' <=> Wraps(w, x)
      /\ \A x : HasSlots(x)' <=> HasSlots(x)
      /\ Stale' = Stale /\ Garbage' = Garbage
  BY <1>1 DEF Slots, Wraps, HasSlots, Stale, Garbage
<1>3. \A x : Edges(x)' = Edges(x)
  BY <1>1, <1>2 DEF Edges
<1>4. \A x : HoldingCells(x)' = HoldingCells(x) /\ Wrappers(x)' = Wrappers(x)
  BY <1>1, <1>2 DEF HoldingCells, Wrappers
<1>5. \A S : Reach(S)' = Reach(S)
  BY <1>3 DEF Reach
<1>6. Nodes' = Nodes /\ \A N : Roots(N)' = Roots(N)
  <2>1. \A N, x : Internal(N, x)' = Internal(N, x)
    BY <1>1, <1>2 DEF Internal
  <2> QED BY <1>1, <1>2, <2>1 DEF Nodes, Roots
<1>7. ProgramRoots' = ProgramRoots
  BY <1>1, <1>2 DEF ProgramRoots
<1>8. TypeOK'
  BY <1>0, <1>1 DEF TypeOK
<1>9. Counted'
  BY <1>0, <1>1, <1>4 DEF Counted
<1>10. Shape(stack') /\ KindInv' /\ EndInv' /\ DyingInv' /\ StoreInv'
  BY <1>0, <1>1, <1>2 DEF KindInv, EndInv, DyingInv, StoreInv
<1>11. ModeInv'
  BY <1>0, <1>1, <1>2 DEF ModeInv
<1>12. MarkInv'
  <2> DEFINE Q == ProgramRoots \cup {o \in Obj : kind[o] = "native"}
  <2>1. Q' = Q
    BY <1>1, <1>7
  <2>2. Reach(Q)' = Reach(Q) /\ Reach(ProgramRoots)' = Reach(ProgramRoots) /\ Roots(Nodes)' = Roots(Nodes)
    BY <1>5, <1>6, <1>7, <2>1
  <2> QED BY <1>0, <1>1, <1>3, <1>6, <2>2 DEF MarkInv
<1>13. CutInv'
  BY <1>0, <1>1, <1>2 DEF CutInv
<1>14. CollectExact' /\ SweepInv' /\ ExitEmpties'
  BY <1>0, <1>1 DEF CollectExact, SweepInv, ExitEmpties, WrappersGone
<1> QED BY <1>8, <1>9, <1>10, <1>11, <1>12, <1>13, <1>14, Whole

\* And is kept by every step.
LEMMA NextIInv == IInv /\ [Next]_vars => IInv'
<1> SUFFICES ASSUME IInv, [Next]_vars PROVE IInv'
  OBVIOUS
<1>1. CASE UNCHANGED vars
  BY <1>1, Stutter
<1>2. CASE Return
  BY <1>2, DeallocStep, DetachStep, ClearStep, StoreStep, FreeStep, UnlinkStep DEF Return
<1>3. CASE Program
  <2>1. ASSUME NEW o \in Obj, Drop(o) PROVE IInv'
    BY <2>1, DropStep
  <2>2. ASSUME NEW o \in Obj, NEW k \in {"class", "native"}, Allocate(o, k) PROVE IInv'
    BY <2>2, AllocateStep
  <2>3. ASSUME NEW o \in Obj, NEW x \in Obj, AllocateIface(o, x) PROVE IInv'
    BY <2>3, AllocateIfaceStep
  <2>4. ASSUME NEW p \in Holder, NEW i \in Index(p), Read(p, i) PROVE IInv'
    BY <2>4, ReadStep
  <2>5. ASSUME NEW p \in Holder, NEW i \in Index(p), NEW v \in Obj \cup {Null}, SetProperty(p, i, v)
        PROVE  IInv'
    BY <2>5, SetPropertyStep
  <2> QED BY <1>3, <2>1, <2>2, <2>3, <2>4, <2>5 DEF Program
<1>4. CASE GarbageCollector
  <2>1. ASSUME NEW o \in Obj, Mark(o) \/ Unpin(o) PROVE IInv'
    BY <2>1, MarkStep, UnpinStep
  <2>2. ASSUME NEW o \in Obj, NEW i \in Slot, ClearEdge(o, i) PROVE IInv'
    BY <2>2, ClearEdgeStep
  <2> QED BY <1>4, <2>1, <2>2, CollectStep, PinStep, AllClearedStep, CollectedStep, ResumeStep DEF GarbageCollector
<1>5. CASE Teardown
  <2>1. ASSUME NEW i \in Static, DereferenceStatic(i) PROVE IInv'
    BY <2>1, DereferenceStaticStep
  <2>2. ASSUME NEW o \in Obj, SweepSkip(o) \/ SweepDetach(o) PROVE IInv'
    BY <2>2, SweepSkipStep, SweepDetachStep
  <2> QED BY <1>5, <2>1, <2>2, ExitStep, BeginSweepStep, NextPassStep, FreeDetachedStep, Stutter DEF Teardown, Ended
<1> QED BY <1>1, <1>2, <1>3, <1>4, <1>5 DEF Next

\* The counts, the shape of the cascade and the collector's graph hold together
\* over every call, collection and sweep (core_inline_functions.h, core.c, GC.c).
THEOREM Invariance == Spec => []IInv
BY InitIInv, NextIInv, PTL DEF Spec

\* In every state of the heap, in the middle of a cascade of releases as well,
\* reference_count and property_reference_count of an object are the numbers of
\* its owners, and the list has what some slot holds.
THEOREM CountsAreExact == Spec => []CountsOwners
<1>1. IInv => CountsOwners
  BY DEF IInv
<1> QED BY <1>1, Invariance, PTL

\* GC.collect frees no object that the program or a static can still reach, and
\* leaves only what they or a native object reach, whatever graph of objects and
\* interfaces it began with.
THEOREM CollectionIsExact == Spec => []CollectExact
<1>1. IInv => CollectExact
  BY DEF IInv
<1> QED BY <1>1, Invariance, PTL

\* When the sweep at the end of an isolate is over no object is left, whatever
\* cycles there were: its two equal passes are enough.
THEOREM ExitIsEmpty == Spec => []ExitEmpties
<1>1. IInv => ExitEmpties
  BY DEF IInv
<1> QED BY <1>1, Invariance, PTL

=============================================================================
