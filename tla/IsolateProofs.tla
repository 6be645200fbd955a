--------------------------- MODULE IsolateProofs ---------------------------
(***************************************************************************)
(* For every set of workers, Thread objects and messages: isolate counts   *)
(* are exact and freed isolates untouched (IInv); what the end of a thread *)
(* promises to those that join it, send to it and count it (ExitInv); and  *)
(* a message has one owner until it is opened or discarded (OwnedInv).     *)
(***************************************************************************)
EXTENDS IsolateInv, FiniteSetTheorems, TLAPS

-----------------------------------------------------------------------------
(* Counting holders.                                                       *)

\* There are finitely many isolates.
LEMMA IsoFinite == IsFiniteSet(Iso)
  BY IsolateAssumption, FS_AddElement, FS_Union, FS_Singleton DEF Iso

\* So the holders of an isolate can be counted.
LEMMA HoldersFinite ==
  ASSUME NEW j
  PROVE  /\ IsFiniteSet(HeldBy(j)) /\ Cardinality(HeldBy(j)) \in Nat
         /\ IsFiniteSet(Children(j)) /\ Cardinality(Children(j)) \in Nat
<1>1. IsFiniteSet(HeldBy(j)) /\ IsFiniteSet(Children(j))
  BY IsoFinite, IsolateAssumption, FS_Subset DEF HeldBy, Children
<1> QED BY <1>1, FS_CardinalityType

\* A holder of any kind is counted.
LEMMA HolderCounts ==
  ASSUME TypeOK, CountExact, NEW j \in Iso
  PROVE  /\ (\E h \in Handle : names[h] = j) => count[j] >= 1
         /\ (\E w \in Iso : parent[w] = j) => count[j] >= 1
         /\ thr[j] => count[j] >= 1
<1>1. (\E h \in Handle : names[h] = j) => Cardinality(HeldBy(j)) # 0
  BY HoldersFinite, FS_EmptySet DEF HeldBy
<1>2. (\E w \in Iso : parent[w] = j) => Cardinality(Children(j)) # 0
  BY HoldersFinite, FS_EmptySet DEF Children
<1> QED BY <1>1, <1>2, HoldersFinite DEF CountExact, TypeOK

\* An isolate that runs and has a child has two holders at least.
LEMMA RunningParentCounts ==
  ASSUME TypeOK, CountExact, NEW j \in Iso, NEW w \in Iso, parent[w] = j, thr[j]
  PROVE  count[j] >= 2
<1>1. Cardinality(Children(j)) # 0
  BY HoldersFinite, FS_EmptySet DEF Children
<1> QED BY <1>1, HoldersFinite DEF CountExact, TypeOK

\* A Thread object is created or copied and takes a count.
LEMMA CountNewHandle ==
  ASSUME TypeOK, CountExact, NEW h \in Handle, NEW j \in Iso, names[h] = None,
         names' = [names EXCEPT ![h] = j], count' = [count EXCEPT ![j] = @ + 1],
         UNCHANGED <<parent, thr>>
  PROVE  CountExact'
<1>1. None # j
  BY IsolateAssumption
<1>2. HeldBy(j)' = HeldBy(j) \cup {h} /\ h \notin HeldBy(j)
  BY <1>1 DEF TypeOK, HeldBy
<1>3. Cardinality(HeldBy(j)') = Cardinality(HeldBy(j)) + 1
  BY <1>2, HoldersFinite, FS_AddElement
<1>4. \A k \in Iso : k # j => HeldBy(k)' = HeldBy(k)
  BY IsolateAssumption DEF TypeOK, HeldBy
<1>5. \A k \in Iso : Children(k)' = Children(k)
  BY DEF Children
<1>6. ASSUME NEW k \in Iso
      PROVE  count'[k] = Cardinality(HeldBy(k)') + Cardinality(Children(k)')
                           + (IF thr[k] THEN 1 ELSE 0)
  <2>1. CASE k = j
    BY <2>1, <1>3, <1>5, HoldersFinite DEF CountExact, TypeOK
  <2>2. CASE k # j
    BY <2>2, <1>4, <1>5 DEF CountExact, TypeOK
  <2> QED BY <2>1, <2>2
<1> QED BY <1>6 DEF CountExact, HeldBy, Children

\* A Thread object dies and gives its count back.
LEMMA CountHandleDies ==
  ASSUME TypeOK, CountExact, NEW h \in Handle, NEW j \in Iso, names[h] = j,
         names' = [names EXCEPT ![h] = None], count' = [count EXCEPT ![j] = @ - 1],
         UNCHANGED <<parent, thr>>
  PROVE  CountExact'
<1>1. None # j
  BY IsolateAssumption
<1>2. HeldBy(j)' = HeldBy(j) \ {h} /\ h \in HeldBy(j)
  BY <1>1 DEF TypeOK, HeldBy
<1>3. Cardinality(HeldBy(j)') = Cardinality(HeldBy(j)) - 1
  BY <1>2, HoldersFinite, FS_RemoveElement
<1>4. \A k \in Iso : k # j => HeldBy(k)' = HeldBy(k)
  BY IsolateAssumption DEF TypeOK, HeldBy
<1>5. \A k \in Iso : Children(k)' = Children(k)
  BY DEF Children
<1>6. ASSUME NEW k \in Iso
      PROVE  count'[k] = Cardinality(HeldBy(k)') + Cardinality(Children(k)')
                           + (IF thr[k] THEN 1 ELSE 0)
  <2>1. CASE k = j
    BY <2>1, <1>3, <1>5, HoldersFinite DEF CountExact, TypeOK
  <2>2. CASE k # j
    BY <2>2, <1>4, <1>5 DEF CountExact, TypeOK
  <2> QED BY <2>1, <2>2
<1> QED BY <1>6 DEF CountExact, HeldBy, Children

\* An isolate that is freed gives back the count on its parent.
LEMMA CountParentReleased ==
  ASSUME TypeOK, CountExact, NEW w \in Iso, NEW j \in Iso, parent[w] = j,
         parent' = [parent EXCEPT ![w] = None], count' = [count EXCEPT ![j] = @ - 1],
         UNCHANGED <<names, thr>>
  PROVE  CountExact'
<1>1. None # j
  BY IsolateAssumption
<1>2. Children(j)' = Children(j) \ {w} /\ w \in Children(j)
  BY <1>1 DEF TypeOK, Children
<1>3. Cardinality(Children(j)') = Cardinality(Children(j)) - 1
  BY <1>2, HoldersFinite, FS_RemoveElement
<1>4. \A k \in Iso : k # j => Children(k)' = Children(k)
  BY IsolateAssumption DEF TypeOK, Children
<1>5. \A k \in Iso : HeldBy(k)' = HeldBy(k)
  BY DEF HeldBy
<1>6. ASSUME NEW k \in Iso
      PROVE  count'[k] = Cardinality(HeldBy(k)') + Cardinality(Children(k)')
                           + (IF thr[k] THEN 1 ELSE 0)
  <2>1. CASE k = j
    BY <2>1, <1>3, <1>5, HoldersFinite, SMTT(40) DEF CountExact, TypeOK
  <2>2. CASE k # j
    BY <2>2, <1>4, <1>5 DEF CountExact, TypeOK
  <2> QED BY <2>1, <2>2
<1> QED BY <1>6 DEF CountExact, HeldBy, Children

\* start(): the Thread object's count on the new isolate, the child's on its creator.
LEMMA CountStart ==
  ASSUME TypeOK, CountExact, NEW i \in Iso, NEW w \in Iso, NEW h \in Handle, w # i,
         count[w] = 0, names[h] = None, parent[w] = None,
         names' = [names EXCEPT ![h] = w], parent' = [parent EXCEPT ![w] = i],
         count' = [count EXCEPT ![w] = 1, ![i] = @ + 1], UNCHANGED thr
  PROVE  CountExact'
<1>1. None # i /\ None # w
  BY IsolateAssumption
<1>2. HeldBy(w)' = HeldBy(w) \cup {h} /\ h \notin HeldBy(w)
  BY <1>1 DEF TypeOK, HeldBy
<1>3. Cardinality(HeldBy(w)') = Cardinality(HeldBy(w)) + 1
  BY <1>2, HoldersFinite, FS_AddElement
<1>4. Children(i)' = Children(i) \cup {w} /\ w \notin Children(i)
  BY <1>1 DEF TypeOK, Children
<1>5. Cardinality(Children(i)') = Cardinality(Children(i)) + 1
  BY <1>4, HoldersFinite, FS_AddElement
<1>6. \A k \in Iso : k # w => HeldBy(k)' = HeldBy(k)
  BY IsolateAssumption DEF TypeOK, HeldBy
<1>7. \A k \in Iso : k # i => Children(k)' = Children(k)
  BY IsolateAssumption DEF TypeOK, Children
<1>8. \A k \in Iso : count[k] \in Nat
  BY DEF TypeOK
<1>9. SUFFICES ASSUME NEW k \in Iso
               PROVE  count'[k] = Cardinality(HeldBy(k)') + Cardinality(Children(k)')
                                    + (IF thr[k] THEN 1 ELSE 0)
  BY DEF CountExact, HeldBy, Children
<1>10. CASE k = w
  BY <1>10, <1>3, <1>7, <1>8, HoldersFinite DEF CountExact, TypeOK
<1>11. CASE k = i
  BY <1>11, <1>5, <1>6, <1>8, HoldersFinite DEF CountExact, TypeOK
<1>12. CASE k # i /\ k # w
  BY <1>12, <1>6, <1>7, <1>8, HoldersFinite DEF CountExact, TypeOK
<1> QED BY <1>10, <1>11, <1>12

\* The running thread's own count is taken or given back.
LEMMA CountThread ==
  ASSUME TypeOK, CountExact, NEW w \in Iso, NEW b \in BOOLEAN, thr[w] = ~b,
         thr' = [thr EXCEPT ![w] = b],
         count' = [count EXCEPT ![w] = IF b THEN @ + 1 ELSE @ - 1],
         UNCHANGED <<names, parent>>
  PROVE  CountExact'
<1>1. \A k \in Iso : HeldBy(k)' = HeldBy(k) /\ Children(k)' = Children(k)
  BY DEF HeldBy, Children
<1> QED BY <1>1, HoldersFinite DEF CountExact, TypeOK

\* A step that moves no holder and no count.
LEMMA CountUnchanged ==
  ASSUME CountExact, UNCHANGED <<count, names, parent, thr>>
  PROVE  CountExact'
  BY DEF CountExact, HeldBy, Children

-----------------------------------------------------------------------------
(* The stack of nested frees and discards.                                 *)

\* Every frame of the next state is a frame of this one, or f on top of t's.
OnlyPushes(t, f) ==
  \A i \in Iso : \A k \in Frames(i)' :
    \/ k \in Frames(i) /\ todo'[i][k] = todo[i][k]
    \/ i = t /\ todo'[i][k] = f

\* The two kinds of frame differ.
LEMMA FrameFacts ==
  ASSUME NEW x
  PROVE  /\ x \in Iso => FreeFrame(x) \in Frame
         /\ x \in Msg => DiscardFrame(x) \in Frame
         /\ FreeFrame(x).op = "free" /\ FreeFrame(x).arg = x
         /\ DiscardFrame(x).op = "discard" /\ DiscardFrame(x).arg = x
  BY DEF Frame, FreeFrame, DiscardFrame

\* The frames below the innermost one are left as they are.
LEMMA BelowFacts ==
  ASSUME TypeOK, NEW t \in Iso, todo[t] # <<>>
  PROVE  /\ Below(t) \in Seq(Frame) /\ Len(Below(t)) = Len(todo[t]) - 1
         /\ Len(todo[t]) \in Nat /\ Len(todo[t]) > 0
         /\ \A k \in 1 .. Len(todo[t]) - 1 : Below(t)[k] = todo[t][k]
         /\ Top(t) \in Frame
<1> DEFINE s == todo[t]
<1>1. s \in Seq(Frame) /\ s # <<>>
  BY DEF TypeOK
<1>2. Len(s) \in Nat /\ Len(s) > 0 /\ s[Len(s)] \in Frame
  BY <1>1
<1>3. /\ SubSeq(s, 1, Len(s) - 1) \in Seq(Frame)
      /\ Len(SubSeq(s, 1, Len(s) - 1)) = Len(s) - 1
      /\ \A k \in 1 .. Len(s) - 1 : SubSeq(s, 1, Len(s) - 1)[k] = s[k]
  BY <1>1, <1>2
<1> QED BY <1>2, <1>3 DEF Below, Top

\* A step that starts no free and disturbs no isolate being freed.
LEMMA FreeInvSub ==
  ASSUME FreeInv,
         ASSUME NEW i \in Iso, NEW k \in Frames(i)', FrameAt(i, k, "free")'
         PROVE  /\ k \in Frames(i) /\ todo'[i][k] = todo[i][k]
                /\ mem'[todo[i][k].arg] = "live" /\ count'[todo[i][k].arg] = 0
  PROVE  FreeInv'
<1>1. ASSUME NEW i \in Iso, NEW k \in Frames(i)', FrameAt(i, k, "free")'
      PROVE  /\ FrameAt(i, k, "free")
             /\ mem'[todo'[i][k].arg] = "live" /\ count'[todo'[i][k].arg] = 0
  BY <1>1 DEF FrameAt
<1>2. ASSUME NEW i \in Iso, NEW u \in Iso, NEW k \in Frames(i)', NEW n \in Frames(u)',
             FrameAt(i, k, "free")', FrameAt(u, n, "free")',
             todo'[i][k].arg = todo'[u][n].arg
      PROVE  i = u /\ k = n
  <2>1. /\ k \in Frames(i) /\ FrameAt(i, k, "free") /\ todo'[i][k] = todo[i][k]
        /\ n \in Frames(u) /\ FrameAt(u, n, "free") /\ todo'[u][n] = todo[u][n]
    BY <1>1, <1>2
  <2> QED BY <2>1, <1>2 DEF FreeInv
<1> QED BY <1>1, <1>2 DEF FreeInv

\* Retaining an isolate that has a holder leaves every free in progress alone.
LEMMA FreeInvRetain ==
  ASSUME TypeOK, FreeInv, NEW j \in Iso, count[j] >= 1,
         count' = [count EXCEPT ![j] = @ + 1], UNCHANGED <<mem, todo>>
  PROVE  FreeInv'
<1>1. count \in [Iso -> Nat]
  BY DEF TypeOK
<1>2. \A t \in Iso : \A k \in Frames(t) : FrameAt(t, k, "free") =>
        todo[t][k].arg \in Iso
  BY FrameFacts DEF TypeOK, Frames, FrameAt, Frame
<1>3. \A t \in Iso : \A k \in Frames(t) : FrameAt(t, k, "free") =>
        /\ mem[todo[t][k].arg] = "live" /\ count'[todo[t][k].arg] = 0
  BY <1>1, <1>2 DEF FreeInv
<1> QED BY <1>3 DEF FreeInv, Frames, FrameAt

\* Dropping a count pushes at most the free of an isolate nobody is freeing.
LEMMA ReleaseFacts ==
  ASSUME TypeOK, LiveInv, FreeInv, NEW t \in Iso, NEW j \in Iso, count[j] >= 1,
         Release(t, j, todo[t]), UNCHANGED mem
  PROVE  /\ count' = [count EXCEPT ![j] = @ - 1]
         /\ count' \in [Iso -> Nat] /\ todo' \in [Iso -> Seq(Frame)]
         /\ LiveInv' /\ FreeInv'
         /\ OnlyPushes(t, FreeFrame(j))
         /\ \A i \in Iso : i # t => todo'[i] = todo[i]
<1> DEFINE s == todo[t]
           f == FreeFrame(j)
<1>1. /\ count \in [Iso -> Nat] /\ todo \in [Iso -> Seq(Frame)] /\ s \in Seq(Frame)
      /\ f \in Frame /\ f.op = "free" /\ f.arg = j
  BY FrameFacts DEF TypeOK
<1>2. count' = [count EXCEPT ![j] = @ - 1] /\ count' \in [Iso -> Nat]
  BY <1>1 DEF Release
<1>3. LiveInv'
  BY <1>1, <1>2 DEF LiveInv
<1>4. /\ Append(s, f) \in Seq(Frame) /\ Len(Append(s, f)) = Len(s) + 1 /\ Len(s) \in Nat
      /\ \A k \in 1 .. Len(s) : Append(s, f)[k] = s[k]
      /\ Append(s, f)[Len(s) + 1] = f
  BY <1>1
<1>5. todo' \in [Iso -> Seq(Frame)] /\ \A i \in Iso : i # t => todo'[i] = todo[i]
  BY <1>1, <1>4 DEF Release
<1>6. \A i \in Iso : \A k \in Frames(i)' :
        \/ k \in Frames(i) /\ todo'[i][k] = todo[i][k]
        \/ i = t /\ k = Len(s) + 1 /\ todo'[i][k] = f /\ count[j] = 1
  BY <1>1, <1>4, <1>5 DEF Release, Frames
<1>7. OnlyPushes(t, f)
  BY <1>6 DEF OnlyPushes
<1>8. \A i \in Iso : \A k \in Frames(i) : FrameAt(i, k, "free") =>
        todo[i][k].arg \in Iso /\ todo[i][k].arg # j
  BY <1>1 DEF FreeInv, TypeOK, Frames, FrameAt, Frame
<1>9. mem[j] = "live"
  BY <1>1 DEF LiveInv
<1>10. FreeInv'
  <2>1. ASSUME NEW i \in Iso, NEW k \in Frames(i)', FrameAt(i, k, "free")'
        PROVE  mem'[todo'[i][k].arg] = "live" /\ count'[todo'[i][k].arg] = 0
    BY <2>1, <1>1, <1>2, <1>6, <1>8, <1>9, SMTT(40) DEF FreeInv, FrameAt
  <2>2. ASSUME NEW i \in Iso, NEW u \in Iso, NEW k \in Frames(i)', NEW n \in Frames(u)',
               FrameAt(i, k, "free")', FrameAt(u, n, "free")',
               todo'[i][k].arg = todo'[u][n].arg
        PROVE  i = u /\ k = n
    <3>1. CASE i = t /\ k = Len(s) + 1 /\ todo'[i][k] = f
      <4>1. ~(n \in Frames(u) /\ todo'[u][n] = todo[u][n])
        BY <3>1, <2>2, <1>1, <1>8 DEF FrameAt
      <4> QED BY <4>1, <3>1, <1>6
    <3>2. CASE k \in Frames(i) /\ todo'[i][k] = todo[i][k]
      <4>1. n \in Frames(u) /\ todo'[u][n] = todo[u][n]
        BY <3>2, <2>2, <1>1, <1>6, <1>8 DEF FrameAt
      <4>2. FrameAt(i, k, "free") /\ FrameAt(u, n, "free")
        BY <4>1, <3>2, <2>2 DEF FrameAt
      <4> QED BY <4>1, <4>2, <3>2, <2>2 DEF FreeInv
    <3> QED BY <3>1, <3>2, <1>6
  <2> QED BY <2>1, <2>2 DEF FreeInv
<1> QED BY <1>2, <1>3, <1>5, <1>7, <1>10

\* A discard is pushed.
LEMMA PushDiscard ==
  ASSUME TypeOK, FreeInv, NEW t \in Iso, NEW m \in Msg,
         todo' = [todo EXCEPT ![t] = Append(@, DiscardFrame(m))],
         UNCHANGED <<mem, count>>
  PROVE  /\ todo' \in [Iso -> Seq(Frame)]
         /\ FreeInv'
         /\ OnlyPushes(t, DiscardFrame(m))
         /\ \A i \in Iso : i # t => todo'[i] = todo[i]
<1> DEFINE s == todo[t]
           f == DiscardFrame(m)
<1>1. /\ todo \in [Iso -> Seq(Frame)] /\ s \in Seq(Frame)
      /\ f \in Frame /\ f.op = "discard" /\ f.arg = m
  BY FrameFacts DEF TypeOK
<1>2. /\ Append(s, f) \in Seq(Frame) /\ Len(Append(s, f)) = Len(s) + 1 /\ Len(s) \in Nat
      /\ \A k \in 1 .. Len(s) : Append(s, f)[k] = s[k]
      /\ Append(s, f)[Len(s) + 1] = f
  BY <1>1
<1>3. todo' \in [Iso -> Seq(Frame)] /\ \A i \in Iso : i # t => todo'[i] = todo[i]
  BY <1>1, <1>2
<1>4. \A i \in Iso : \A k \in Frames(i)' :
        \/ k \in Frames(i) /\ todo'[i][k] = todo[i][k]
        \/ i = t /\ todo'[i][k] = f
  BY <1>1, <1>2, <1>3 DEF Frames
<1>5. ASSUME NEW i \in Iso, NEW k \in Frames(i)', FrameAt(i, k, "free")'
      PROVE  /\ k \in Frames(i) /\ todo'[i][k] = todo[i][k]
             /\ mem'[todo[i][k].arg] = "live" /\ count'[todo[i][k].arg] = 0
  <2>1. k \in Frames(i) /\ todo'[i][k] = todo[i][k]
    BY <1>1, <1>4, <1>5 DEF FrameAt
  <2> QED BY <2>1, <1>5 DEF FreeInv, FrameAt
<1>6. FreeInv'
  BY <1>5, FreeInvSub
<1> QED BY <1>3, <1>4, <1>6 DEF OnlyPushes

\* The innermost frame is popped.
LEMMA PopFacts ==
  ASSUME TypeOK, NEW t \in Iso, todo[t] # <<>>, todo' = [todo EXCEPT ![t] = Below(t)]
  PROVE  /\ todo' \in [Iso -> Seq(Frame)]
         /\ \A i \in Iso : i # t => todo'[i] = todo[i]
         /\ \A i \in Iso : \A k \in Frames(i)' :
              k \in Frames(i) /\ todo'[i][k] = todo[i][k]
         /\ Len(todo[t]) \notin Frames(t)'
<1>1. todo \in [Iso -> Seq(Frame)]
  BY DEF TypeOK
<1>2. todo' \in [Iso -> Seq(Frame)] /\ \A i \in Iso : i # t => todo'[i] = todo[i]
  BY <1>1, BelowFacts
<1>3. todo'[t] = Below(t)
  BY <1>1
<1>4. /\ \A k \in Frames(t)' : k \in Frames(t) /\ todo'[t][k] = todo[t][k]
      /\ Len(todo[t]) \notin Frames(t)'
  BY <1>3, BelowFacts DEF Frames
<1> QED BY <1>2, <1>4 DEF Frames


-----------------------------------------------------------------------------
(* The operation in progress.                                              *)

\* The Thread object an operation works on keeps its isolate alive.
LEMMA OperandFacts ==
  ASSUME IInv, NEW i \in Iso, pc[i] \in Operating
  PROVE  /\ hnd[i] \in Handle /\ at[hnd[i]] = i
         /\ Target(i) \in Iso /\ names[hnd[i]] = Target(i)
         /\ count[Target(i)] >= 1 /\ mem[Target(i)] = "live"
<1>0. TypeOK /\ CountExact /\ PlacedInv /\ LiveInv /\ OperandInv
  BY DEF IInv
<1>1. hnd[i] \in Handle /\ at[hnd[i]] = i
  BY <1>0 DEF OperandInv
<1>2. names[hnd[i]] \in Iso
  BY <1>0, <1>1, IsolateAssumption DEF PlacedInv, TypeOK, Iso
<1>3. count[names[hnd[i]]] >= 1
  BY <1>0, <1>1, <1>2, HolderCounts
<1>4. mem[names[hnd[i]]] = "live"
  BY <1>0, <1>2, <1>3 DEF LiveInv, TypeOK
<1> QED BY <1>1, <1>2, <1>3, <1>4 DEF Target

\* A thread being created has one creator and has not begun.
LEMMA CreationFacts ==
  ASSUME IInv, NEW i \in Iso, pc[i] \in {"buildBoot", "spawn"}
  PROVE  /\ Target(i) \in Iso /\ Target(i) # i /\ parent[Target(i)] = i
         /\ pc[Target(i)] = "none" /\ todo[Target(i)] = <<>>
         /\ thr[Target(i)] = (pc[i] = "spawn")
         /\ pc[i] = "spawn" => boot[Target(i)] \in Msg
         /\ \A j \in Iso : pc[j] \in {"buildBoot", "spawn"} /\ j # i => Target(j) # Target(i)
<1>0. CreationInv /\ ThreadInv
  BY DEF IInv
<1>1. Target(i) \in Iso
  BY OperandFacts DEF Operating
<1>2. /\ parent[Target(i)] = i /\ pc[Target(i)] = "none"
      /\ thr[Target(i)] = (pc[i] = "spawn")
      /\ pc[i] = "spawn" => boot[Target(i)] \in Msg
  BY <1>0 DEF CreationInv
<1>3. Target(i) # i /\ todo[Target(i)] = <<>>
  BY <1>0, <1>1, <1>2 DEF ThreadInv
<1>4. \A j \in Iso : pc[j] \in {"buildBoot", "spawn"} => parent[Target(j)] = j
  BY <1>0 DEF CreationInv
<1> QED BY <1>1, <1>2, <1>3, <1>4

\* A step of a thread that is not past its last release leaves what the
\* finished threads have reached as it is.
LEMMA FinishedKept ==
  ASSUME TypeOK, FinishedInv, NEW t \in Iso, pc[t] # "left",
         \A i \in Iso : i # t => todo'[i] = todo[i] /\ pc'[i] = pc[i],
         \/ pc'[t] = pc[t]
         \/ pc'[t] \in {"run", "spin", "buildBoot"} /\ pc[t] \in {"run", "buildSend", "spawn"},
         UNCHANGED <<closed, done>>,
         \A i \in Iso : boot'[i] \in {boot[i], None},
         \A i \in Iso : pc[i] \in Finished => mailbox'[i] = mailbox[i]
  PROVE  FinishedInv'
<1>1. ASSUME NEW i \in Iso
      PROVE  /\ pc'[i] \in Finished <=> pc[i] \in Finished
             /\ pc'[i] \in Finished \cup {"teardown"} => pc[i] \in Finished \cup {"teardown"}
             /\ pc[i] \in {"none", "boot"} => pc'[i] \in {"none", "boot"}
             /\ pc'[i] = "left" => i # t /\ pc[i] = "left"
  BY <1>1 DEF Finished
<1>2. ASSUME NEW i \in Iso
      PROVE  /\ done'[i] <=> pc'[i] \in Finished
             /\ pc'[i] \in Finished \cup {"teardown"} => closed'[i]
             /\ boot'[i] # None => pc'[i] \in {"none", "boot"}
             /\ pc'[i] \in Finished => mailbox'[i] = <<>>
  BY <1>1, <1>2 DEF FinishedInv
<1>3. ASSUME NEW i \in Iso, pc'[i] = "left"
      PROVE  \A k \in Frames(i)' : FrameAt(i, k, "free")' => pc'[todo'[i][k].arg] \in Finished
  <2>1. \A k \in Frames(i) : FrameAt(i, k, "free") => todo[i][k].arg \in Iso
    BY DEF TypeOK, Frames, FrameAt, Frame
  <2> QED BY <1>1, <1>3, <2>1 DEF FinishedInv, Frames, FrameAt
<1> QED BY <1>2, <1>3 DEF FinishedInv


-----------------------------------------------------------------------------
(* One lemma per action: the action preserves the invariant.               *)

\* The running thread covers its isolate, so the new handle finds it live.
LEMMA GetCurrentStep ==
  ASSUME IInv, NEW i \in Iso, NEW h \in Handle, GetCurrent(i, h)
  PROVE  IInv'
<1>0. /\ TypeOK /\ CountExact /\ PlacedInv /\ LiveInv /\ FreeInv
      /\ ThreadInv /\ OperandInv /\ CreationInv /\ FinishedInv
  BY DEF IInv
<1>a. names[h] = None /\ count[i] >= 1
  BY <1>0, HolderCounts DEF GetCurrent, NewHandle, Idle, PlacedInv, ThreadInv
<1>1. TypeOK'
  BY <1>0
     DEF GetCurrent, mailVars, nativeVars, threadVars, Idle, NewHandle, Retained, TypeOK,
         Phase
<1>2. CountExact'
  BY <1>0, <1>a, CountNewHandle DEF GetCurrent, NewHandle, Retained, structVars, threadVars
<1>3. PlacedInv'
  BY <1>0, <1>a, IsolateAssumption
     DEF GetCurrent, NewHandle, Retained, structVars, threadVars, PlacedInv, TypeOK, Iso
<1>4. LiveInv'
  BY <1>0, <1>a DEF GetCurrent, NewHandle, Retained, structVars, threadVars, LiveInv, TypeOK
<1>5. FreeInv'
  BY <1>0, <1>a, FreeInvRetain DEF GetCurrent, NewHandle, Retained, structVars, threadVars
<1>6. ThreadInv'
  BY <1>0
     DEF GetCurrent, mailVars, nativeVars, threadVars, Idle, NewHandle, Retained,
         ThreadInv, Frames, FrameAt, TypeOK
<1>7. OperandInv'
  BY <1>0, IsolateAssumption
     DEF GetCurrent, mailVars, nativeVars, threadVars, Idle, NewHandle, Retained, TypeOK,
         OperandInv, Operating, PlacedInv
<1>8. CreationInv'
  BY <1>0, <1>a, IsolateAssumption
     DEF GetCurrent, NewHandle, Idle, threadVars, mailVars, nativeVars, Target, Retained,
         TypeOK, CreationInv, OperandInv, Operating, ThreadInv, Iso
<1>9. FinishedInv'
  BY <1>0
     DEF GetCurrent, mailVars, nativeVars, threadVars, Idle, NewHandle, Retained,
         FinishedInv, Frames, FrameAt, TypeOK
<1> QED BY <1>1, <1>2, <1>3, <1>4, <1>5, <1>6, <1>7, <1>8, <1>9 DEF IInv

\* The child's own count on its parent covers the new handle.
LEMMA GetParentStep ==
  ASSUME IInv, NEW i \in Iso, NEW h \in Handle, GetParent(i, h)
  PROVE  IInv'
<1>0. /\ TypeOK /\ CountExact /\ PlacedInv /\ LiveInv /\ FreeInv
      /\ ThreadInv /\ OperandInv /\ CreationInv /\ FinishedInv
  BY DEF IInv
<1>a. names[h] = None /\ parent[i] \in Iso /\ count[parent[i]] >= 1
  BY <1>0, HolderCounts DEF GetParent, NewHandle, PlacedInv, TypeOK
<1>1. TypeOK'
  BY <1>0
     DEF GetParent, mailVars, nativeVars, threadVars, Idle, NewHandle, Retained, TypeOK,
         Phase
<1>2. CountExact'
  BY <1>0, <1>a, CountNewHandle DEF GetParent, NewHandle, Retained, structVars, threadVars
<1>3. PlacedInv'
  BY <1>0, <1>a, IsolateAssumption
     DEF GetParent, NewHandle, Retained, structVars, threadVars, PlacedInv, TypeOK, Iso
<1>4. LiveInv'
  BY <1>0, <1>a DEF GetParent, NewHandle, Retained, structVars, threadVars, LiveInv, TypeOK
<1>5. FreeInv'
  BY <1>0, <1>a, FreeInvRetain DEF GetParent, NewHandle, Retained, structVars, threadVars
<1>6. ThreadInv'
  BY <1>0
     DEF GetParent, mailVars, nativeVars, threadVars, Idle, NewHandle, Retained, ThreadInv,
         Frames, FrameAt, TypeOK
<1>7. OperandInv'
  BY <1>0, IsolateAssumption
     DEF GetParent, mailVars, nativeVars, threadVars, Idle, NewHandle, Retained, TypeOK,
         OperandInv, Operating, PlacedInv
<1>8. CreationInv'
  BY <1>0, <1>a, IsolateAssumption
     DEF GetParent, NewHandle, Idle, threadVars, mailVars, nativeVars, Target, Retained,
         TypeOK, CreationInv, OperandInv, Operating, ThreadInv, Iso
<1>9. FinishedInv'
  BY <1>0
     DEF GetParent, mailVars, nativeVars, threadVars, Idle, NewHandle, Retained,
         FinishedInv, Frames, FrameAt, TypeOK
<1> QED BY <1>1, <1>2, <1>3, <1>4, <1>5, <1>6, <1>7, <1>8, <1>9 DEF IInv

\* The dying handle held a count, so none goes negative.
LEMMA DropStep ==
  ASSUME IInv, NEW i \in Iso, NEW h \in Handle, Drop(i, h)
  PROVE  IInv'
<1>0. /\ TypeOK /\ CountExact /\ PlacedInv /\ LiveInv /\ FreeInv
      /\ ThreadInv /\ OperandInv /\ CreationInv /\ FinishedInv
  BY DEF IInv
<1>a. at[h] = i /\ pc[i] = "run"
  BY <1>0 DEF Drop, Idle
<1>b. h \in Handle /\ names[h] \in Iso /\ count[names[h]] >= 1
  BY <1>0, <1>a, HolderCounts, IsolateAssumption DEF PlacedInv, TypeOK, Iso
<1>c. /\ count' = [count EXCEPT ![names[h]] = @ - 1]
      /\ count' \in [Iso -> Nat] /\ todo' \in [Iso -> Seq(Frame)]
      /\ LiveInv' /\ FreeInv' /\ OnlyPushes(i, FreeFrame(names[h]))
      /\ \A j \in Iso : j # i => todo'[j] = todo[j]
  BY <1>0, <1>b, ReleaseFacts DEF Drop, HandleDies
<1>d. \A j \in Iso : pc[j] \in Operating => hnd[j] # h /\ hnd[j] \in Handle
  BY <1>0, <1>a, IsolateAssumption DEF OperandInv, Operating, TypeOK, Iso
<1>1. TypeOK'
  BY <1>0, <1>c DEF Drop, HandleDies, structVars, mailVars, nativeVars, TypeOK
<1>2. CountExact'
  BY <1>0, <1>b, <1>c, CountHandleDies DEF Drop, HandleDies
<1>3. PlacedInv'
  BY <1>0 DEF Drop, mailVars, nativeVars, Idle, HandleDies, Release, TypeOK, PlacedInv
<1>4. LiveInv'
  BY <1>c
<1>5. FreeInv'
  BY <1>c
<1>6. ThreadInv'
  BY <1>0, <1>a, <1>c, FrameFacts, SMTT(40)
     DEF Drop, HandleDies, structVars, mailVars, nativeVars, TypeOK, ThreadInv, OnlyPushes,
         Frames, FrameAt
<1>7. OperandInv'
  BY <1>0, <1>d
     DEF Drop, HandleDies, structVars, mailVars, nativeVars, TypeOK, OperandInv, Operating
<1>8. CreationInv'
  <2>1. \A j \in Iso : pc[j] \in {"buildBoot", "spawn"} => Target(j)' = Target(j)
    BY <1>0, <1>d DEF Drop, HandleDies, Target, TypeOK, Operating
  <2>2. UNCHANGED <<mem, parent, thr, boot, pc>>
    BY DEF Drop, HandleDies, structVars, mailVars, nativeVars
  <2> QED BY <2>1, <2>2, <1>0 DEF CreationInv
<1>9. FinishedInv'
  BY <1>0, <1>a, <1>c, FinishedKept DEF Drop, mailVars, nativeVars
<1> QED BY <1>1, <1>2, <1>3, <1>4, <1>5, <1>6, <1>7, <1>8, <1>9 DEF IInv

\* A fresh isolate had no holders; its creator runs and so is live.
LEMMA StartCreateStep ==
  ASSUME IInv, NEW i \in Iso, NEW w \in Worker, NEW h \in Handle, NEW m \in Msg, StartCreate(i, w, h, m)
  PROVE  IInv'
<1>0. /\ TypeOK /\ CountExact /\ PlacedInv /\ LiveInv /\ FreeInv
      /\ ThreadInv /\ OperandInv /\ CreationInv /\ FinishedInv
  BY DEF IInv
<1>a. /\ w \in Iso /\ w # i /\ i # None /\ m # None
      /\ names[h] = None /\ count[w] = 0 /\ parent[w] = None /\ ~thr[w] /\ pc[w] = "none"
      /\ thr[i] /\ mem[i] = "live" /\ count[i] >= 1
  <2>1. w \in Iso /\ names[h] = None /\ count[w] = 0 /\ parent[w] = None /\ ~thr[w] /\ pc[w] = "none"
    BY <1>0 DEF StartCreate, NewHandle, PlacedInv, LiveInv, CreationInv, Iso
  <2>2. pc[i] = "run" /\ thr[i] /\ count[i] >= 1
    BY <1>0, HolderCounts DEF StartCreate, Idle, ThreadInv
  <2>3. mem[i] = "live"
    BY <2>2, <1>0 DEF LiveInv
  <2> QED BY <2>1, <2>2, <2>3, IsolateAssumption
<1>1. TypeOK'
  <2>1. mem' \in [Iso -> {"unborn", "live", "freed"}] /\ count' \in [Iso -> Nat]
    <3>1. count' = [count EXCEPT ![w] = 1, ![i] = @ + 1] /\ mem' = [mem EXCEPT ![w] = "live"]
      BY DEF StartCreate
    <3>2. count \in [Iso -> Nat] /\ mem \in [Iso -> {"unborn", "live", "freed"}]
      BY <1>0 DEF TypeOK
    <3>3. count[i] + 1 \in Nat
      BY <3>2
    <3> QED BY <3>1, <3>2, <3>3, <1>a
  <2>2. parent' \in [Iso -> Iso \cup {None}] /\ names' \in [Handle -> Iso \cup {None}]
    BY <1>0, <1>a DEF StartCreate, NewHandle, TypeOK
  <2>3. at' \in [Handle -> Iso \cup Msg \cup {None}]
    BY <1>0, <1>a DEF StartCreate, NewHandle, TypeOK
  <2>4. /\ inuse' \subseteq Msg /\ out' \in [Iso -> Msg \cup {None}]
        /\ hnd' \in [Iso -> Handle \cup {None}] /\ pc' \in [Iso -> Phase]
    BY <1>0 DEF StartCreate, Goto, TypeOK, Phase
  <2> QED BY <2>1, <2>2, <2>3, <2>4, <1>0 DEF StartCreate, nativeVars, TypeOK
<1>2. CountExact'
  BY <1>0, <1>a, CountStart DEF StartCreate, NewHandle
<1>3. PlacedInv'
  BY <1>0, <1>a, IsolateAssumption
     DEF StartCreate, NewHandle, Goto, nativeVars, PlacedInv, TypeOK
<1>4. LiveInv'
  BY <1>0, <1>a DEF StartCreate, NewHandle, Goto, nativeVars, LiveInv, TypeOK
<1>5. FreeInv'
  <2>1. ASSUME NEW t \in Iso, NEW k \in Frames(t), FrameAt(t, k, "free")
        PROVE  todo[t][k].arg \notin {i, w} /\ todo[t][k].arg \in Iso
    <3>1. mem[todo[t][k].arg] = "live" /\ count[todo[t][k].arg] = 0
      BY <1>0, <2>1 DEF FreeInv
    <3>2. todo[t][k].arg \in Iso
      BY <1>0, <2>1 DEF TypeOK, Frames, FrameAt, Frame
    <3>3. mem[w] = "unborn"
      BY DEF StartCreate
    <3> QED BY <3>1, <3>2, <3>3, <1>a
  <2>2. UNCHANGED todo
    BY DEF StartCreate
  <2>3. ASSUME NEW t \in Iso, NEW k \in Frames(t)', FrameAt(t, k, "free")'
        PROVE  /\ k \in Frames(t) /\ todo'[t][k] = todo[t][k]
               /\ mem'[todo[t][k].arg] = "live" /\ count'[todo[t][k].arg] = 0
    BY <2>1, <2>2, <2>3, <1>0 DEF Frames, FrameAt, FreeInv, StartCreate, TypeOK
  <2> QED BY <2>3, <1>0, FreeInvSub
<1>6. ThreadInv'
  BY <1>0
     DEF StartCreate, nativeVars, Idle, Goto, NewHandle, ThreadInv, Frames, FrameAt,
         TypeOK
<1>7. OperandInv'
  BY <1>0, IsolateAssumption
     DEF StartCreate, nativeVars, Idle, Goto, NewHandle, TypeOK, OperandInv, Operating,
         PlacedInv
<1>8. CreationInv'
  BY <1>0, <1>a, IsolateAssumption
     DEF StartCreate, NewHandle, Idle, Goto, threadVars, mailVars, nativeVars, Target,
         Retained, TypeOK, CreationInv, OperandInv, Operating, ThreadInv, Iso
<1>9. FinishedInv'
  <2>1. /\ pc[i] = "run" /\ pc' = [pc EXCEPT ![i] = "buildBoot"]
        /\ UNCHANGED <<todo, closed, done, boot, mailbox>>
    BY DEF StartCreate, Idle, Goto, nativeVars
  <2>2. pc'[i] = "buildBoot" /\ \A j \in Iso : j # i => pc'[j] = pc[j]
    BY <2>1, <1>0 DEF TypeOK
  <2> QED BY <2>1, <2>2, <1>0, FinishedKept
<1> QED BY <1>1, <1>2, <1>3, <1>4, <1>5, <1>6, <1>7, <1>8, <1>9 DEF IInv

\* The copied handle keeps its isolate live while the copy takes a count.
LEMMA CopyHandleStep ==
  ASSUME IInv, NEW i \in Iso, NEW h \in Handle, NEW h2 \in Handle, CopyHandle(i, h, h2)
  PROVE  IInv'
<1>0. /\ TypeOK /\ CountExact /\ PlacedInv /\ LiveInv /\ FreeInv
      /\ ThreadInv /\ OperandInv /\ CreationInv /\ FinishedInv
  BY DEF IInv
<1>a. names[h2] = None /\ names[h] \in Iso /\ count[names[h]] >= 1 /\ out[i] \in Msg
  BY <1>0, HolderCounts, IsolateAssumption
     DEF CopyHandle, NewHandle, PlacedInv, OperandInv, TypeOK, Iso
<1>1. TypeOK'
  BY <1>0, <1>a
     DEF CopyHandle, NewHandle, Retained, structVars, threadVars, structVars, handleVars,
         mailVars, nativeVars, threadVars, TypeOK
<1>2. CountExact'
  BY <1>0, <1>a, CountNewHandle DEF CopyHandle, NewHandle, Retained, structVars, threadVars
<1>3. PlacedInv'
  BY <1>0, <1>a, IsolateAssumption
     DEF CopyHandle, NewHandle, Retained, structVars, threadVars, PlacedInv, TypeOK, Iso
<1>4. LiveInv'
  BY <1>0, <1>a DEF CopyHandle, NewHandle, Retained, structVars, threadVars, LiveInv, TypeOK
<1>5. FreeInv'
  BY <1>0, <1>a, FreeInvRetain DEF CopyHandle, NewHandle, Retained, structVars, threadVars
<1>6. ThreadInv'
  BY <1>0
     DEF CopyHandle, mailVars, nativeVars, threadVars, NewHandle, Retained, ThreadInv,
         Frames, FrameAt, TypeOK
<1>7. OperandInv'
  BY <1>0, IsolateAssumption
     DEF CopyHandle, mailVars, nativeVars, threadVars, NewHandle, Retained, TypeOK,
         OperandInv, Operating, PlacedInv
<1>8. CreationInv'
  BY <1>0, <1>a, IsolateAssumption
     DEF CopyHandle, NewHandle, threadVars, mailVars, nativeVars, Target, Retained, TypeOK,
         CreationInv, OperandInv, Operating, ThreadInv, Iso
<1>9. FinishedInv'
  BY <1>0
     DEF CopyHandle, mailVars, nativeVars, threadVars, NewHandle, Retained, FinishedInv,
         Frames, FrameAt, TypeOK
<1> QED BY <1>1, <1>2, <1>3, <1>4, <1>5, <1>6, <1>7, <1>8, <1>9 DEF IInv

\* The partial copy moves into the builder's heap; no count changes.
LEMMA BuildFailStep ==
  ASSUME IInv, NEW i \in Iso, BuildFail(i)
  PROVE  IInv'
<1>0. /\ TypeOK /\ CountExact /\ PlacedInv /\ LiveInv /\ FreeInv
      /\ ThreadInv /\ OperandInv /\ CreationInv /\ FinishedInv
  BY DEF IInv
<1>a. out[i] \in Msg
  BY <1>0 DEF BuildFail, OperandInv
<1>1. TypeOK'
  BY <1>0 DEF BuildFail, structVars, nativeVars, Goto, Adopt, TypeOK, Phase
<1>2. CountExact'
  BY <1>0, CountUnchanged DEF BuildFail, structVars
<1>3. PlacedInv'
  BY <1>0, <1>a, IsolateAssumption DEF BuildFail, Adopt, PlacedInv, TypeOK
<1>4. LiveInv'
  BY <1>0 DEF BuildFail, structVars, nativeVars, Goto, Adopt, LiveInv
<1>5. FreeInv'
  BY <1>0 DEF BuildFail, structVars, nativeVars, Goto, Adopt, FreeInv, Frames, FrameAt
<1>6. ThreadInv'
  BY <1>0
     DEF BuildFail, structVars, nativeVars, Goto, Adopt, ThreadInv, Frames, FrameAt,
         TypeOK
<1>7. OperandInv'
  BY <1>0, IsolateAssumption
     DEF BuildFail, structVars, nativeVars, Goto, Adopt, TypeOK, OperandInv, Operating,
         PlacedInv
<1>8. CreationInv'
  BY <1>0 DEF BuildFail, structVars, nativeVars, Goto, Adopt, CreationInv, TypeOK, Target
<1>9. FinishedInv'
  BY <1>0
     DEF BuildFail, structVars, nativeVars, Goto, Adopt, TypeOK, FinishedInv, Finished,
         Frames, FrameAt, CreationInv, OperandInv, Operating, ThreadInv
<1> QED BY <1>1, <1>2, <1>3, <1>4, <1>5, <1>6, <1>7, <1>8, <1>9 DEF IInv

\* The new thread's count is taken while this still holds the isolate.
LEMMA BootReadyStep ==
  ASSUME IInv, NEW i \in Iso, BootReady(i)
  PROVE  IInv'
<1>0. /\ TypeOK /\ CountExact /\ PlacedInv /\ LiveInv /\ FreeInv
      /\ ThreadInv /\ OperandInv /\ CreationInv /\ FinishedInv
  BY DEF IInv
<1>a. /\ Target(i) \in Iso /\ Target(i) # i /\ hnd[i] \in Handle /\ names[hnd[i]] = Target(i) /\ out[i] \in Msg
      /\ ~thr[Target(i)] /\ parent[Target(i)] = i /\ pc[Target(i)] = "none"
  BY <1>0, OperandFacts, CreationFacts DEF BootReady, Operating, OperandInv
<1>b. count[Target(i)] >= 1 /\ mem[Target(i)] = "live"
  BY <1>0, OperandFacts DEF BootReady, Operating
<1>1. TypeOK'
  BY <1>0, <1>a DEF BootReady, Retained, Goto, handleVars, structVars, TypeOK, Phase
<1>2. CountExact'
  <2>1. /\ thr' = [thr EXCEPT ![Target(i)] = TRUE]
        /\ count' = [count EXCEPT ![Target(i)] = IF TRUE THEN @ + 1 ELSE @ - 1]
        /\ UNCHANGED <<names, parent>> /\ thr[Target(i)] = ~TRUE
    BY <1>0, <1>a DEF BootReady, Retained, handleVars, TypeOK
  <2> QED BY <2>1, <1>0, <1>a, CountThread
<1>3. PlacedInv'
  BY <1>0 DEF BootReady, handleVars, Goto, Target, Retained, PlacedInv
<1>4. LiveInv'
  BY <1>0, <1>a, <1>b DEF BootReady, Retained, Goto, handleVars, structVars, LiveInv, TypeOK
<1>5. FreeInv'
  BY <1>0, <1>a, <1>b, FreeInvRetain DEF BootReady, Retained, Goto, handleVars, structVars
<1>6. ThreadInv'
  BY <1>0, <1>a
     DEF BootReady, Retained, Goto, handleVars, structVars, TypeOK, ThreadInv, Frames,
         FrameAt
<1>7. OperandInv'
  BY <1>0
     DEF BootReady, handleVars, Goto, Target, Retained, TypeOK, OperandInv, Operating,
         PlacedInv
<1>8. CreationInv'
  <2> DEFINE w == Target(i)
  <2>1. /\ thr' = [thr EXCEPT ![w] = TRUE] /\ boot' = [boot EXCEPT ![w] = out[i]]
        /\ pc' = [pc EXCEPT ![i] = "spawn"] /\ UNCHANGED <<mem, parent, names, hnd>>
        /\ pc[i] = "buildBoot"
    BY DEF BootReady, Goto, handleVars
  <2>2. \A j \in Iso : Target(j)' = Target(j)
    BY <2>1 DEF Target
  <2>3. /\ \A j \in Iso : pc'[j] = IF j = i THEN "spawn" ELSE pc[j]
        /\ thr'[w] = TRUE /\ \A j \in Iso : j # w => thr'[j] = thr[j]
        /\ \A j \in Iso : boot'[j] = IF j = w THEN out[i] ELSE boot[j]
    BY <2>1, <1>0, <1>a DEF TypeOK
  <2>4. ASSUME NEW j \in Iso, pc'[j] \in {"buildBoot", "spawn"}
        PROVE  /\ parent[Target(j)] = j
               /\ pc'[Target(j)] = "none"
               /\ thr'[Target(j)] = (pc'[j] = "spawn")
               /\ pc'[j] = "spawn" => boot'[Target(j)] \in Msg
    <3>1. CASE j = i
      <4>1. thr'[w] = TRUE /\ pc'[i] = "spawn" /\ boot'[w] = out[i] /\ pc'[w] = pc[w]
        BY <2>3, <1>a
      <4> QED BY <3>1, <4>1, <1>a
    <3>2. CASE j # i
      <4>1. pc[j] = pc'[j]
        BY <3>2, <2>3
      <4>2. /\ Target(j) \in Iso /\ Target(j) # w /\ Target(j) # i
            /\ parent[Target(j)] = j /\ pc[Target(j)] = "none"
            /\ thr[Target(j)] = (pc[j] = "spawn")
            /\ pc[j] = "spawn" => boot[Target(j)] \in Msg
        BY <3>2, <4>1, <2>1, <2>4, <1>a, CreationFacts
      <4> QED BY <4>1, <4>2, <2>3
    <3> QED BY <3>1, <3>2
  <2>5. ASSUME NEW j \in Iso
        PROVE  /\ pc'[j] = "boot" => boot'[j] \in Msg
               /\ parent[j] # None => pc'[parent[j]] # "none"
               /\ mem[j] = "unborn" => pc'[j] = "none" /\ ~thr'[j] /\ parent[j] = None
    BY <2>1, <1>0, <1>a, <1>b DEF TypeOK, CreationInv
  <2>6. UNCHANGED <<mem, parent>>
    BY <2>1
  <2> HIDE DEF w
  <2> QED BY <2>2, <2>4, <2>5, <2>6 DEF CreationInv
<1>9. FinishedInv'
  BY <1>0
     DEF BootReady, handleVars, Goto, Target, Retained, TypeOK, FinishedInv, Finished,
         Frames, FrameAt, CreationInv, OperandInv, Operating, ThreadInv
<1> QED BY <1>1, <1>2, <1>3, <1>4, <1>5, <1>6, <1>7, <1>8, <1>9 DEF IInv

\* The new thread starts covered, with an open mailbox.
LEMMA SpawnOkStep ==
  ASSUME IInv, NEW i \in Iso, SpawnOk(i)
  PROVE  IInv'
<1>0. /\ TypeOK /\ CountExact /\ PlacedInv /\ LiveInv /\ FreeInv
      /\ ThreadInv /\ OperandInv /\ CreationInv /\ FinishedInv
  BY DEF IInv
<1>a. /\ Target(i) \in Iso /\ Target(i) # i /\ thr[Target(i)] = TRUE /\ pc[Target(i)] = "none"
      /\ boot[Target(i)] \in Msg /\ parent[Target(i)] = i /\ todo[Target(i)] = <<>>
  BY <1>0, CreationFacts DEF SpawnOk
<1>b. \A j \in Iso : j # i /\ pc[j] \in {"buildBoot", "spawn"} => Target(j) # Target(i)
  BY CreationFacts DEF SpawnOk
<1>c. pc' = [pc EXCEPT ![i] = "launch", ![Target(i)] = "boot"] /\ pc[i] = "spawn"
      /\ UNCHANGED <<structVars, handleVars, mailVars, nativeVars, hnd, out, todo>>
  BY DEF SpawnOk
<1>d. \A j \in Iso : Target(j)' = Target(j)
  BY <1>c DEF Target, handleVars
<1>1. TypeOK'
  BY <1>0 DEF SpawnOk, structVars, handleVars, mailVars, nativeVars, Target, TypeOK, Phase
<1>2. CountExact'
  BY <1>0, CountUnchanged DEF SpawnOk, structVars, handleVars
<1>3. PlacedInv'
  BY <1>0 DEF SpawnOk, structVars, handleVars, mailVars, nativeVars, Target, PlacedInv
<1>4. LiveInv'
  BY <1>0 DEF SpawnOk, structVars, handleVars, mailVars, nativeVars, Target, LiveInv
<1>5. FreeInv'
  BY <1>0
     DEF SpawnOk, structVars, handleVars, mailVars, nativeVars, Target, FreeInv, Frames,
         FrameAt
<1>6. ThreadInv'
  BY <1>0, <1>a, <1>c DEF structVars, TypeOK, ThreadInv, Frames, FrameAt
<1>7. OperandInv'
  BY <1>0
     DEF SpawnOk, structVars, handleVars, mailVars, nativeVars, Target, TypeOK, OperandInv,
         Operating, PlacedInv
<1>8. CreationInv'
  <2> DEFINE w == Target(i)
  <2>1. \A j \in Iso : pc'[j] = IF j = w THEN "boot" ELSE IF j = i THEN "launch" ELSE pc[j]
    BY <1>0, <1>a, <1>c DEF TypeOK
  <2>2. ASSUME NEW j \in Iso
        PROVE  /\ pc'[j] \in {"buildBoot", "spawn"} => j # i /\ j # w /\ pc[j] = pc'[j]
               /\ (pc'[j] = "none") <=> (j # w /\ pc[j] = "none")
    <3>1. CASE j = w
      BY <3>1, <2>1, <1>a
    <3>2. CASE j = i
      <4>1. pc'[i] = "launch" /\ i # w
        BY <2>1, <1>a
      <4> QED BY <3>2, <4>1, <1>c
    <3>3. CASE j # w /\ j # i
      BY <3>3, <2>1
    <3> QED BY <3>1, <3>2, <3>3
  <2>3. UNCHANGED <<mem, parent, thr, boot>>
    BY <1>c DEF structVars, mailVars
  <2>4. ASSUME NEW j \in Iso, pc'[j] \in {"buildBoot", "spawn"}
        PROVE  Target(j) \in Iso /\ Target(j) # w
    BY <2>2, <2>4, <1>0, <1>b, IsolateAssumption
       DEF CreationInv, OperandInv, Operating, PlacedInv, TypeOK, Target, Iso
  <2>5. ASSUME NEW j \in Iso
        PROVE  /\ pc'[j] \in {"buildBoot", "spawn"} =>
                    /\ parent[Target(j)] = j
                    /\ pc'[Target(j)] = "none"
                    /\ thr[Target(j)] = (pc'[j] = "spawn")
               /\ pc'[j] = "spawn" => boot[Target(j)] \in Msg
    BY <2>2, <2>4, <1>0 DEF CreationInv
  <2>6. ASSUME NEW j \in Iso
        PROVE  /\ pc'[j] = "boot" => boot[j] \in Msg
               /\ parent[j] # None => pc'[parent[j]] # "none"
               /\ mem[j] = "unborn" => pc'[j] = "none" /\ ~thr[j] /\ parent[j] = None
    BY <2>1, <2>2, <1>0, <1>a, <1>c DEF CreationInv, TypeOK
  <2> HIDE DEF w
  <2> QED BY <2>3, <2>5, <2>6, <1>d DEF CreationInv
<1>9. FinishedInv'
  <2> DEFINE w == Target(i)
  <2>1. \A j \in Iso : pc'[j] = IF j = w THEN "boot" ELSE IF j = i THEN "launch" ELSE pc[j]
    BY <1>0, <1>a, <1>c DEF TypeOK
  <2>2. ASSUME NEW j \in Iso
        PROVE  /\ (pc'[j] \in Finished) <=> (pc[j] \in Finished)
               /\ (pc'[j] = "teardown") <=> (pc[j] = "teardown")
               /\ (pc'[j] = "left") <=> (pc[j] = "left")
               /\ pc[j] \in {"none", "boot"} => pc'[j] \in {"none", "boot"}
    <3>1. CASE j = w
      BY <3>1, <2>1, <1>a DEF Finished
    <3>2. CASE j = i
      <4>1. pc[i] = "spawn" /\ pc'[i] = "launch"
        BY <2>1, <1>a, <1>c
      <4> QED BY <3>2, <4>1 DEF Finished
    <3>3. CASE j # w /\ j # i
      BY <3>3, <2>1
    <3> QED BY <3>1, <3>2, <3>3
  <2>3. UNCHANGED <<mailbox, closed, boot, done, todo>>
    BY <1>c DEF mailVars, nativeVars
  <2>4. \A j \in Iso : \A k \in Frames(j) : FrameAt(j, k, "free") => todo[j][k].arg \in Iso
    BY <1>0 DEF TypeOK, Frames, FrameAt, Frame
  <2> HIDE DEF w
  <2>5. ASSUME NEW j \in Iso, pc'[j] = "left"
        PROVE  \A k \in Frames(j)' : FrameAt(j, k, "free")' => pc'[todo'[j][k].arg] \in Finished
    BY <2>2, <2>3, <2>4, <2>5, <1>0 DEF FinishedInv, Frames, FrameAt
  <2>6. ASSUME NEW j \in Iso
        PROVE  /\ done'[j] <=> pc'[j] \in Finished
               /\ pc'[j] \in Finished \cup {"teardown"} => closed'[j]
               /\ boot'[j] # None => pc'[j] \in {"none", "boot"}
               /\ pc'[j] \in Finished => mailbox'[j] = <<>>
    BY <2>2, <2>3, <1>0 DEF FinishedInv
  <2> QED BY <2>5, <2>6 DEF FinishedInv
<1> QED BY <1>1, <1>2, <1>3, <1>4, <1>5, <1>6, <1>7, <1>8, <1>9 DEF IInv

\* The count of the thread that never came to be is given back.
LEMMA SpawnFailStep ==
  ASSUME IInv, NEW i \in Iso, SpawnFail(i)
  PROVE  IInv'
<1>0. /\ TypeOK /\ CountExact /\ PlacedInv /\ LiveInv /\ FreeInv
      /\ ThreadInv /\ OperandInv /\ CreationInv /\ FinishedInv
  BY DEF IInv
<1> DEFINE w == Target(i)
<1>a. /\ w \in Iso /\ w # i /\ hnd[i] \in Handle /\ names[hnd[i]] = w /\ thr[w] = TRUE
      /\ pc[w] = "none" /\ parent[w] = i /\ pc[i] = "spawn" /\ todo[i] = <<>>
  <2>1. pc[i] = "spawn" /\ todo[i] = <<>>
    BY <1>0 DEF SpawnFail, ThreadInv
  <2> QED BY <2>1, OperandFacts, CreationFacts DEF Operating
<1>b. /\ thr' = [thr EXCEPT ![w] = FALSE] /\ pc' = [pc EXCEPT ![i] = "run"]
      /\ hnd' = [hnd EXCEPT ![i] = None] /\ Release(i, w, todo[i])
      /\ UNCHANGED <<mem, parent, handleVars, mailVars, nativeVars, out>>
  BY DEF SpawnFail, Goto
<1>c. count[w] >= 1
  BY <1>0, <1>a, HolderCounts
<1>d. /\ count' = [count EXCEPT ![w] = @ - 1]
      /\ count' \in [Iso -> Nat] /\ todo' \in [Iso -> Seq(Frame)]
      /\ LiveInv' /\ FreeInv' /\ OnlyPushes(i, FreeFrame(w))
      /\ \A j \in Iso : j # i => todo'[j] = todo[j]
  BY <1>0, <1>a, <1>b, <1>c, ReleaseFacts
<1> HIDE DEF w
<1>1. TypeOK'
  <2>1. hnd' \in [Iso -> Handle \cup {None}] /\ pc' \in [Iso -> Phase] /\ thr' \in [Iso -> BOOLEAN]
    BY <1>0, <1>b DEF TypeOK, Phase
  <2>2. isoCount' \in Int
    BY <1>0 DEF SpawnFail, TypeOK
  <2> QED BY <2>1, <2>2, <1>0, <1>b, <1>d DEF handleVars, mailVars, nativeVars, TypeOK
<1>2. CountExact'
  BY <1>0, <1>a, <1>b, <1>d, CountThread DEF handleVars
<1>3. PlacedInv'
  BY <1>0 DEF SpawnFail, handleVars, mailVars, nativeVars, Goto, Target, Release, PlacedInv
<1>4. LiveInv'
  BY <1>d
<1>5. FreeInv'
  BY <1>d
<1>6. ThreadInv'
  BY <1>0, <1>a, <1>b, <1>d, FrameFacts, SMTT(40)
     DEF TypeOK, ThreadInv, OnlyPushes, Frames, FrameAt
<1>7. OperandInv'
  BY <1>0
     DEF SpawnFail, handleVars, mailVars, nativeVars, Goto, Target, Release, TypeOK,
         OperandInv, Operating, PlacedInv
<1>8. CreationInv'
  <2>1. ASSUME NEW j \in Iso, pc'[j] \in {"buildBoot", "spawn"}
        PROVE  j # i /\ pc[j] = pc'[j]
    BY <1>0, <1>b, <2>1 DEF TypeOK
  <2>2. ASSUME NEW j \in Iso, pc'[j] \in {"buildBoot", "spawn"}
        PROVE  Target(j) # w /\ Target(j) # i /\ Target(j) \in Iso /\ Target(j)' = Target(j)
    <3>1. j # i /\ pc[j] \in {"buildBoot", "spawn"}
      BY <2>1, <2>2
    <3>2. Target(j) \in Iso /\ pc[Target(j)] = "none" /\ parent[Target(j)] = j
      BY <3>1, CreationFacts
    <3>3. Target(j)' = Target(j)
      BY <3>1, <1>0, <1>b DEF Target, handleVars, TypeOK
    <3> QED BY <3>1, <3>2, <3>3, <1>a
  <2>3. ASSUME NEW j \in Iso, pc'[j] \in {"buildBoot", "spawn"}
        PROVE  /\ parent'[Target(j)'] = j
               /\ pc'[Target(j)'] = "none"
               /\ thr'[Target(j)'] = (pc'[j] = "spawn")
               /\ pc'[j] = "spawn" => boot'[Target(j)'] \in Msg
    <3>1. pc'[Target(j)] = pc[Target(j)] /\ thr'[Target(j)] = thr[Target(j)]
      BY <2>2, <2>3, <1>0, <1>b DEF TypeOK
    <3>2. pc[j] \in {"buildBoot", "spawn"} /\ pc[j] = pc'[j]
      BY <2>1, <2>3
    <3>3. UNCHANGED <<parent, boot>> /\ Target(j)' = Target(j)
      BY <2>2, <2>3, <1>b DEF mailVars
    <3> QED BY <3>1, <3>2, <3>3, <1>0 DEF CreationInv
  <2>4. ASSUME NEW j \in Iso
        PROVE  /\ pc'[j] = "boot" => boot'[j] \in Msg
               /\ parent'[j] # None => pc'[parent'[j]] # "none"
               /\ mem'[j] = "unborn" => pc'[j] = "none" /\ ~thr'[j] /\ parent'[j] = None
    BY <1>0, <1>a, <1>b DEF CreationInv, TypeOK, mailVars
  <2> QED BY <2>3, <2>4 DEF CreationInv
<1>9. FinishedInv'
  <2>1. pc'[i] = "run" /\ \A j \in Iso : j # i => pc'[j] = pc[j]
    BY <1>0, <1>b DEF TypeOK
  <2>2. UNCHANGED <<closed, done, boot, mailbox>>
    BY <1>b DEF mailVars, nativeVars
  <2> QED BY <2>1, <2>2, <1>0, <1>a, <1>d, FinishedKept
<1> QED BY <1>1, <1>2, <1>3, <1>4, <1>5, <1>6, <1>7, <1>8, <1>9 DEF IInv

\* Setting the launched flag disturbs nothing.
LEMMA LaunchedStep ==
  ASSUME IInv, NEW i \in Iso, Launched(i)
  PROVE  IInv'
<1>0. /\ TypeOK /\ CountExact /\ PlacedInv /\ LiveInv /\ FreeInv
      /\ ThreadInv /\ OperandInv /\ CreationInv /\ FinishedInv
  BY DEF IInv
<1>1. TypeOK'
  BY <1>0 DEF Launched, structVars, handleVars, mailVars, Goto, Target, TypeOK, Phase
<1>2. CountExact'
  BY <1>0, CountUnchanged DEF Launched, structVars, handleVars
<1>3. PlacedInv'
  BY <1>0 DEF Launched, structVars, handleVars, mailVars, Goto, Target, PlacedInv
<1>4. LiveInv'
  BY <1>0 DEF Launched, structVars, handleVars, mailVars, Goto, Target, LiveInv
<1>5. FreeInv'
  <2>1. UNCHANGED <<mem, count, todo>>
    BY DEF Launched, structVars
  <2> QED BY <2>1, <1>0 DEF FreeInv, Frames, FrameAt
<1>6. ThreadInv'
  BY <1>0
     DEF Launched, structVars, handleVars, mailVars, Goto, Target, ThreadInv, Frames,
         FrameAt, TypeOK
<1>7. OperandInv'
  BY <1>0
     DEF Launched, structVars, handleVars, mailVars, Goto, Target, TypeOK, OperandInv,
         Operating, PlacedInv
<1>8. CreationInv'
  BY <1>0 DEF Launched, structVars, handleVars, mailVars, Goto, Target, CreationInv, TypeOK
<1>9. FinishedInv'
  BY <1>0
     DEF Launched, structVars, handleVars, mailVars, Goto, Target, TypeOK, FinishedInv,
         Finished, Frames, FrameAt, CreationInv, OperandInv, Operating, ThreadInv
<1> QED BY <1>1, <1>2, <1>3, <1>4, <1>5, <1>6, <1>7, <1>8, <1>9 DEF IInv

\* A build begins on a handle in the sender's heap.
LEMMA SendBeginStep ==
  ASSUME IInv, NEW i \in Iso, NEW h \in Handle, NEW m \in Msg, SendBegin(i, h, m)
  PROVE  IInv'
<1>0. /\ TypeOK /\ CountExact /\ PlacedInv /\ LiveInv /\ FreeInv
      /\ ThreadInv /\ OperandInv /\ CreationInv /\ FinishedInv
  BY DEF IInv
<1>1. TypeOK'
  BY <1>0 DEF SendBegin, structVars, handleVars, nativeVars, Idle, Goto, TypeOK, Phase
<1>2. CountExact'
  BY <1>0, CountUnchanged DEF SendBegin, structVars, handleVars
<1>3. PlacedInv'
  BY <1>0 DEF SendBegin, structVars, handleVars, nativeVars, Idle, Goto, PlacedInv
<1>4. LiveInv'
  BY <1>0 DEF SendBegin, structVars, handleVars, nativeVars, Idle, Goto, LiveInv
<1>5. FreeInv'
  BY <1>0
     DEF SendBegin, structVars, handleVars, nativeVars, Idle, Goto, FreeInv, Frames,
         FrameAt
<1>6. ThreadInv'
  BY <1>0
     DEF SendBegin, structVars, handleVars, nativeVars, Idle, Goto, ThreadInv, Frames,
         FrameAt, TypeOK
<1>7. OperandInv'
  BY <1>0 DEF SendBegin, structVars, handleVars, nativeVars, Idle, Goto, OperandInv, TypeOK
<1>8. CreationInv'
  BY <1>0
     DEF SendBegin, structVars, handleVars, nativeVars, Idle, Goto, CreationInv, TypeOK,
         Target
<1>9. FinishedInv'
  BY <1>0
     DEF SendBegin, structVars, handleVars, nativeVars, Idle, Goto, TypeOK, FinishedInv,
         Finished, Frames, FrameAt, CreationInv, OperandInv, Operating, ThreadInv
<1> QED BY <1>1, <1>2, <1>3, <1>4, <1>5, <1>6, <1>7, <1>8, <1>9 DEF IInv

\* A mailbox that is closed does not grow: the message is discarded instead.
LEMMA PostStep ==
  ASSUME IInv, NEW i \in Iso, Post(i)
  PROVE  IInv'
<1>0. /\ TypeOK /\ CountExact /\ PlacedInv /\ LiveInv /\ FreeInv
      /\ ThreadInv /\ OperandInv /\ CreationInv /\ FinishedInv
  BY DEF IInv
<1>a. /\ pc[i] = "buildSend" /\ out[i] \in Msg /\ thr[i] /\ todo[i] = <<>>
      /\ Target(i) \in Iso
  BY <1>0, OperandFacts DEF Post, Operating, OperandInv, ThreadInv
<1>b. /\ todo' \in [Iso -> Seq(Frame)] /\ FreeInv'
      /\ OnlyPushes(i, DiscardFrame(out[i])) /\ \A j \in Iso : j # i => todo'[j] = todo[j]
  <2>1. CASE closed[Target(i)]
    BY <2>1, <1>0, <1>a, PushDiscard DEF Post, structVars
  <2>2. CASE ~closed[Target(i)]
    BY <2>2, <1>0 DEF Post, structVars, TypeOK, FreeInv, OnlyPushes, Frames, FrameAt
  <2> QED BY <2>1, <2>2
<1>c. /\ mailbox' \in [Iso -> Seq(Msg)]
      /\ \A j \in Iso : closed[j] => mailbox'[j] = mailbox[j]
  <2>1. CASE closed[Target(i)]
    BY <2>1, <1>0 DEF Post, TypeOK
  <2>2. CASE ~closed[Target(i)]
    <3>1. Append(mailbox[Target(i)], out[i]) \in Seq(Msg)
      BY <1>0, <1>a DEF TypeOK
    <3>2. mailbox' = [mailbox EXCEPT ![Target(i)] = Append(@, out[i])]
      BY <2>2 DEF Post
    <3>3. mailbox \in [Iso -> Seq(Msg)]
      BY <1>0 DEF TypeOK
    <3> QED BY <3>1, <3>2, <3>3, <2>2, <1>a
  <2> QED BY <2>1, <2>2
<1>1. TypeOK'
  BY <1>0, <1>a, <1>b, <1>c
     DEF Post, Goto, structVars, handleVars, nativeVars, TypeOK, Phase
<1>2. CountExact'
  BY <1>0, CountUnchanged DEF Post, structVars, handleVars
<1>3. PlacedInv'
  BY <1>0 DEF Post, structVars, handleVars, nativeVars, Goto, Target, PlacedInv
<1>4. LiveInv'
  BY <1>0 DEF Post, structVars, handleVars, nativeVars, Goto, Target, LiveInv
<1>5. FreeInv'
  BY <1>b
<1>6. ThreadInv'
  BY <1>0, <1>a, <1>b, FrameFacts, SMTT(40)
     DEF Post, Goto, structVars, handleVars, nativeVars, TypeOK, ThreadInv, OnlyPushes,
         Frames, FrameAt
<1>7. OperandInv'
  BY <1>0
     DEF Post, structVars, handleVars, nativeVars, Goto, Target, TypeOK, OperandInv,
         Operating, PlacedInv
<1>8. CreationInv'
  BY <1>0 DEF Post, structVars, handleVars, nativeVars, Goto, Target, CreationInv, TypeOK
<1>9. FinishedInv'
  <2>1. \A j \in Iso : pc[j] \in Finished => mailbox'[j] = mailbox[j]
    BY <1>0, <1>c DEF FinishedInv
  <2>2. /\ pc' = [pc EXCEPT ![i] = "run"] /\ UNCHANGED <<closed, boot, done>>
    BY DEF Post, Goto, nativeVars
  <2>3. pc'[i] = "run" /\ \A j \in Iso : j # i => pc'[j] = pc[j]
    BY <2>2, <1>0 DEF TypeOK
  <2> QED BY <2>1, <2>2, <2>3, <1>0, <1>a, <1>b, FinishedKept
<1> QED BY <1>1, <1>2, <1>3, <1>4, <1>5, <1>6, <1>7, <1>8, <1>9 DEF IInv

\* Waiting changes only the program counter.
LEMMA ReceiveWaitStep ==
  ASSUME IInv, NEW i \in Iso, ReceiveWait(i)
  PROVE  IInv'
<1>0. /\ TypeOK /\ CountExact /\ PlacedInv /\ LiveInv /\ FreeInv
      /\ ThreadInv /\ OperandInv /\ CreationInv /\ FinishedInv
  BY DEF IInv
<1>1. TypeOK'
  BY <1>0
     DEF ReceiveWait, structVars, handleVars, mailVars, nativeVars, Idle, Goto, TypeOK,
         Phase
<1>2. CountExact'
  BY <1>0, CountUnchanged DEF ReceiveWait, structVars, handleVars
<1>3. PlacedInv'
  BY <1>0
     DEF ReceiveWait, structVars, handleVars, mailVars, nativeVars, Idle, Goto, PlacedInv
<1>4. LiveInv'
  BY <1>0 DEF ReceiveWait, structVars, handleVars, mailVars, nativeVars, Idle, Goto, LiveInv
<1>5. FreeInv'
  BY <1>0
     DEF ReceiveWait, structVars, handleVars, mailVars, nativeVars, Idle, Goto, FreeInv,
         Frames, FrameAt
<1>6. ThreadInv'
  BY <1>0
     DEF ReceiveWait, structVars, handleVars, mailVars, nativeVars, Idle, Goto, ThreadInv,
         Frames, FrameAt, TypeOK
<1>7. OperandInv'
  BY <1>0
     DEF ReceiveWait, structVars, handleVars, mailVars, nativeVars, Idle, Goto, TypeOK,
         OperandInv, Operating, PlacedInv
<1>8. CreationInv'
  BY <1>0
     DEF ReceiveWait, structVars, handleVars, mailVars, nativeVars, Idle, Goto,
         CreationInv, TypeOK, Target
<1>9. FinishedInv'
  BY <1>0
     DEF ReceiveWait, structVars, handleVars, mailVars, nativeVars, Idle, Goto, TypeOK,
         FinishedInv, Finished, Frames, FrameAt, CreationInv, OperandInv, Operating,
         ThreadInv
<1> QED BY <1>1, <1>2, <1>3, <1>4, <1>5, <1>6, <1>7, <1>8, <1>9 DEF IInv

\* The opened message's handles move into a running isolate.
LEMMA ReceiveStep ==
  ASSUME IInv, NEW i \in Iso, Receive(i)
  PROVE  IInv'
<1>0. /\ TypeOK /\ CountExact /\ PlacedInv /\ LiveInv /\ FreeInv
      /\ ThreadInv /\ OperandInv /\ CreationInv /\ FinishedInv
  BY DEF IInv
<1>1. TypeOK'
  BY <1>0 DEF Receive, structVars, nativeVars, Goto, Adopt, TypeOK, Phase
<1>2. CountExact'
  BY <1>0, CountUnchanged DEF Receive, structVars
<1>3. PlacedInv'
  BY <1>0, IsolateAssumption
     DEF Receive, structVars, nativeVars, Goto, Adopt, TypeOK, PlacedInv
<1>4. LiveInv'
  BY <1>0 DEF Receive, structVars, nativeVars, Goto, Adopt, LiveInv
<1>5. FreeInv'
  BY <1>0 DEF Receive, structVars, nativeVars, Goto, Adopt, FreeInv, Frames, FrameAt
<1>6. ThreadInv'
  BY <1>0
     DEF Receive, structVars, nativeVars, Goto, Adopt, ThreadInv, Frames, FrameAt, TypeOK
<1>7. OperandInv'
  BY <1>0, IsolateAssumption
     DEF Receive, structVars, nativeVars, Goto, Adopt, TypeOK, OperandInv, Operating,
         PlacedInv
<1>8. CreationInv'
  BY <1>0 DEF Receive, structVars, nativeVars, Goto, Adopt, CreationInv, TypeOK, Target
<1>9. FinishedInv'
  BY <1>0
     DEF Receive, structVars, nativeVars, Goto, Adopt, TypeOK, FinishedInv, Finished,
         Frames, FrameAt, CreationInv, OperandInv, Operating, ThreadInv
<1> QED BY <1>1, <1>2, <1>3, <1>4, <1>5, <1>6, <1>7, <1>8, <1>9 DEF IInv

\* A claimed join holds the handle in the joiner's heap.
LEMMA JoinClaimStep ==
  ASSUME IInv, NEW i \in Iso, NEW h \in Handle, JoinClaim(i, h)
  PROVE  IInv'
<1>0. /\ TypeOK /\ CountExact /\ PlacedInv /\ LiveInv /\ FreeInv
      /\ ThreadInv /\ OperandInv /\ CreationInv /\ FinishedInv
  BY DEF IInv
<1>1. TypeOK'
  BY <1>0 DEF JoinClaim, structVars, handleVars, mailVars, Idle, Goto, TypeOK, Phase
<1>2. CountExact'
  BY <1>0, CountUnchanged DEF JoinClaim, structVars, handleVars
<1>3. PlacedInv'
  BY <1>0 DEF JoinClaim, structVars, handleVars, mailVars, Idle, Goto, PlacedInv
<1>4. LiveInv'
  BY <1>0 DEF JoinClaim, structVars, handleVars, mailVars, Idle, Goto, LiveInv
<1>5. FreeInv'
  BY <1>0
     DEF JoinClaim, structVars, handleVars, mailVars, Idle, Goto, FreeInv, Frames, FrameAt
<1>6. ThreadInv'
  BY <1>0
     DEF JoinClaim, structVars, handleVars, mailVars, Idle, Goto, ThreadInv, Frames,
         FrameAt, TypeOK
<1>7. OperandInv'
  BY <1>0 DEF JoinClaim, structVars, handleVars, mailVars, Idle, Goto, OperandInv, TypeOK
<1>8. CreationInv'
  BY <1>0
     DEF JoinClaim, structVars, handleVars, mailVars, Idle, Goto, CreationInv, TypeOK,
         Target
<1>9. FinishedInv'
  BY <1>0
     DEF JoinClaim, structVars, handleVars, mailVars, Idle, Goto, TypeOK, FinishedInv,
         Finished, Frames, FrameAt, CreationInv, OperandInv, Operating, ThreadInv
<1> QED BY <1>1, <1>2, <1>3, <1>4, <1>5, <1>6, <1>7, <1>8, <1>9 DEF IInv

\* So does a polling join.
LEMMA JoinPollStep ==
  ASSUME IInv, NEW i \in Iso, NEW h \in Handle, JoinPoll(i, h)
  PROVE  IInv'
<1>0. /\ TypeOK /\ CountExact /\ PlacedInv /\ LiveInv /\ FreeInv
      /\ ThreadInv /\ OperandInv /\ CreationInv /\ FinishedInv
  BY DEF IInv
<1>1. TypeOK'
  BY <1>0
     DEF JoinPoll, structVars, handleVars, mailVars, nativeVars, Idle, Goto, TypeOK, Phase
<1>2. CountExact'
  BY <1>0, CountUnchanged DEF JoinPoll, structVars, handleVars
<1>3. PlacedInv'
  BY <1>0 DEF JoinPoll, structVars, handleVars, mailVars, nativeVars, Idle, Goto, PlacedInv
<1>4. LiveInv'
  BY <1>0 DEF JoinPoll, structVars, handleVars, mailVars, nativeVars, Idle, Goto, LiveInv
<1>5. FreeInv'
  BY <1>0
     DEF JoinPoll, structVars, handleVars, mailVars, nativeVars, Idle, Goto, FreeInv,
         Frames, FrameAt
<1>6. ThreadInv'
  BY <1>0
     DEF JoinPoll, structVars, handleVars, mailVars, nativeVars, Idle, Goto, ThreadInv,
         Frames, FrameAt, TypeOK
<1>7. OperandInv'
  BY <1>0
     DEF JoinPoll, structVars, handleVars, mailVars, nativeVars, Idle, Goto, OperandInv,
         TypeOK
<1>8. CreationInv'
  BY <1>0
     DEF JoinPoll, structVars, handleVars, mailVars, nativeVars, Idle, Goto, CreationInv,
         TypeOK, Target
<1>9. FinishedInv'
  <2>1. /\ pc[i] = "run" /\ pc' = [pc EXCEPT ![i] = "spin"]
        /\ UNCHANGED <<todo, closed, done, boot, mailbox>>
    BY DEF JoinPoll, Idle, Goto, mailVars, nativeVars
  <2>2. pc'[i] = "spin" /\ \A j \in Iso : j # i => pc'[j] = pc[j]
    BY <2>1, <1>0 DEF TypeOK
  <2> QED BY <2>1, <2>2, <1>0, FinishedKept
<1> QED BY <1>1, <1>2, <1>3, <1>4, <1>5, <1>6, <1>7, <1>8, <1>9 DEF IInv

\* A join that returns lets go of its operand.
LEMMA JoinReturnStep ==
  ASSUME IInv, NEW i \in Iso, JoinReturn(i)
  PROVE  IInv'
<1>0. /\ TypeOK /\ CountExact /\ PlacedInv /\ LiveInv /\ FreeInv
      /\ ThreadInv /\ OperandInv /\ CreationInv /\ FinishedInv
  BY DEF IInv
<1>1. TypeOK'
  BY <1>0
     DEF JoinReturn, structVars, handleVars, mailVars, nativeVars, Goto, Target, TypeOK,
         Phase
<1>2. CountExact'
  BY <1>0, CountUnchanged DEF JoinReturn, structVars, handleVars
<1>3. PlacedInv'
  BY <1>0
     DEF JoinReturn, structVars, handleVars, mailVars, nativeVars, Goto, Target, PlacedInv
<1>4. LiveInv'
  BY <1>0
     DEF JoinReturn, structVars, handleVars, mailVars, nativeVars, Goto, Target, LiveInv
<1>5. FreeInv'
  BY <1>0
     DEF JoinReturn, structVars, handleVars, mailVars, nativeVars, Goto, Target, FreeInv,
         Frames, FrameAt
<1>6. ThreadInv'
  BY <1>0
     DEF JoinReturn, structVars, handleVars, mailVars, nativeVars, Goto, Target, ThreadInv,
         Frames, FrameAt, TypeOK
<1>7. OperandInv'
  BY <1>0
     DEF JoinReturn, structVars, handleVars, mailVars, nativeVars, Goto, Target, TypeOK,
         OperandInv, Operating, PlacedInv
<1>8. CreationInv'
  BY <1>0
     DEF JoinReturn, structVars, handleVars, mailVars, nativeVars, Goto, Target,
         CreationInv, TypeOK
<1>9. FinishedInv'
  BY <1>0
     DEF JoinReturn, structVars, handleVars, mailVars, nativeVars, Goto, Target, TypeOK,
         FinishedInv, Finished, Frames, FrameAt, CreationInv, OperandInv, Operating,
         ThreadInv
<1> QED BY <1>1, <1>2, <1>3, <1>4, <1>5, <1>6, <1>7, <1>8, <1>9 DEF IInv

\* So does a poll that ends.
LEMMA SpinReturnStep ==
  ASSUME IInv, NEW i \in Iso, SpinReturn(i)
  PROVE  IInv'
<1>0. /\ TypeOK /\ CountExact /\ PlacedInv /\ LiveInv /\ FreeInv
      /\ ThreadInv /\ OperandInv /\ CreationInv /\ FinishedInv
  BY DEF IInv
<1>1. TypeOK'
  BY <1>0
     DEF SpinReturn, structVars, handleVars, mailVars, nativeVars, Goto, Target, TypeOK,
         Phase
<1>2. CountExact'
  BY <1>0, CountUnchanged DEF SpinReturn, structVars, handleVars
<1>3. PlacedInv'
  BY <1>0
     DEF SpinReturn, structVars, handleVars, mailVars, nativeVars, Goto, Target, PlacedInv
<1>4. LiveInv'
  BY <1>0
     DEF SpinReturn, structVars, handleVars, mailVars, nativeVars, Goto, Target, LiveInv
<1>5. FreeInv'
  BY <1>0
     DEF SpinReturn, structVars, handleVars, mailVars, nativeVars, Goto, Target, FreeInv,
         Frames, FrameAt
<1>6. ThreadInv'
  BY <1>0
     DEF SpinReturn, structVars, handleVars, mailVars, nativeVars, Goto, Target, ThreadInv,
         Frames, FrameAt, TypeOK
<1>7. OperandInv'
  BY <1>0
     DEF SpinReturn, structVars, handleVars, mailVars, nativeVars, Goto, Target, TypeOK,
         OperandInv, Operating, PlacedInv
<1>8. CreationInv'
  BY <1>0
     DEF SpinReturn, structVars, handleVars, mailVars, nativeVars, Goto, Target,
         CreationInv, TypeOK
<1>9. FinishedInv'
  BY <1>0
     DEF SpinReturn, structVars, handleVars, mailVars, nativeVars, Goto, Target, TypeOK,
         FinishedInv, Finished, Frames, FrameAt, CreationInv, OperandInv, Operating,
         ThreadInv
<1> QED BY <1>1, <1>2, <1>3, <1>4, <1>5, <1>6, <1>7, <1>8, <1>9 DEF IInv

\* The boot message is opened once, by its own thread.
LEMMA EnterStep ==
  ASSUME IInv, NEW i \in Iso, Enter(i)
  PROVE  IInv'
<1>0. /\ TypeOK /\ CountExact /\ PlacedInv /\ LiveInv /\ FreeInv
      /\ ThreadInv /\ OperandInv /\ CreationInv /\ FinishedInv
  BY DEF IInv
<1>a. boot[i] \in Msg
  BY <1>0 DEF Enter, CreationInv
<1>1. TypeOK'
  BY <1>0 DEF Enter, structVars, nativeVars, Goto, Adopt, TypeOK, Phase
<1>2. CountExact'
  BY <1>0, CountUnchanged DEF Enter, structVars
<1>3. PlacedInv'
  BY <1>0, <1>a, IsolateAssumption DEF Enter, Adopt, PlacedInv, TypeOK, handleVars
<1>4. LiveInv'
  BY <1>0 DEF Enter, structVars, nativeVars, Goto, Adopt, LiveInv
<1>5. FreeInv'
  BY <1>0 DEF Enter, structVars, nativeVars, Goto, Adopt, FreeInv, Frames, FrameAt
<1>6. ThreadInv'
  BY <1>0 DEF Enter, structVars, nativeVars, Goto, Adopt, ThreadInv, Frames, FrameAt, TypeOK
<1>7. OperandInv'
  BY <1>0, IsolateAssumption
     DEF Enter, structVars, nativeVars, Goto, Adopt, TypeOK, OperandInv, Operating,
         PlacedInv
<1>8. CreationInv'
  BY <1>0 DEF Enter, structVars, nativeVars, Goto, Adopt, CreationInv, TypeOK, Target
<1>9. FinishedInv'
  BY <1>0
     DEF Enter, structVars, nativeVars, Goto, Adopt, TypeOK, FinishedInv, Finished, Frames,
         FrameAt, CreationInv, OperandInv, Operating, ThreadInv
<1> QED BY <1>1, <1>2, <1>3, <1>4, <1>5, <1>6, <1>7, <1>8, <1>9 DEF IInv

\* Teardown begins by closing the mailbox.
LEMMA ReturnStep ==
  ASSUME IInv, NEW i \in Iso, Return(i)
  PROVE  IInv'
<1>0. /\ TypeOK /\ CountExact /\ PlacedInv /\ LiveInv /\ FreeInv
      /\ ThreadInv /\ OperandInv /\ CreationInv /\ FinishedInv
  BY DEF IInv
<1>1. TypeOK'
  BY <1>0 DEF Return, structVars, handleVars, nativeVars, Idle, Goto, TypeOK, Phase
<1>2. CountExact'
  BY <1>0, CountUnchanged DEF Return, structVars, handleVars
<1>3. PlacedInv'
  BY <1>0 DEF Return, structVars, handleVars, nativeVars, Idle, Goto, PlacedInv
<1>4. LiveInv'
  BY <1>0 DEF Return, structVars, handleVars, nativeVars, Idle, Goto, LiveInv
<1>5. FreeInv'
  BY <1>0
     DEF Return, structVars, handleVars, nativeVars, Idle, Goto, FreeInv, Frames, FrameAt
<1>6. ThreadInv'
  BY <1>0
     DEF Return, structVars, handleVars, nativeVars, Idle, Goto, ThreadInv, Frames,
         FrameAt, TypeOK
<1>7. OperandInv'
  BY <1>0
     DEF Return, structVars, handleVars, nativeVars, Idle, Goto, TypeOK, OperandInv,
         Operating, PlacedInv
<1>8. CreationInv'
  BY <1>0
     DEF Return, structVars, handleVars, nativeVars, Idle, Goto, CreationInv, TypeOK,
         Target
<1>9. FinishedInv'
  BY <1>0
     DEF Return, structVars, handleVars, nativeVars, Idle, Goto, TypeOK, FinishedInv,
         Finished, Frames, FrameAt, CreationInv, OperandInv, Operating, ThreadInv
<1> QED BY <1>1, <1>2, <1>3, <1>4, <1>5, <1>6, <1>7, <1>8, <1>9 DEF IInv

\* A discard in teardown runs while the thread's own count is outstanding.
LEMMA DrainOneStep ==
  ASSUME IInv, NEW i \in Iso, DrainOne(i)
  PROVE  IInv'
<1>0. /\ TypeOK /\ CountExact /\ PlacedInv /\ LiveInv /\ FreeInv
      /\ ThreadInv /\ OperandInv /\ CreationInv /\ FinishedInv
  BY DEF IInv
<1>a. /\ pc[i] = "teardown" /\ thr[i] /\ Head(mailbox[i]) \in Msg
      /\ Tail(mailbox[i]) \in Seq(Msg)
  <2>1. mailbox[i] \in Seq(Msg) /\ mailbox[i] # <<>>
    BY <1>0 DEF DrainOne, TypeOK
  <2>2. Head(mailbox[i]) \in Msg /\ Tail(mailbox[i]) \in Seq(Msg)
    BY <2>1
  <2> QED BY <2>2, <1>0 DEF DrainOne, ThreadInv
<1>b. /\ todo' \in [Iso -> Seq(Frame)] /\ FreeInv'
      /\ OnlyPushes(i, DiscardFrame(Head(mailbox[i]))) /\ \A j \in Iso : j # i => todo'[j] = todo[j]
  BY <1>0, <1>a, PushDiscard DEF DrainOne, structVars
<1>1. TypeOK'
  BY <1>0, <1>a, <1>b DEF DrainOne, structVars, handleVars, nativeVars, TypeOK
<1>2. CountExact'
  BY <1>0, CountUnchanged DEF DrainOne, structVars, handleVars
<1>3. PlacedInv'
  BY <1>0 DEF DrainOne, structVars, handleVars, nativeVars, PlacedInv
<1>4. LiveInv'
  BY <1>0 DEF DrainOne, structVars, handleVars, nativeVars, LiveInv
<1>5. FreeInv'
  BY <1>b
<1>6. ThreadInv'
  BY <1>0, <1>a, <1>b, FrameFacts
     DEF DrainOne, structVars, handleVars, nativeVars, TypeOK, ThreadInv, OnlyPushes,
         Frames, FrameAt
<1>7. OperandInv'
  BY <1>0 DEF DrainOne, structVars, handleVars, nativeVars, OperandInv, TypeOK
<1>8. CreationInv'
  BY <1>0 DEF DrainOne, structVars, handleVars, nativeVars, CreationInv, TypeOK, Target
<1>9. FinishedInv'
  BY <1>0, <1>a, <1>b, FrameFacts
     DEF DrainOne, structVars, handleVars, nativeVars, TypeOK, FinishedInv, Finished,
         OnlyPushes, Frames, FrameAt
<1> QED BY <1>1, <1>2, <1>3, <1>4, <1>5, <1>6, <1>7, <1>8, <1>9 DEF IInv

\* A swept handle gives its count back.
LEMMA SweepHandleStep ==
  ASSUME IInv, NEW i \in Iso, NEW h \in Handle, SweepHandle(i, h)
  PROVE  IInv'
<1>0. /\ TypeOK /\ CountExact /\ PlacedInv /\ LiveInv /\ FreeInv
      /\ ThreadInv /\ OperandInv /\ CreationInv /\ FinishedInv
  BY DEF IInv
<1>a. at[h] = i /\ pc[i] = "teardown"
  BY <1>0 DEF SweepHandle
<1>b. h \in Handle /\ names[h] \in Iso /\ count[names[h]] >= 1
  BY <1>0, <1>a, HolderCounts, IsolateAssumption DEF PlacedInv, TypeOK, Iso
<1>c. /\ count' = [count EXCEPT ![names[h]] = @ - 1]
      /\ count' \in [Iso -> Nat] /\ todo' \in [Iso -> Seq(Frame)]
      /\ LiveInv' /\ FreeInv' /\ OnlyPushes(i, FreeFrame(names[h]))
      /\ \A j \in Iso : j # i => todo'[j] = todo[j]
  BY <1>0, <1>b, ReleaseFacts DEF SweepHandle, HandleDies
<1>d. \A j \in Iso : pc[j] \in Operating => hnd[j] # h /\ hnd[j] \in Handle
  BY <1>0, <1>a, IsolateAssumption DEF OperandInv, Operating, TypeOK, Iso
<1>1. TypeOK'
  BY <1>0, <1>c DEF SweepHandle, HandleDies, structVars, mailVars, nativeVars, TypeOK
<1>2. CountExact'
  BY <1>0, <1>b, <1>c, CountHandleDies DEF SweepHandle, HandleDies
<1>3. PlacedInv'
  BY <1>0 DEF SweepHandle, mailVars, nativeVars, HandleDies, Release, TypeOK, PlacedInv
<1>4. LiveInv'
  BY <1>c
<1>5. FreeInv'
  BY <1>c
<1>6. ThreadInv'
  BY <1>0, <1>a, <1>c, FrameFacts, SMTT(40)
     DEF SweepHandle, HandleDies, structVars, mailVars, nativeVars, TypeOK, ThreadInv,
         OnlyPushes, Frames, FrameAt
<1>7. OperandInv'
  BY <1>0, <1>d
     DEF SweepHandle, HandleDies, structVars, mailVars, nativeVars, TypeOK, OperandInv,
         Operating
<1>8. CreationInv'
  <2>1. \A j \in Iso : pc[j] \in {"buildBoot", "spawn"} => Target(j)' = Target(j)
    BY <1>0, <1>d DEF SweepHandle, HandleDies, Target, TypeOK, Operating
  <2>2. UNCHANGED <<mem, parent, thr, boot, pc>>
    BY DEF SweepHandle, HandleDies, structVars, mailVars, nativeVars
  <2> QED BY <2>1, <2>2, <1>0 DEF CreationInv
<1>9. FinishedInv'
  BY <1>0, <1>a, <1>c, FinishedKept DEF SweepHandle, mailVars, nativeVars
<1> QED BY <1>1, <1>2, <1>3, <1>4, <1>5, <1>6, <1>7, <1>8, <1>9 DEF IInv

\* done is published with the mailbox closed and empty.
LEMMA SweepEndStep ==
  ASSUME IInv, NEW i \in Iso, SweepEnd(i)
  PROVE  IInv'
<1>0. /\ TypeOK /\ CountExact /\ PlacedInv /\ LiveInv /\ FreeInv
      /\ ThreadInv /\ OperandInv /\ CreationInv /\ FinishedInv
  BY DEF IInv
<1>1. TypeOK'
  BY <1>0 DEF SweepEnd, structVars, handleVars, mailVars, Goto, TypeOK, Phase
<1>2. CountExact'
  BY <1>0, CountUnchanged DEF SweepEnd, structVars, handleVars
<1>3. PlacedInv'
  BY <1>0 DEF SweepEnd, structVars, handleVars, mailVars, Goto, PlacedInv
<1>4. LiveInv'
  BY <1>0 DEF SweepEnd, structVars, handleVars, mailVars, Goto, LiveInv
<1>5. FreeInv'
  BY <1>0 DEF SweepEnd, structVars, handleVars, mailVars, Goto, FreeInv, Frames, FrameAt
<1>6. ThreadInv'
  BY <1>0
     DEF SweepEnd, structVars, handleVars, mailVars, Goto, ThreadInv, Frames, FrameAt,
         TypeOK
<1>7. OperandInv'
  BY <1>0
     DEF SweepEnd, structVars, handleVars, mailVars, Goto, TypeOK, OperandInv, Operating,
         PlacedInv
<1>8. CreationInv'
  BY <1>0 DEF SweepEnd, structVars, handleVars, mailVars, Goto, CreationInv, TypeOK, Target
<1>9. FinishedInv'
  <2>1. /\ pc[i] = "teardown" /\ mailbox[i] = <<>> /\ todo[i] = <<>>
        /\ done' = [done EXCEPT ![i] = TRUE] /\ pc' = [pc EXCEPT ![i] = "detach"]
        /\ UNCHANGED <<mailbox, closed, boot, todo>>
    BY DEF SweepEnd, Goto, mailVars
  <2>2. \A j \in Iso : j # i => done'[j] = done[j] /\ pc'[j] = pc[j]
    BY <2>1, <1>0 DEF TypeOK
  <2>3. done'[i] = TRUE /\ pc'[i] = "detach"
    BY <2>1, <1>0 DEF TypeOK
  <2>4. \A j \in Iso : pc[j] \in Finished => pc'[j] \in Finished
    BY <2>1, <2>2 DEF Finished
  <2>5. ASSUME NEW j \in Iso, pc'[j] = "left"
        PROVE  \A k \in Frames(j)' : FrameAt(j, k, "free")' => pc'[todo'[j][k].arg] \in Finished
    <3>1. j # i /\ pc[j] = "left"
      BY <2>2, <2>3, <2>5
    <3>2. \A k \in Frames(j) : FrameAt(j, k, "free") => todo[j][k].arg \in Iso
      BY <1>0 DEF TypeOK, Frames, FrameAt, Frame
    <3> QED BY <3>1, <3>2, <2>1, <2>4, <1>0 DEF FinishedInv, Frames, FrameAt
  <2>6. ASSUME NEW j \in Iso
        PROVE  /\ done'[j] <=> pc'[j] \in Finished
               /\ pc'[j] \in Finished \cup {"teardown"} => closed'[j]
               /\ boot'[j] # None => pc'[j] \in {"none", "boot"}
               /\ pc'[j] \in Finished => mailbox'[j] = <<>>
    <3>1. CASE j = i
      <4>1. closed[i] /\ boot[i] = None
        BY <2>1, <1>0 DEF FinishedInv
      <4> QED BY <3>1, <4>1, <2>1, <2>3 DEF Finished
    <3>2. CASE j # i
      BY <3>2, <2>1, <2>2, <1>0 DEF FinishedInv
    <3> QED BY <3>1, <3>2
  <2> QED BY <2>5, <2>6 DEF FinishedInv
<1> QED BY <1>1, <1>2, <1>3, <1>4, <1>5, <1>6, <1>7, <1>8, <1>9 DEF IInv

\* Detaching disturbs no count.
LEMMA DetachStep ==
  ASSUME IInv, NEW i \in Iso, Detach(i)
  PROVE  IInv'
<1>0. /\ TypeOK /\ CountExact /\ PlacedInv /\ LiveInv /\ FreeInv
      /\ ThreadInv /\ OperandInv /\ CreationInv /\ FinishedInv
  BY DEF IInv
<1>1. TypeOK'
  BY <1>0 DEF Detach, structVars, handleVars, mailVars, Goto, TypeOK, Phase
<1>2. CountExact'
  BY <1>0, CountUnchanged DEF Detach, structVars, handleVars
<1>3. PlacedInv'
  BY <1>0 DEF Detach, structVars, handleVars, mailVars, Goto, PlacedInv
<1>4. LiveInv'
  BY <1>0 DEF Detach, structVars, handleVars, mailVars, Goto, LiveInv
<1>5. FreeInv'
  BY <1>0 DEF Detach, structVars, handleVars, mailVars, Goto, FreeInv, Frames, FrameAt
<1>6. ThreadInv'
  BY <1>0
     DEF Detach, structVars, handleVars, mailVars, Goto, ThreadInv, Frames, FrameAt,
         TypeOK
<1>7. OperandInv'
  BY <1>0
     DEF Detach, structVars, handleVars, mailVars, Goto, TypeOK, OperandInv, Operating,
         PlacedInv
<1>8. CreationInv'
  BY <1>0 DEF Detach, structVars, handleVars, mailVars, Goto, CreationInv, TypeOK, Target
<1>9. FinishedInv'
  BY <1>0
     DEF Detach, structVars, handleVars, mailVars, Goto, TypeOK, FinishedInv, Finished,
         Frames, FrameAt, CreationInv, OperandInv, Operating, ThreadInv
<1> QED BY <1>1, <1>2, <1>3, <1>4, <1>5, <1>6, <1>7, <1>8, <1>9 DEF IInv

\* The last release may push the free of the thread's own, finished, isolate.
LEMMA ReleaseSelfStep ==
  ASSUME IInv, NEW i \in Iso, ReleaseSelf(i)
  PROVE  IInv'
<1>0. /\ TypeOK /\ CountExact /\ PlacedInv /\ LiveInv /\ FreeInv
      /\ ThreadInv /\ OperandInv /\ CreationInv /\ FinishedInv
  BY DEF IInv
<1>a. pc[i] = "release" /\ thr[i] /\ todo[i] = <<>> /\ count[i] >= 1
  BY <1>0, HolderCounts DEF ReleaseSelf, ThreadInv
<1>b. /\ thr' = [thr EXCEPT ![i] = FALSE] /\ pc' = [pc EXCEPT ![i] = "left"] /\ Release(i, i, todo[i])
      /\ UNCHANGED <<mem, parent, handleVars, mailVars, nativeVars, hnd, out>>
  BY DEF ReleaseSelf, Goto
<1>c. /\ count' = [count EXCEPT ![i] = @ - 1]
      /\ count' \in [Iso -> Nat] /\ todo' \in [Iso -> Seq(Frame)]
      /\ LiveInv' /\ FreeInv' /\ OnlyPushes(i, FreeFrame(i))
      /\ \A j \in Iso : j # i => todo'[j] = todo[j]
  BY <1>0, <1>a, <1>b, ReleaseFacts
<1>d. \A k \in Frames(i)' : todo'[i][k] = FreeFrame(i)
  BY <1>a, <1>c DEF OnlyPushes, Frames
<1>1. TypeOK'
  BY <1>0, <1>a, <1>b, <1>c DEF ReleaseSelf, handleVars, mailVars, nativeVars, TypeOK, Phase
<1>2. CountExact'
  BY <1>0, <1>a, <1>b, <1>c, CountThread DEF handleVars
<1>3. PlacedInv'
  BY <1>0 DEF ReleaseSelf, handleVars, mailVars, nativeVars, Goto, Release, PlacedInv
<1>4. LiveInv'
  BY <1>c
<1>5. FreeInv'
  BY <1>c
<1>6. ThreadInv'
  BY <1>0, <1>a, <1>b, <1>c, <1>d, FrameFacts DEF TypeOK, ThreadInv, Frames, FrameAt
<1>7. OperandInv'
  BY <1>0
     DEF ReleaseSelf, handleVars, mailVars, nativeVars, Goto, Release, TypeOK, OperandInv,
         Operating, PlacedInv
<1>8. CreationInv'
  <2>1. \A j \in Iso : pc'[j] = IF j = i THEN "left" ELSE pc[j]
    BY <1>0, <1>b DEF TypeOK
  <2>2. ~thr'[i] /\ \A j \in Iso : j # i => thr'[j] = thr[j]
    BY <1>0, <1>b DEF TypeOK
  <2>3. UNCHANGED <<mem, parent, names, boot, hnd>>
    BY <1>b DEF handleVars, mailVars
  <2>4. ASSUME NEW j \in Iso, pc'[j] \in {"buildBoot", "spawn"}
        PROVE  /\ parent[Target(j)] = j
               /\ pc'[Target(j)] = "none"
               /\ thr'[Target(j)] = (pc'[j] = "spawn")
               /\ pc'[j] = "spawn" => boot[Target(j)] \in Msg
    <3>1. pc[j] = pc'[j] /\ pc[j] \in {"buildBoot", "spawn"}
      BY <2>1, <2>4
    <3>2. /\ Target(j) \in Iso /\ parent[Target(j)] = j /\ pc[Target(j)] = "none"
          /\ thr[Target(j)] = (pc[j] = "spawn") 
          /\ pc[j] = "spawn" => boot[Target(j)] \in Msg
      BY <3>1, CreationFacts
    <3>3. Target(j) # i
      BY <3>2, <1>a
    <3> QED BY <3>1, <3>2, <3>3, <2>1, <2>2
  <2>5. ASSUME NEW j \in Iso
        PROVE  /\ pc'[j] = "boot" => boot[j] \in Msg
               /\ parent[j] # None => pc'[parent[j]] # "none"
               /\ mem[j] = "unborn" => pc'[j] = "none" /\ ~thr'[j] /\ parent[j] = None
    <3>1. parent[j] \in Iso \cup {None}
      BY <1>0 DEF TypeOK
    <3> QED BY <3>1, <2>1, <2>2, <1>0, <1>a DEF CreationInv
  <2> QED BY <2>3, <2>4, <2>5 DEF CreationInv, Target
<1>9. FinishedInv'
  <2>1. \A j \in Iso : pc'[j] = IF j = i THEN "left" ELSE pc[j]
    BY <1>0, <1>b DEF TypeOK
  <2>2. ASSUME NEW j \in Iso
        PROVE  /\ (pc'[j] \in Finished) <=> (pc[j] \in Finished)
               /\ pc'[j] = "teardown" => pc[j] = "teardown"
               /\ pc[j] \in {"none", "boot"} => pc'[j] \in {"none", "boot"}
    BY <2>1, <1>a DEF Finished
  <2>3. UNCHANGED <<mailbox, closed, boot, done>>
    BY <1>b DEF mailVars, nativeVars
  <2>4. ASSUME NEW j \in Iso, pc'[j] = "left"
        PROVE  \A k \in Frames(j)' : FrameAt(j, k, "free")' => pc'[todo'[j][k].arg] \in Finished
    <3>1. CASE j = i
      BY <3>1, <1>d, <2>1, FrameFacts DEF Finished
    <3>2. CASE j # i
      <4>1. \A k \in Frames(j) : FrameAt(j, k, "free") => todo[j][k].arg \in Iso
        BY <1>0 DEF TypeOK, Frames, FrameAt, Frame
      <4>2. todo'[j] = todo[j] /\ pc[j] = "left"
        BY <3>2, <2>1, <2>4, <1>c
      <4>3. \A k \in Frames(j) : FrameAt(j, k, "free") => pc[todo[j][k].arg] \in Finished
        BY <4>2, <1>0 DEF FinishedInv
      <4> QED BY <4>1, <4>2, <4>3, <2>2 DEF Frames, FrameAt
    <3> QED BY <3>1, <3>2
  <2>5. ASSUME NEW j \in Iso
        PROVE  /\ done'[j] <=> pc'[j] \in Finished
               /\ pc'[j] \in Finished \cup {"teardown"} => closed'[j]
               /\ boot'[j] # None => pc'[j] \in {"none", "boot"}
               /\ pc'[j] \in Finished => mailbox'[j] = <<>>
    BY <2>2, <2>3, <1>0 DEF FinishedInv
  <2> QED BY <2>4, <2>5 DEF FinishedInv
<1> QED BY <1>1, <1>2, <1>3, <1>4, <1>5, <1>6, <1>7, <1>8, <1>9 DEF IInv

\* The thread ends with nothing left to free.
LEMMA GoneStep ==
  ASSUME IInv, NEW i \in Iso, Gone(i)
  PROVE  IInv'
<1>0. /\ TypeOK /\ CountExact /\ PlacedInv /\ LiveInv /\ FreeInv
      /\ ThreadInv /\ OperandInv /\ CreationInv /\ FinishedInv
  BY DEF IInv
<1>1. TypeOK'
  BY <1>0 DEF Gone, structVars, handleVars, mailVars, nativeVars, Goto, TypeOK, Phase
<1>2. CountExact'
  BY <1>0, CountUnchanged DEF Gone, structVars, handleVars
<1>3. PlacedInv'
  BY <1>0 DEF Gone, structVars, handleVars, mailVars, nativeVars, Goto, PlacedInv
<1>4. LiveInv'
  BY <1>0 DEF Gone, structVars, handleVars, mailVars, nativeVars, Goto, LiveInv
<1>5. FreeInv'
  BY <1>0
     DEF Gone, structVars, handleVars, mailVars, nativeVars, Goto, FreeInv, Frames,
         FrameAt
<1>6. ThreadInv'
  BY <1>0
     DEF Gone, structVars, handleVars, mailVars, nativeVars, Goto, ThreadInv, Frames,
         FrameAt, TypeOK
<1>7. OperandInv'
  BY <1>0
     DEF Gone, structVars, handleVars, mailVars, nativeVars, Goto, TypeOK, OperandInv,
         Operating, PlacedInv
<1>8. CreationInv'
  BY <1>0
     DEF Gone, structVars, handleVars, mailVars, nativeVars, Goto, CreationInv, TypeOK,
         Target
<1>9. FinishedInv'
  BY <1>0
     DEF Gone, structVars, handleVars, mailVars, nativeVars, Goto, TypeOK, FinishedInv,
         Finished, Frames, FrameAt, CreationInv, OperandInv, Operating, ThreadInv
<1> QED BY <1>1, <1>2, <1>3, <1>4, <1>5, <1>6, <1>7, <1>8, <1>9 DEF IInv

\* A handle that dies inside a discard gives its count back.
LEMMA DiscardHandleStep ==
  ASSUME IInv, NEW i \in Iso, NEW h \in Handle, DiscardHandle(i, h)
  PROVE  IInv'
<1>0. /\ TypeOK /\ CountExact /\ PlacedInv /\ LiveInv /\ FreeInv
      /\ ThreadInv /\ OperandInv /\ CreationInv /\ FinishedInv
  BY DEF IInv
<1>a. at[h] \in Msg /\ todo[i] # <<>> /\ pc[i] \in {"run", "teardown"}
  <2>1. at[h] \in Msg /\ todo[i] # <<>> /\ thr[i]
    BY <1>0, BelowFacts DEF DiscardHandle, TopIs, Top, Frame, ThreadInv, Frames, FrameAt
  <2> QED BY <2>1, <1>0 DEF ThreadInv
<1>b. h \in Handle /\ names[h] \in Iso /\ count[names[h]] >= 1
  BY <1>0, <1>a, HolderCounts, IsolateAssumption DEF PlacedInv, TypeOK, Iso
<1>c. /\ count' = [count EXCEPT ![names[h]] = @ - 1]
      /\ count' \in [Iso -> Nat] /\ todo' \in [Iso -> Seq(Frame)]
      /\ LiveInv' /\ FreeInv' /\ OnlyPushes(i, FreeFrame(names[h]))
      /\ \A j \in Iso : j # i => todo'[j] = todo[j]
  BY <1>0, <1>b, ReleaseFacts DEF DiscardHandle, HandleDies
<1>d. \A j \in Iso : pc[j] \in Operating => hnd[j] # h /\ hnd[j] \in Handle
  BY <1>0, <1>a, IsolateAssumption DEF OperandInv, Operating, TypeOK, Iso
<1>1. TypeOK'
  BY <1>0, <1>c DEF DiscardHandle, HandleDies, structVars, mailVars, nativeVars, TypeOK
<1>2. CountExact'
  BY <1>0, <1>b, <1>c, CountHandleDies DEF DiscardHandle, HandleDies
<1>3. PlacedInv'
  BY <1>0 DEF DiscardHandle, mailVars, nativeVars, HandleDies, Release, TypeOK, PlacedInv
<1>4. LiveInv'
  BY <1>c
<1>5. FreeInv'
  BY <1>c
<1>6. ThreadInv'
  BY <1>0, <1>a, <1>c, FrameFacts, SMTT(40)
     DEF DiscardHandle, HandleDies, structVars, mailVars, nativeVars, TypeOK, ThreadInv,
         OnlyPushes, Frames, FrameAt
<1>7. OperandInv'
  BY <1>0, <1>d
     DEF DiscardHandle, HandleDies, structVars, mailVars, nativeVars, TypeOK, OperandInv,
         Operating
<1>8. CreationInv'
  <2>1. \A j \in Iso : pc[j] \in {"buildBoot", "spawn"} => Target(j)' = Target(j)
    BY <1>0, <1>d DEF DiscardHandle, HandleDies, Target, TypeOK, Operating
  <2>2. UNCHANGED <<mem, parent, thr, boot, pc>>
    BY DEF DiscardHandle, HandleDies, structVars, mailVars, nativeVars
  <2> QED BY <2>1, <2>2, <1>0 DEF CreationInv
<1>9. FinishedInv'
  BY <1>0, <1>a, <1>c, FinishedKept DEF DiscardHandle, mailVars, nativeVars
<1> QED BY <1>1, <1>2, <1>3, <1>4, <1>5, <1>6, <1>7, <1>8, <1>9 DEF IInv

\* A finished discard is popped.
LEMMA DiscardEndStep ==
  ASSUME IInv, NEW i \in Iso, DiscardEnd(i)
  PROVE  IInv'
<1>0. /\ TypeOK /\ CountExact /\ PlacedInv /\ LiveInv /\ FreeInv
      /\ ThreadInv /\ OperandInv /\ CreationInv /\ FinishedInv
  BY DEF IInv
<1>a. /\ todo[i] # <<>> /\ UNCHANGED <<mem, count>>
      /\ todo' \in [Iso -> Seq(Frame)] /\ \A j \in Iso : j # i => todo'[j] = todo[j]
      /\ \A j \in Iso : \A k \in Frames(j)' : k \in Frames(j) /\ todo'[j][k] = todo[j][k]
  BY <1>0, PopFacts DEF DiscardEnd, TopIs, structVars
<1>1. TypeOK'
  BY <1>0, <1>a DEF DiscardEnd, structVars, handleVars, nativeVars, TypeOK
<1>2. CountExact'
  BY <1>0, CountUnchanged DEF DiscardEnd, structVars, handleVars
<1>3. PlacedInv'
  BY <1>0 DEF DiscardEnd, structVars, handleVars, nativeVars, PlacedInv
<1>4. LiveInv'
  BY <1>0 DEF DiscardEnd, structVars, handleVars, nativeVars, LiveInv
<1>5. FreeInv'
  <2>1. ASSUME NEW t \in Iso, NEW k \in Frames(t)', FrameAt(t, k, "free")'
        PROVE  /\ k \in Frames(t) /\ todo'[t][k] = todo[t][k]
               /\ mem'[todo[t][k].arg] = "live" /\ count'[todo[t][k].arg] = 0
    BY <2>1, <1>0, <1>a DEF FreeInv, FrameAt
  <2> QED BY <2>1, <1>0, FreeInvSub
<1>6. ThreadInv'
  BY <1>0, <1>a
     DEF DiscardEnd, structVars, handleVars, nativeVars, TypeOK, ThreadInv, FrameAt
<1>7. OperandInv'
  BY <1>0 DEF DiscardEnd, structVars, handleVars, nativeVars, OperandInv, TypeOK
<1>8. CreationInv'
  BY <1>0 DEF DiscardEnd, structVars, handleVars, nativeVars, CreationInv, TypeOK, Target
<1>9. FinishedInv'
  BY <1>0, <1>a
     DEF DiscardEnd, structVars, handleVars, nativeVars, TypeOK, FinishedInv, Finished,
         FrameAt
<1> QED BY <1>1, <1>2, <1>3, <1>4, <1>5, <1>6, <1>7, <1>8, <1>9 DEF IInv

\* Only an unfinished isolate has messages, so the freeing thread is covered.
LEMMA FreeDrainStep ==
  ASSUME IInv, NEW i \in Iso, FreeDrain(i)
  PROVE  IInv'
<1>0. /\ TypeOK /\ CountExact /\ PlacedInv /\ LiveInv /\ FreeInv
      /\ ThreadInv /\ OperandInv /\ CreationInv /\ FinishedInv
  BY DEF IInv
<1>a. /\ todo[i] # <<>> /\ FrameAt(i, Len(todo[i]), "free") /\ Len(todo[i]) \in Frames(i)
      /\ Top(i).arg \in Iso /\ mailbox[Top(i).arg] # <<>>
      /\ Head(mailbox[Top(i).arg]) \in Msg /\ Tail(mailbox[Top(i).arg]) \in Seq(Msg)
      /\ thr[i] /\ pc[i] \in {"run", "teardown"}
  <2>1. /\ todo[i] # <<>> /\ FrameAt(i, Len(todo[i]), "free") /\ Len(todo[i]) \in Frames(i)
        /\ Top(i).arg \in Iso /\ mailbox[Top(i).arg] # <<>>
    BY <1>0, BelowFacts DEF FreeDrain, TopIs, Top, Frame, Frames, FrameAt
  <2>2. Head(mailbox[Top(i).arg]) \in Msg /\ Tail(mailbox[Top(i).arg]) \in Seq(Msg)
    BY <2>1, <1>0 DEF TypeOK
  <2>3. pc[i] \in {"run", "teardown", "left"}
    BY <2>1, <1>0 DEF ThreadInv
  <2>4. pc[i] # "left"
    BY <2>1, <1>0 DEF FinishedInv, Top
  <2> QED BY <2>1, <2>2, <2>3, <2>4, <1>0 DEF ThreadInv
<1>b. /\ todo' \in [Iso -> Seq(Frame)] /\ FreeInv'
      /\ OnlyPushes(i, DiscardFrame(Head(mailbox[Top(i).arg]))) /\ \A j \in Iso : j # i => todo'[j] = todo[j]
  BY <1>0, <1>a, PushDiscard DEF FreeDrain, structVars
<1>1. TypeOK'
  BY <1>0, <1>a, <1>b DEF FreeDrain, structVars, handleVars, nativeVars, TypeOK
<1>2. CountExact'
  BY <1>0, CountUnchanged DEF FreeDrain, structVars, handleVars
<1>3. PlacedInv'
  BY <1>0 DEF FreeDrain, structVars, handleVars, nativeVars, PlacedInv
<1>4. LiveInv'
  BY <1>0 DEF FreeDrain, structVars, handleVars, nativeVars, LiveInv
<1>5. FreeInv'
  BY <1>b
<1>6. ThreadInv'
  BY <1>0, <1>a, <1>b, FrameFacts
     DEF FreeDrain, structVars, handleVars, nativeVars, TypeOK, ThreadInv, OnlyPushes,
         Frames, FrameAt
<1>7. OperandInv'
  BY <1>0 DEF FreeDrain, structVars, handleVars, nativeVars, OperandInv, TypeOK
<1>8. CreationInv'
  BY <1>0 DEF FreeDrain, structVars, handleVars, nativeVars, CreationInv, TypeOK, Target
<1>9. FinishedInv'
  <2>1. \A k \in Iso : pc[k] \in Finished => mailbox'[k] = mailbox[k]
    BY <1>0, <1>a DEF FreeDrain, FinishedInv, TypeOK
  <2> QED BY <2>1, <1>0, <1>a, <1>b, FinishedKept DEF FreeDrain, nativeVars
<1> QED BY <1>1, <1>2, <1>3, <1>4, <1>5, <1>6, <1>7, <1>8, <1>9 DEF IInv

\* Only a thread never created has a boot message when its isolate is freed.
LEMMA FreeBootStep ==
  ASSUME IInv, NEW i \in Iso, FreeBoot(i)
  PROVE  IInv'
<1>0. /\ TypeOK /\ CountExact /\ PlacedInv /\ LiveInv /\ FreeInv
      /\ ThreadInv /\ OperandInv /\ CreationInv /\ FinishedInv
  BY DEF IInv
<1>a. /\ todo[i] # <<>> /\ FrameAt(i, Len(todo[i]), "free") /\ Len(todo[i]) \in Frames(i)
      /\ Top(i).arg \in Iso /\ boot[Top(i).arg] # None /\ boot[Top(i).arg] \in Msg
      /\ thr[i] /\ pc[i] \in {"run", "teardown"} /\ count[Top(i).arg] = 0
  <2>1. /\ todo[i] # <<>> /\ FrameAt(i, Len(todo[i]), "free") /\ Len(todo[i]) \in Frames(i)
        /\ Top(i).arg \in Iso /\ boot[Top(i).arg] # None
    BY <1>0, BelowFacts DEF FreeBoot, TopIs, Top, Frame, Frames, FrameAt
  <2>2. boot[Top(i).arg] \in Msg /\ count[Top(i).arg] = 0
    BY <2>1, <1>0 DEF TypeOK, FreeInv, Top
  <2>3. pc[i] \in {"run", "teardown", "left"}
    BY <2>1, <1>0 DEF ThreadInv
  <2>4. pc[i] # "left"
    BY <2>1, <1>0 DEF FinishedInv, Finished, Top
  <2> QED BY <2>1, <2>2, <2>3, <2>4, <1>0 DEF ThreadInv
<1>b. /\ todo' \in [Iso -> Seq(Frame)] /\ FreeInv'
      /\ OnlyPushes(i, DiscardFrame(boot[Top(i).arg])) /\ \A j \in Iso : j # i => todo'[j] = todo[j]
  BY <1>0, <1>a, PushDiscard DEF FreeBoot, structVars
<1>1. TypeOK'
  BY <1>0, <1>a, <1>b DEF FreeBoot, structVars, handleVars, nativeVars, TypeOK
<1>2. CountExact'
  BY <1>0, CountUnchanged DEF FreeBoot, structVars, handleVars
<1>3. PlacedInv'
  BY <1>0 DEF FreeBoot, structVars, handleVars, nativeVars, PlacedInv
<1>4. LiveInv'
  BY <1>0 DEF FreeBoot, structVars, handleVars, nativeVars, LiveInv
<1>5. FreeInv'
  BY <1>b
<1>6. ThreadInv'
  BY <1>0, <1>a, <1>b, FrameFacts
     DEF FreeBoot, structVars, handleVars, nativeVars, TypeOK, ThreadInv, OnlyPushes,
         Frames, FrameAt
<1>7. OperandInv'
  BY <1>0 DEF FreeBoot, structVars, handleVars, nativeVars, OperandInv, TypeOK
<1>8. CreationInv'
  <2> DEFINE j == Top(i).arg
  <2>1. /\ \A k \in Iso : k # j => boot'[k] = boot[k]
        /\ UNCHANGED <<mem, parent, thr, names, pc, hnd>>
    BY <1>0 DEF FreeBoot, TypeOK, structVars, handleVars
  <2>2. ASSUME NEW k \in Iso, pc[k] = "spawn"
        PROVE  Target(k) # j /\ Target(k) \in Iso
    <3>1. hnd[k] \in Handle /\ Target(k) \in Iso
      BY <2>2, <1>0, IsolateAssumption
         DEF OperandInv, Operating, PlacedInv, TypeOK, Target, Iso
    <3> QED BY <3>1, <1>0, <1>a, HolderCounts DEF Target
  <2>3. pc[j] # "boot"
    BY <1>0, <1>a, HolderCounts DEF ThreadInv
  <2> HIDE DEF j
  <2>4. \A k \in Iso : Target(k)' = Target(k)
    BY <2>1 DEF Target
  <2> QED BY <2>1, <2>2, <2>3, <2>4, <1>0 DEF CreationInv
<1>9. FinishedInv'
  BY <1>0, <1>a, <1>b, FrameFacts, SMTT(40)
     DEF FreeBoot, structVars, handleVars, nativeVars, TypeOK, FinishedInv, Finished,
         OnlyPushes, Frames, FrameAt
<1> QED BY <1>1, <1>2, <1>3, <1>4, <1>5, <1>6, <1>7, <1>8, <1>9 DEF IInv

\* The struct dies with no holders left; its parent loses one.
LEMMA FreeStructStep ==
  ASSUME IInv, NEW i \in Iso, FreeStruct(i)
  PROVE  IInv'
<1>0. /\ TypeOK /\ CountExact /\ PlacedInv /\ LiveInv /\ FreeInv
      /\ ThreadInv /\ OperandInv /\ CreationInv /\ FinishedInv
  BY DEF IInv
<1> DEFINE j == Top(i).arg
           n == Len(todo[i])
<1>a. /\ todo[i] # <<>> /\ n \in Frames(i) /\ FrameAt(i, n, "free") /\ j = todo[i][n].arg
      /\ j \in Iso /\ mem[j] = "live" /\ count[j] = 0 /\ ~thr[j]
      /\ mem' = [mem EXCEPT ![j] = "freed"] /\ parent' = [parent EXCEPT ![j] = None]
      /\ UNCHANGED <<thr, handleVars, mailVars, nativeVars, pc, hnd, out, isoCount>>
  <2>1. todo[i] # <<>> /\ n \in Frames(i) /\ FrameAt(i, n, "free") /\ j = todo[i][n].arg /\ j \in Iso
    BY <1>0, BelowFacts DEF FreeStruct, TopIs, Top, Frame, Frames, FrameAt
  <2>2. mem[j] = "live" /\ count[j] = 0 /\ ~thr[j]
    BY <2>1, <1>0, HolderCounts DEF FreeInv
  <2> QED BY <2>1, <2>2 DEF FreeStruct
<1>b. pc[i] = "left" => pc[j] \in Finished
  BY <1>a, <1>0 DEF FinishedInv
<1>c. \A k \in Iso : k # j => parent[k] = parent'[k] /\ mem'[k] = mem[k]
  BY <1>a, <1>0 DEF TypeOK
<1>d. \A h \in Handle : names[h] # j
  BY <1>a, <1>0, HolderCounts
<1>e. \A k \in Iso : parent[k] # j
  BY <1>a, <1>0, HolderCounts
<1>f. /\ \A k \in Iso : k # i => todo'[k] = todo[k]
      /\ todo' \in [Iso -> Seq(Frame)] /\ count' \in [Iso -> Nat]
      /\ \/ /\ parent[j] = None /\ count' = count
            /\ \A k \in Frames(i)' : k \in 1 .. n - 1 /\ todo'[i][k] = todo[i][k]
         \/ /\ parent[j] \in Iso /\ parent[j] # j /\ count[parent[j]] >= 1
            /\ count' = [count EXCEPT ![parent[j]] = @ - 1]
            /\ \A k \in Frames(i)' :
                 \/ k \in 1 .. n - 1 /\ todo'[i][k] = todo[i][k]
                 \/ k = n /\ todo'[i][k] = FreeFrame(parent[j]) /\ count[parent[j]] = 1
  <2>1. /\ Below(i) \in Seq(Frame) /\ Len(Below(i)) = n - 1 /\ n \in Nat /\ n > 0
        /\ \A k \in 1 .. n - 1 : Below(i)[k] = todo[i][k]
    BY <1>0, <1>a, BelowFacts
  <2>2. todo \in [Iso -> Seq(Frame)] /\ count \in [Iso -> Nat]
    BY <1>0 DEF TypeOK
  <2>3. CASE parent[j] = None
    <3>1. todo' = [todo EXCEPT ![i] = Below(i)] /\ count' = count
      BY <2>3 DEF FreeStruct
    <3> QED BY <3>1, <2>1, <2>2, <2>3 DEF Frames
  <2>4. CASE parent[j] # None
    <3> DEFINE p == parent[j]
               s == Below(i)
    <3>1. p \in Iso /\ count[p] >= 1 /\ p # j
      BY <2>4, <1>0, <1>a, <1>e, HolderCounts DEF TypeOK
    <3>2. Release(i, p, s)
      BY <2>4 DEF FreeStruct
    <3>3. count' = [count EXCEPT ![p] = @ - 1] /\ count' \in [Iso -> Nat]
      BY <3>1, <3>2, <2>2 DEF Release
    <3>4. /\ FreeFrame(p) \in Frame /\ Append(s, FreeFrame(p)) \in Seq(Frame)
          /\ Len(Append(s, FreeFrame(p))) = n
          /\ \A k \in 1 .. n - 1 : Append(s, FreeFrame(p))[k] = s[k]
          /\ Append(s, FreeFrame(p))[n] = FreeFrame(p)
      BY <3>1, <2>1, FrameFacts
    <3>5. \/ todo' = [todo EXCEPT ![i] = s]
          \/ todo' = [todo EXCEPT ![i] = Append(s, FreeFrame(p))] /\ count[p] = 1
      BY <3>2 DEF Release
    <3>6. todo' \in [Iso -> Seq(Frame)] /\ \A k \in Iso : k # i => todo'[k] = todo[k]
      BY <3>4, <3>5, <2>1, <2>2
    <3>7. \A k \in Frames(i)' :
            \/ k \in 1 .. n - 1 /\ todo'[i][k] = todo[i][k]
            \/ k = n /\ todo'[i][k] = FreeFrame(p) /\ count[p] = 1
      <4>1. CASE todo' = [todo EXCEPT ![i] = s]
        BY <4>1, <2>1, <2>2 DEF Frames
      <4>2. CASE todo' = [todo EXCEPT ![i] = Append(s, FreeFrame(p))] /\ count[p] = 1
        BY <4>2, <3>4, <2>1, <2>2 DEF Frames
      <4> QED BY <4>1, <4>2, <3>5
    <3> QED BY <3>1, <3>3, <3>6, <3>7
  <2> QED BY <2>3, <2>4
<1>g. \A k \in Iso : \A l \in Frames(k)' :
        \/ l \in Frames(k) /\ todo'[k][l] = todo[k][l] /\ (k = i => l # n)
        \/ /\ k = i /\ parent[j] \in Iso /\ l = n /\ count[parent[j]] = 1
           /\ count' = [count EXCEPT ![parent[j]] = @ - 1]
           /\ todo'[k][l] = FreeFrame(parent[j])
  <2>1. n \in Nat /\ n > 0 /\ Frames(i) = 1 .. n
    BY <1>0, <1>a, BelowFacts DEF Frames
  <2>2. ASSUME NEW k \in Iso, k # i
        PROVE  \A l \in Frames(k)' : l \in Frames(k) /\ todo'[k][l] = todo[k][l]
    BY <2>2, <1>f DEF Frames
  <2>3. ASSUME NEW l \in Frames(i)'
        PROVE  \/ l \in 1 .. n - 1 /\ todo'[i][l] = todo[i][l]
               \/ /\ parent[j] \in Iso /\ l = n /\ count[parent[j]] = 1
                  /\ count' = [count EXCEPT ![parent[j]] = @ - 1]
                  /\ todo'[i][l] = FreeFrame(parent[j])
    BY <2>3, <1>f
  <2>4. \A l \in 1 .. n - 1 : l \in Frames(i) /\ l # n
    BY <2>1
  <2> HIDE DEF j, n
  <2> QED BY <2>2, <2>3, <2>4
<1>h. \A k \in Iso : count[k] = 0 => count'[k] = 0
  <2>1. count \in [Iso -> Nat]
    BY <1>0 DEF TypeOK
  <2> QED BY <2>1, <1>f, SMTT(40)
<1> HIDE DEF j, n
<1>1. TypeOK'
  BY <1>0, <1>a, <1>f DEF structVars, handleVars, mailVars, nativeVars, TypeOK
<1>2. CountExact'
  <2>1. CASE parent[j] = None
    <3>1. parent' = parent
      BY <2>1, <1>0, <1>a DEF TypeOK
    <3> QED BY <3>1, <2>1, <1>0, <1>a, <1>f, IsolateAssumption, CountUnchanged
       DEF handleVars
  <2>2. CASE parent[j] # None
    BY <2>2, <1>0, <1>a, <1>f, CountParentReleased DEF handleVars
  <2> QED BY <2>1, <2>2
<1>3. PlacedInv'
  BY <1>0 DEF FreeStruct, handleVars, mailVars, nativeVars, Release, PlacedInv
<1>4. LiveInv'
  <2>1. \A k \in Iso : mem'[k] # "live" => count[k] = 0
    BY <1>0, <1>a, <1>c DEF LiveInv
  <2> QED BY <2>1, <1>h DEF LiveInv
<1>5. FreeInv'
  <2>1. \A k \in Iso : \A l \in Frames(k) : FrameAt(k, l, "free") =>
          /\ todo[k][l].arg \in Iso
          /\ mem[todo[k][l].arg] = "live" /\ count[todo[k][l].arg] = 0
          /\ (k # i \/ l # n) => todo[k][l].arg # j
    BY <1>0, <1>a, SMTT(40) DEF FreeInv, TypeOK, Frames, FrameAt, Frame
  <2>3. \A k \in Iso : \A l \in Frames(k)' : FrameAt(k, l, "free")' =>
          \/ /\ l \in Frames(k) /\ FrameAt(k, l, "free") /\ todo'[k][l] = todo[k][l]
             /\ (k = i => l # n)
          \/ /\ k = i /\ l = n /\ todo'[k][l].arg = parent[j] /\ parent[j] \in Iso
             /\ count[parent[j]] = 1 /\ count'[parent[j]] = 0 /\ parent[j] # j
    BY <1>0, <1>a, <1>e, <1>g, FrameFacts, SMTT(40) DEF FrameAt, TypeOK
  <2>4. ASSUME NEW k \in Iso, NEW l \in Frames(k)', FrameAt(k, l, "free")'
        PROVE  mem'[todo'[k][l].arg] = "live" /\ count'[todo'[k][l].arg] = 0
    <3>1. CASE /\ l \in Frames(k) /\ FrameAt(k, l, "free") /\ todo'[k][l] = todo[k][l]
               /\ (k = i => l # n)
      BY <3>1, <2>1, <1>h, <1>c
    <3>2. CASE /\ todo'[k][l].arg = parent[j] /\ parent[j] \in Iso
               /\ count[parent[j]] = 1 /\ count'[parent[j]] = 0 /\ parent[j] # j
      BY <3>2, <1>0, <1>c DEF LiveInv
    <3> QED BY <2>3, <2>4, <3>1, <3>2
  <2>5. ASSUME NEW k \in Iso, NEW u \in Iso, NEW l \in Frames(k)', NEW o \in Frames(u)',
               FrameAt(k, l, "free")', FrameAt(u, o, "free")',
               todo'[k][l].arg = todo'[u][o].arg
        PROVE  k = u /\ l = o
    <3>1. CASE /\ l \in Frames(k) /\ FrameAt(k, l, "free") /\ todo'[k][l] = todo[k][l]
      <4>1. /\ o \in Frames(u) /\ FrameAt(u, o, "free") /\ todo'[u][o] = todo[u][o]
        BY <3>1, <2>1, <2>3, <2>5
      <4> QED BY <3>1, <4>1, <2>5, <1>0 DEF FreeInv
    <3>2. CASE /\ k = i /\ l = n /\ todo'[k][l].arg = parent[j] /\ count[parent[j]] = 1
      <4>1. u = i /\ o = n
        BY <3>2, <2>1, <2>3, <2>5
      <4> QED BY <3>2, <4>1
    <3> QED BY <3>1, <3>2, <2>3, <2>5
  <2> QED BY <2>4, <2>5 DEF FreeInv
<1>6. ThreadInv'
  <2>1. \A k \in Iso : todo[k] = <<>> => todo'[k] = <<>>
    BY <1>a, <1>f
  <2>2. \A k \in Iso : \A l \in Frames(k)' : FrameAt(k, l, "discard")' =>
          l \in Frames(k) /\ FrameAt(k, l, "discard")
    BY <1>g, FrameFacts DEF FrameAt
  <2> QED BY <2>1, <2>2, <1>0, <1>a DEF ThreadInv
<1>7. OperandInv'
  BY <1>0 DEF FreeStruct, handleVars, mailVars, nativeVars, Release, OperandInv, TypeOK
<1>8. CreationInv'
  <2>1. \A k \in Iso : pc[k] \in {"buildBoot", "spawn"} => Target(k) \in Iso /\ Target(k) # j
    <3>1. \A k \in Iso : pc[k] \in Operating => Target(k) \in Iso /\ count[Target(k)] >= 1
      BY OperandFacts
    <3> QED BY <3>1, <1>a DEF Operating
  <2>2. UNCHANGED <<thr, boot, pc, hnd, names>>
    BY <1>a DEF handleVars, mailVars
  <2>3. \A k \in Iso : mem'[k] = "unborn" => mem[k] = "unborn"
    BY <1>0, <1>a DEF TypeOK
  <2>4. \A k \in Iso : parent'[k] # None => parent[k] = parent'[k]
    BY <1>0, <1>a DEF TypeOK
  <2> QED BY <2>1, <2>2, <2>3, <2>4, <1>0, <1>c DEF CreationInv, Target
<1>9. FinishedInv'
  <2>1. UNCHANGED <<mailbox, closed, boot, done, pc>>
    BY <1>a DEF mailVars, nativeVars
  <2>2. ASSUME NEW k \in Iso, pc[k] = "left", NEW l \in Frames(k)', FrameAt(k, l, "free")'
        PROVE  pc[todo'[k][l].arg] \in Finished
    <3>1. CASE l \in Frames(k) /\ todo'[k][l] = todo[k][l]
      BY <3>1, <2>2, <1>0 DEF FinishedInv, FrameAt
    <3>2. CASE /\ k = i /\ parent[j] \in Iso /\ count[parent[j]] = 1
               /\ todo'[k][l] = FreeFrame(parent[j])
      <4>1. ~thr[parent[j]]
        BY <3>2, <1>0, <1>a, RunningParentCounts
      <4>2. parent[j] # None
        BY <3>2, IsolateAssumption
      <4>3. pc[parent[j]] \in {"left", "dead"}
        BY <4>1, <4>2, <3>2, <1>0, <1>a DEF ThreadInv, CreationInv, TypeOK, Phase
      <4> QED BY <4>3, <3>2, FrameFacts DEF Finished
    <3> QED BY <3>1, <3>2, <1>g, <2>2
  <2> QED BY <2>1, <2>2, <1>0 DEF FinishedInv
<1> QED BY <1>1, <1>2, <1>3, <1>4, <1>5, <1>6, <1>7, <1>8, <1>9 DEF IInv

-----------------------------------------------------------------------------
(* The theorems.                                                           *)

\* At the start only the main thread runs, under its own count.
LEMMA InitIInv == ASSUME Init PROVE IInv
<1>1. TypeOK
  BY IsolateAssumption DEF Init, TypeOK, Phase, Iso
<1>2. CountExact
  <2>1. \A j \in Iso : HeldBy(j) = {} /\ Children(j) = {}
    BY IsolateAssumption DEF Init, HeldBy, Children
  <2>2. Cardinality({}) = 0
    BY FS_EmptySet
  <2>3. \A j \in Iso : count[j] = IF thr[j] THEN 1 ELSE 0
    BY DEF Init
  <2> QED BY <2>1, <2>2, <2>3 DEF CountExact
<1>3. \A i \in Iso : todo[i] = <<>> /\ Frames(i) = {}
  BY DEF Init, Frames
<1>4. PlacedInv /\ LiveInv /\ FreeInv /\ ThreadInv
  BY <1>3 DEF Init, PlacedInv, LiveInv, FreeInv, ThreadInv
<1>5. \A i \in Iso : pc[i] \in {"run", "none"}
  BY DEF Init
<1>6. OperandInv
  BY <1>5 DEF OperandInv, Operating
<1>7. CreationInv
  BY <1>5 DEF Init, CreationInv
<1>8. FinishedInv
  <2>1. \A i \in Iso : pc[i] \notin Finished \cup {"teardown", "left"}
    BY <1>5 DEF Finished
  <2>2. \A i \in Iso : done[i] = FALSE /\ boot[i] = None
    BY DEF Init
  <2>3. \A i \in Iso : done[i] <=> pc[i] \in Finished
    BY <2>1, <2>2
  <2>4. ASSUME NEW i \in Iso
        PROVE  /\ pc[i] \in Finished \cup {"teardown"} => closed[i]
               /\ boot[i] # None => pc[i] \in {"none", "boot"}
               /\ pc[i] \in Finished => mailbox[i] = <<>>
               /\ pc[i] # "left"
    BY <2>1, <2>2
  <2> QED BY <2>3, <2>4 DEF FinishedInv
<1> QED BY <1>1, <1>2, <1>4, <1>6, <1>7, <1>8 DEF IInv

\* A step that changes nothing.
LEMMA StutterIInv == ASSUME IInv, UNCHANGED vars PROVE IInv'
<1>1. UNCHANGED <<mem, count, parent, thr, at, names, self, mailbox, closed, boot, inuse>>
  BY DEF vars, structVars, handleVars, mailVars
<1>2. UNCHANGED <<native, launched, joined, detached, done, pc, hnd, out, todo, isoCount>>
  BY DEF vars, nativeVars, threadVars
<1>3. TypeOK' /\ CountExact' /\ PlacedInv' /\ LiveInv'
  BY <1>1, <1>2 DEF IInv, TypeOK, CountExact, HeldBy, Children, PlacedInv, LiveInv
<1>4. FreeInv' /\ ThreadInv'
  BY <1>1, <1>2 DEF IInv, FreeInv, ThreadInv, Frames, FrameAt
<1>5. OperandInv' /\ CreationInv'
  BY <1>1, <1>2 DEF IInv, OperandInv, CreationInv, Target
<1>6. FinishedInv'
  BY <1>1, <1>2 DEF IInv, FinishedInv, Frames, FrameAt
<1> QED BY <1>3, <1>4, <1>5, <1>6 DEF IInv

\* Every step of the system is one of the actions above.
LEMMA NextIInv == ASSUME IInv, Next PROVE IInv'
<1> SUFFICES ASSUME NEW i \in Iso, Runtime(i) \/ Program(i) PROVE IInv'
  BY DEF Next
<1>1. CASE Runtime(i)
  <2>1. CASE BootReady(i) \/ SpawnOk(i) \/ SpawnFail(i) \/ Launched(i) \/ Post(i)
    BY <2>1, BootReadyStep, SpawnOkStep, SpawnFailStep, LaunchedStep, PostStep
  <2>2. CASE JoinReturn(i) \/ SpinReturn(i) \/ Enter(i) \/ DrainOne(i) \/ SweepEnd(i)
    BY <2>2, JoinReturnStep, SpinReturnStep, EnterStep, DrainOneStep, SweepEndStep
  <2>3. CASE Detach(i) \/ ReleaseSelf(i) \/ Gone(i) \/ DiscardEnd(i) \/ FreeDrain(i)
    BY <2>3, DetachStep, ReleaseSelfStep, GoneStep, DiscardEndStep, FreeDrainStep
  <2>4. CASE FreeBoot(i) \/ FreeStruct(i) \/ (pc[i] = "recv" /\ Receive(i))
    BY <2>4, FreeBootStep, FreeStructStep, ReceiveStep
  <2>5. CASE \E h \in Handle : SweepHandle(i, h) \/ DiscardHandle(i, h)
    BY <2>5, SweepHandleStep, DiscardHandleStep
  <2> QED BY <1>1, <2>1, <2>2, <2>3, <2>4, <2>5 DEF Runtime
<1>2. CASE Program(i)
  <2>1. CASE BuildFail(i) \/ ReceiveWait(i) \/ Return(i) \/ (pc[i] = "run" /\ Receive(i))
    BY <2>1, BuildFailStep, ReceiveWaitStep, ReturnStep, ReceiveStep
  <2>2. ASSUME NEW h \in Handle, GetCurrent(i, h) \/ GetParent(i, h) \/ Drop(i, h)
        PROVE  IInv'
    BY <2>2, GetCurrentStep, GetParentStep, DropStep
  <2>3. ASSUME NEW h \in Handle, JoinClaim(i, h) \/ JoinPoll(i, h)
        PROVE  IInv'
    BY <2>3, JoinClaimStep, JoinPollStep
  <2>4. ASSUME NEW h \in Handle, NEW m \in Msg, SendBegin(i, h, m)
        PROVE  IInv'
    BY <2>4, SendBeginStep
  <2>5. ASSUME NEW h \in Handle, NEW h2 \in Handle, CopyHandle(i, h, h2)
        PROVE  IInv'
    BY <2>5, CopyHandleStep
  <2>6. ASSUME NEW h \in Handle, NEW w \in Worker, NEW m \in Msg, StartCreate(i, w, h, m)
        PROVE  IInv'
    BY <2>6, StartCreateStep
  <2> QED BY <1>2, <2>1, <2>2, <2>3, <2>4, <2>5, <2>6 DEF Program
<1> QED BY <1>1, <1>2

(* The inductive invariant holds in every reachable state, whatever the     *)
(* number of isolates, Thread objects and messages.                         *)
THEOREM Invariance == Spec => []IInv
<1>1. Init => IInv
  BY InitIInv
<1>2. IInv /\ [Next]_vars => IInv'
  BY NextIInv, StutterIInv
<1> QED BY <1>1, <1>2, PTL DEF Spec

(* Type correctness; in particular handle_count never goes negative.        *)
THEOREM TypeCorrect == Spec => []TypeOK
<1>1. IInv => TypeOK
  BY DEF IInv
<1> QED BY <1>1, Invariance, PTL

(* handle_count equals the number of Thread objects, children and running   *)
(* threads that hold the isolate (isolate_retain, isolate_release).         *)
THEOREM CountsAreExact == Spec => []CountExact
<1>1. IInv => CountExact
  BY DEF IInv
<1> QED BY <1>1, Invariance, PTL

(* No Thread object, parent pointer, running thread or pending free reaches *)
(* an aisolate after isolate_free.                                          *)
THEOREM NoDanglingIsolate == Spec => []NoUseAfterFree
<1>1. ASSUME IInv PROVE NoUseAfterFree
  <2>0. /\ TypeOK /\ CountExact /\ PlacedInv /\ LiveInv /\ FreeInv /\ ThreadInv
    BY <1>1 DEF IInv
  <2>1. ASSUME NEW j \in Iso, count[j] >= 1 PROVE mem[j] = "live"
    BY <2>0, <2>1 DEF LiveInv, TypeOK
  <2>2. \A h \in Handle : at[h] # None => mem[names[h]] = "live"
    <3>1. \A h \in Handle : at[h] # None => names[h] \in Iso
      BY <2>0 DEF PlacedInv, TypeOK
    <3> QED BY <3>1, <2>0, <2>1, HolderCounts
  <2>3. \A w \in Iso : parent[w] # None => mem[parent[w]] = "live"
    <3>1. \A w \in Iso : parent[w] # None => parent[w] \in Iso
      BY <2>0 DEF TypeOK
    <3> QED BY <3>1, <2>0, <2>1, HolderCounts
  <2>4. \A i \in Iso : thr[i] => mem[i] = "live"
    BY <2>0, <2>1, HolderCounts
  <2>5. \A i \in Iso : pc[i] \notin {"none", "left", "dead"} => mem[i] = "live"
    BY <2>4, <2>0 DEF ThreadInv
  <2>6. \A i \in Iso : \A k \in Frames(i) :
          /\ FrameAt(i, k, "free") => mem[todo[i][k].arg] = "live"
          /\ FrameAt(i, k, "discard") => mem[i] = "live"
    BY <2>4, <2>0 DEF ThreadInv, FreeInv
  <2> QED BY <2>2, <2>3, <2>5, <2>6 DEF NoUseAfterFree
<1> QED BY <1>1, Invariance, PTL

\* No other action frees a struct.
LEMMA OnlyFreeStructFrees ==
  ASSUME IInv, Next, NEW w \in Iso, mem'[w] = "freed", mem[w] # "freed"
  PROVE  \E i \in Iso : FreeStruct(i) /\ w = Top(i).arg
<1>1. mem \in [Iso -> {"unborn", "live", "freed"}]
  BY DEF IInv, TypeOK
<1>2. PICK i \in Iso : Runtime(i) \/ Program(i)
  BY DEF Next
<1>3. mem' # mem
  OBVIOUS
<1>4. CASE Runtime(i)
  <2>1. CASE FreeStruct(i)
    BY <2>1, <1>1 DEF FreeStruct
  <2>2. CASE ~FreeStruct(i)
    <3>1. UNCHANGED mem
      BY <1>4, <2>2
         DEF Runtime, BootReady, SpawnOk, SpawnFail, Launched, Post, JoinReturn, SpinReturn,
             Enter, DrainOne, SweepEnd, Detach, ReleaseSelf, Gone, DiscardEnd, FreeDrain,
             FreeBoot, Receive, SweepHandle, DiscardHandle, structVars
    <3> QED BY <3>1, <1>3
  <2> QED BY <2>1, <2>2
<1>5. CASE Program(i)
  <2>1. UNCHANGED mem \/ \E v \in Worker : mem' = [mem EXCEPT ![v] = "live"]
    BY <1>5
       DEF Program, BuildFail, ReceiveWait, Return, Receive, GetCurrent, GetParent, Drop,
           JoinClaim, JoinPoll, SendBegin, CopyHandle, StartCreate, structVars
  <2> QED BY <2>1, <1>1
<1> QED BY <1>2, <1>4, <1>5

(* The struct of an isolate whose OS thread was created is freed once, and  *)
(* only after its teardown has published done.                              *)
THEOREM FreedOnlyAfterDone == Spec => FreedAfterDone
<1>1. ASSUME IInv, [Next]_vars
      PROVE  [\A w \in Iso : mem'[w] = "freed" /\ mem[w] # "freed"
                => mem[w] = "live" /\ (done[w] \/ pc[w] = "none")]_vars
  <2> SUFFICES ASSUME Next, NEW w \in Iso, mem'[w] = "freed", mem[w] # "freed"
               PROVE  mem[w] = "live" /\ (done[w] \/ pc[w] = "none")
    BY <1>1 DEF vars, structVars
  <2>0. TypeOK /\ CountExact /\ FreeInv /\ ThreadInv /\ FinishedInv
    BY <1>1 DEF IInv
  <2>1. PICK i \in Iso : FreeStruct(i) /\ w = Top(i).arg
    BY <1>1, OnlyFreeStructFrees
  <2>2. Len(todo[i]) \in Frames(i) /\ FrameAt(i, Len(todo[i]), "free") /\ w = todo[i][Len(todo[i])].arg
    BY <2>0, <2>1, BelowFacts DEF FreeStruct, TopIs, Top, Frames, FrameAt
  <2>3. mem[w] = "live" /\ count[w] = 0
    BY <2>0, <2>2 DEF FreeInv
  <2>4. ~thr[w]
    BY <2>0, <2>3, HolderCounts
  <2>5. pc[w] \in {"none", "left", "dead"}
    BY <2>0, <2>4 DEF ThreadInv
  <2> QED BY <2>0, <2>3, <2>5 DEF FinishedInv, Finished
<1> QED BY <1>1, Invariance, PTL DEF Spec, FreedAfterDone

-----------------------------------------------------------------------------
(* HeapInv.                                                                *)

\* Operations of a thread that goes on running: what it builds is in a
\* message, what it adopts comes into the heap of a thread that is not finished.
LEMMA HeapProgram ==
  ASSUME IInv, HeapInv, NEW i \in Iso, Program(i)
  PROVE  HeapInv'
<1>0. TypeOK
  BY DEF IInv
<1>1. CASE BuildFail(i)
  BY <1>0, <1>1 DEF BuildFail, Adopt, Goto, HeapInv, TypeOK, Finished
<1>2. CASE ReceiveWait(i)
  BY <1>0, <1>2 DEF ReceiveWait, Idle, Goto, handleVars, HeapInv, TypeOK, Finished
<1>3. CASE Return(i)
  BY <1>0, <1>3 DEF Return, Idle, Goto, handleVars, HeapInv, TypeOK, Finished
<1>4. CASE Receive(i)
  BY <1>0, <1>4 DEF Receive, Adopt, Goto, HeapInv, TypeOK, Finished
<1>5. ASSUME NEW h \in Handle, GetCurrent(i, h) \/ GetParent(i, h)
      PROVE  HeapInv'
  BY <1>0, <1>5
     DEF GetCurrent, GetParent, Idle, NewHandle, threadVars, HeapInv, TypeOK, Finished
<1>6. ASSUME NEW h \in Handle, Drop(i, h)
      PROVE  HeapInv'
  BY <1>0, <1>6, IsolateAssumption DEF Drop, HandleDies, HeapInv, TypeOK, Iso
<1>7. ASSUME NEW h \in Handle, JoinClaim(i, h) \/ JoinPoll(i, h)
      PROVE  HeapInv'
  <2>1. /\ UNCHANGED <<at, out>> /\ pc[i] = "run"
        /\ pc' \in {[pc EXCEPT ![i] = "pjoin"], [pc EXCEPT ![i] = "spin"]}
    BY <1>7 DEF JoinClaim, JoinPoll, Idle, Goto, handleVars
  <2> QED BY <2>1, <1>0 DEF HeapInv, TypeOK, Finished
<1>8. ASSUME NEW h \in Handle, NEW m \in Msg, SendBegin(i, h, m)
      PROVE  HeapInv'
  BY <1>0, <1>8 DEF SendBegin, Idle, Goto, handleVars, HeapInv, TypeOK, Finished
<1>9. ASSUME NEW h \in Handle, NEW h2 \in Handle, CopyHandle(i, h, h2)
      PROVE  HeapInv'
  <2>1. out[i] \in Msg
    BY <1>9 DEF IInv, OperandInv, CopyHandle
  <2> QED BY <2>1, <1>0, <1>9, IsolateAssumption
     DEF CopyHandle, NewHandle, threadVars, HeapInv, TypeOK
<1>10. ASSUME NEW h \in Handle, NEW w \in Worker, NEW m \in Msg, StartCreate(i, w, h, m)
       PROVE  HeapInv'
  BY <1>0, <1>10 DEF StartCreate, Idle, NewHandle, Goto, HeapInv, TypeOK, Finished
<1> QED BY <1>1, <1>2, <1>3, <1>4, <1>5, <1>6, <1>7, <1>8, <1>9, <1>10 DEF Program

\* The runtime's own steps: a thread finishes when its sweep has found no
\* Thread object left.
LEMMA HeapRuntime ==
  ASSUME IInv, HeapInv, NEW i \in Iso, Runtime(i)
  PROVE  HeapInv'
<1>0. TypeOK
  BY DEF IInv
<1>1. CASE BootReady(i) \/ Post(i)
  <2>1. /\ UNCHANGED at /\ out' = [out EXCEPT ![i] = None]
        /\ pc' \in {[pc EXCEPT ![i] = "spawn"], [pc EXCEPT ![i] = "run"]}
    BY <1>1 DEF BootReady, Post, Goto, handleVars
  <2> QED BY <2>1, <1>0 DEF HeapInv, TypeOK, Finished
<1>2. CASE SpawnOk(i)
  <2>1. Target(i) \in Iso /\ Target(i) # i /\ pc[Target(i)] = "none"
    BY <1>2, CreationFacts DEF SpawnOk
  <2> QED BY <2>1, <1>0, <1>2 DEF SpawnOk, handleVars, HeapInv, TypeOK, Finished
<1>3. CASE SpawnFail(i) \/ Launched(i) \/ JoinReturn(i) \/ SpinReturn(i)
  <2>1. /\ UNCHANGED <<at, out>> /\ pc[i] \in {"spawn", "launch", "pjoin", "spin"}
        /\ pc' = [pc EXCEPT ![i] = "run"]
    BY <1>3 DEF SpawnFail, Launched, JoinReturn, SpinReturn, Goto, handleVars
  <2> QED BY <2>1, <1>0 DEF HeapInv, TypeOK, Finished
<1>4. CASE Enter(i) \/ Receive(i)
  <2>1. /\ UNCHANGED out /\ pc[i] \in {"boot", "run", "recv"}
        /\ pc' = [pc EXCEPT ![i] = "run"]
        /\ \A h \in Handle : at'[h] \in {at[h], i}
    BY <1>4 DEF Enter, Receive, Adopt, Goto
  <2> QED BY <2>1, <1>0 DEF HeapInv, TypeOK, Finished
<1>5. CASE SweepEnd(i)
  BY <1>0, <1>5 DEF SweepEnd, Goto, handleVars, HeapInv, TypeOK, Finished
<1>6. CASE Detach(i) \/ ReleaseSelf(i) \/ Gone(i)
  BY <1>0, <1>6 DEF Detach, ReleaseSelf, Gone, Goto, handleVars, HeapInv, TypeOK, Finished
<1>7. CASE DrainOne(i) \/ DiscardEnd(i) \/ FreeDrain(i) \/ FreeBoot(i) \/ FreeStruct(i)
  <2>1. UNCHANGED <<at, pc, out>>
    BY <1>7 DEF DrainOne, DiscardEnd, FreeDrain, FreeBoot, FreeStruct, handleVars
  <2> QED BY <2>1 DEF HeapInv
<1>8. ASSUME NEW h \in Handle, SweepHandle(i, h) \/ DiscardHandle(i, h)
      PROVE  HeapInv'
  BY <1>0, <1>8, IsolateAssumption
     DEF SweepHandle, DiscardHandle, HandleDies, HeapInv, TypeOK, Iso
<1> QED BY <1>1, <1>2, <1>3, <1>4, <1>5, <1>6, <1>7, <1>8 DEF Runtime

-----------------------------------------------------------------------------
(* ClaimInv.                                                               *)

\* The isolate an operation is about stays the same as long as it waits.
LEMMA TargetKept ==
  ASSUME IInv, Next, NEW j \in Iso, pc[j] \in Operating, pc'[j] = pc[j]
  PROVE  Target(j)' = Target(j)
<1>0. TypeOK
  BY DEF IInv
<1>1. hnd[j] \in Handle /\ at[hnd[j]] = j /\ Target(j) = names[hnd[j]]
  BY OperandFacts
<1>2. None \notin Iso /\ Iso \cap Msg = {}
  BY IsolateAssumption
<1>3. PICK i \in Iso : Runtime(i) \/ Program(i)
  BY DEF Next
<1>4. hnd'[j] = hnd[j]
  <2>1. CASE Runtime(i)
    BY <1>0, <2>1
       DEF Runtime, BootReady, SpawnOk, SpawnFail, Launched, Post, JoinReturn, SpinReturn,
           Enter, DrainOne, SweepEnd, Detach, ReleaseSelf, Gone, DiscardEnd, FreeDrain,
           FreeBoot, FreeStruct, Receive, SweepHandle, DiscardHandle, Goto, TypeOK
  <2>2. CASE Program(i)
    BY <1>0, <2>2
       DEF Program, BuildFail, ReceiveWait, Return, Receive, GetCurrent, GetParent, Drop,
           JoinClaim, JoinPoll, SendBegin, CopyHandle, StartCreate, Idle, Goto, threadVars,
           TypeOK, Operating
  <2> QED BY <1>3, <2>1, <2>2
<1>5. names'[hnd[j]] = names[hnd[j]]
  <2>1. ASSUME NEW h \in Handle, SweepHandle(i, h) \/ Drop(i, h)
        PROVE  names'[hnd[j]] = names[hnd[j]]
    BY <1>0, <1>1, <2>1 DEF SweepHandle, Drop, Idle, HandleDies, TypeOK, Operating
  <2>2. ASSUME NEW h \in Handle, DiscardHandle(i, h)
        PROVE  names'[hnd[j]] = names[hnd[j]]
    <3>1. Top(i).arg \in Msg
      BY <1>0, <2>2, BelowFacts DEF DiscardHandle, TopIs, Frame
    <3> QED BY <3>1, <1>0, <1>1, <1>2, <2>2 DEF DiscardHandle, HandleDies, TypeOK
  <2>3. ASSUME NEW h \in Handle, NEW place, NEW x, NewHandle(h, place, x)
        PROVE  names'[hnd[j]] = names[hnd[j]]
    BY <1>0, <1>1, <1>2, <2>3 DEF NewHandle, TypeOK
  <2>4. CASE Runtime(i)
    BY <2>1, <2>2, <2>4
       DEF Runtime, BootReady, SpawnOk, SpawnFail, Launched, Post, JoinReturn, SpinReturn,
           Enter, DrainOne, SweepEnd, Detach, ReleaseSelf, Gone, DiscardEnd, FreeDrain,
           FreeBoot, FreeStruct, Receive, handleVars
  <2>5. CASE Program(i)
    BY <2>1, <2>3, <2>5
       DEF Program, BuildFail, ReceiveWait, Return, Receive, GetCurrent, GetParent,
           JoinClaim, JoinPoll, SendBegin, CopyHandle, StartCreate, handleVars
  <2> QED BY <1>3, <2>4, <2>5
<1> QED BY <1>4, <1>5 DEF Target

\* A step that leaves the three flags alone, starts no joiner and moves no
\* thread past its decision.
LEMMA ClaimKept ==
  ASSUME IInv, ClaimInv, Next, UNCHANGED <<joined, detached>>,
         \A j \in Iso : launched[j] => launched'[j],
         \A j \in Iso : pc'[j] = "pjoin" => pc[j] = "pjoin",
         \A j \in Iso : pc'[j] \in {"release", "left", "dead"}
                        => pc[j] \in {"release", "left", "dead"}
  PROVE  ClaimInv'
<1>1. \A j \in Iso : pc'[j] = "pjoin" => Target(j)' = Target(j) /\ Target(j) \in Iso
  BY TargetKept, OperandFacts DEF Operating
<1> QED BY <1>1 DEF ClaimInv

\* A thread nobody has claimed yet detaches itself; the flag was clear when
\* somebody had.
LEMMA ClaimDetach ==
  ASSUME IInv, ClaimInv, Next, NEW i \in Iso, Detach(i)
  PROVE  ClaimInv'
<1>0. TypeOK
  BY DEF IInv
<1>1. \A j \in Iso : pc'[j] = "pjoin" => pc[j] = "pjoin"
  BY <1>0 DEF Detach, Goto, TypeOK
<1>2. \A j \in Iso : pc'[j] = "pjoin" => Target(j)' = Target(j) /\ Target(j) \in Iso
  BY <1>1, TargetKept, OperandFacts DEF Operating
<1>3. UNCHANGED <<joined, launched>> /\ detached' = [detached EXCEPT ![i] = ~joined[i]]
  BY DEF Detach
<1>4. \A j \in Iso : pc'[j] \in {"release", "left", "dead"}
                     => j = i \/ pc[j] \in {"release", "left", "dead"}
  BY <1>0 DEF Detach, Goto, TypeOK
<1>5. \A j \in Iso : ~(joined'[j] /\ detached'[j])
  BY <1>0, <1>3 DEF ClaimInv, TypeOK
<1>6. \A j \in Iso : joined[j] \/ detached[j] => joined'[j] \/ detached'[j]
  BY <1>0, <1>3 DEF TypeOK
<1>7. joined'[i] \/ detached'[i]
  BY <1>0, <1>3 DEF TypeOK
<1> QED BY <1>1, <1>2, <1>3, <1>4, <1>5, <1>6, <1>7 DEF ClaimInv

\* A joiner claims a thread that nobody joins and that has not detached itself.
LEMMA ClaimJoin ==
  ASSUME IInv, ClaimInv, Next, NEW i \in Iso, NEW h \in Handle, JoinClaim(i, h)
  PROVE  ClaimInv'
<1>0. TypeOK
  BY DEF IInv
<1>1. \A j \in Iso : pc'[j] = "pjoin" /\ j # i => pc[j] = "pjoin"
  BY <1>0 DEF JoinClaim, Goto, TypeOK
<1>2. \A j \in Iso : pc'[j] = "pjoin" /\ j # i => Target(j)' = Target(j) /\ Target(j) \in Iso
  BY <1>1, TargetKept, OperandFacts DEF Operating
<1>3. /\ names[h] \in Iso /\ Target(i)' = names[h]
      /\ launched[names[h]] /\ ~joined[names[h]] /\ ~detached[names[h]]
  <2>1. names[h] \in Iso
    BY <1>0, IsolateAssumption DEF JoinClaim, IInv, PlacedInv, TypeOK, Iso
  <2> QED BY <2>1, <1>0 DEF JoinClaim, CanClaim, Target, handleVars, TypeOK
<1>4. UNCHANGED <<launched, detached>> /\ joined' = [joined EXCEPT ![names[h]] = TRUE]
  BY DEF JoinClaim
<1>5. \A j \in Iso : pc'[j] \in {"release", "left", "dead"}
                     => pc[j] \in {"release", "left", "dead"}
  BY <1>0 DEF JoinClaim, Idle, Goto, TypeOK
<1>6. ASSUME NEW j \in Iso
      PROVE  /\ ~(joined'[j] /\ detached'[j])
             /\ pc'[j] \in {"release", "left", "dead"} => joined'[j] \/ detached'[j]
  BY <1>0, <1>3, <1>4, <1>5 DEF ClaimInv, TypeOK
<1>7. ASSUME NEW j \in Iso, pc'[j] = "pjoin"
      PROVE  launched'[Target(j)'] /\ joined'[Target(j)']
  <2>1. CASE j = i
    BY <2>1, <1>0, <1>3, <1>4 DEF TypeOK
  <2>2. CASE j # i
    <3>1. launched[Target(j)] /\ joined[Target(j)]
      BY <2>2, <1>1, <1>7 DEF ClaimInv
    <3> QED BY <2>2, <3>1, <1>0, <1>2, <1>4, <1>7 DEF TypeOK
  <2> QED BY <2>1, <2>2
<1>8. \A j \in Iso : pc'[j] = "pjoin" /\ j # i => joined[Target(j)'] /\ Target(j)' # Target(i)'
  BY <1>1, <1>2, <1>3 DEF ClaimInv
<1>9. ASSUME NEW j \in Iso, NEW k \in Iso, pc'[j] = "pjoin", pc'[k] = "pjoin",
             Target(j)' = Target(k)'
      PROVE  j = k
  <2>1. CASE j # i /\ k # i
    <3>1. pc[j] = "pjoin" /\ pc[k] = "pjoin" /\ Target(j) = Target(k)
      BY <2>1, <1>1, <1>2, <1>9
    <3> QED BY <3>1 DEF ClaimInv
  <2>2. CASE j = i \/ k = i
    BY <2>2, <1>8, <1>9
  <2> QED BY <2>1, <2>2
<1> QED BY <1>6, <1>7, <1>9 DEF ClaimInv

\* Every other step keeps the claims as they are.
LEMMA ClaimNext == ASSUME IInv, ClaimInv, Next PROVE ClaimInv'
<1>0. TypeOK
  BY DEF IInv
<1>1. PICK i \in Iso : Runtime(i) \/ Program(i)
  BY DEF Next
<1>2. CASE Detach(i)
  BY <1>2, ClaimDetach
<1>3. CASE \E h \in Handle : JoinClaim(i, h)
  BY <1>3, ClaimJoin
<1>4. CASE ~Detach(i) /\ ~(\E h \in Handle : JoinClaim(i, h))
  <2>1. UNCHANGED <<joined, detached>>
    <3>1. CASE Runtime(i)
      BY <1>4, <3>1
         DEF Runtime, BootReady, SpawnOk, SpawnFail, Launched, Post, JoinReturn, SpinReturn,
             Enter, DrainOne, SweepEnd, ReleaseSelf, Gone, DiscardEnd, FreeDrain,
             FreeBoot, FreeStruct, Receive, SweepHandle, DiscardHandle, nativeVars
    <3>2. CASE Program(i)
      BY <1>4, <3>2
         DEF Program, BuildFail, ReceiveWait, Return, Receive, GetCurrent, GetParent, Drop,
             JoinPoll, SendBegin, CopyHandle, StartCreate, nativeVars
    <3> QED BY <1>1, <3>1, <3>2
  <2>2. UNCHANGED launched \/ Launched(i)
    <3>1. CASE Runtime(i)
      BY <1>4, <3>1
         DEF Runtime, BootReady, SpawnOk, SpawnFail, Post, JoinReturn, SpinReturn,
             Enter, DrainOne, SweepEnd, ReleaseSelf, Gone, DiscardEnd, FreeDrain,
             FreeBoot, FreeStruct, Receive, SweepHandle, DiscardHandle, nativeVars
    <3>2. CASE Program(i)
      BY <1>4, <3>2
         DEF Program, BuildFail, ReceiveWait, Return, Receive, GetCurrent, GetParent, Drop,
             JoinPoll, SendBegin, CopyHandle, StartCreate, nativeVars
    <3> QED BY <1>1, <3>1, <3>2
  <2>3. \A j \in Iso : launched[j] => launched'[j]
    BY <2>2, <1>0 DEF Launched, TypeOK
  <2>4. \A j \in Iso : /\ pc'[j] = "pjoin" => pc[j] = "pjoin"
                       /\ pc'[j] \in {"release", "left", "dead"}
                            => pc[j] \in {"release", "left", "dead"}
    <3>1. CASE Runtime(i)
      <4>1. \/ pc' = pc
            \/ \E p \in {"spawn", "run", "detach"} : pc' = [pc EXCEPT ![i] = p]
            \/ pc[i] = "release" /\ pc' = [pc EXCEPT ![i] = "left"]
            \/ pc[i] = "left" /\ pc' = [pc EXCEPT ![i] = "dead"]
            \/ pc' = [pc EXCEPT ![i] = "launch", ![Target(i)] = "boot"]
        BY <1>4, <3>1
           DEF Runtime, BootReady, SpawnOk, SpawnFail, Launched, Post, JoinReturn, SpinReturn,
               Enter, DrainOne, SweepEnd, ReleaseSelf, Gone, DiscardEnd, FreeDrain,
               FreeBoot, FreeStruct, Receive, SweepHandle, DiscardHandle, Goto
      <4> QED BY <4>1, <1>0 DEF TypeOK
    <3>2. CASE Program(i)
      <4>1. \/ pc' = pc
            \/ \E p \in {"run", "recv", "teardown", "spin", "buildSend", "buildBoot"} :
                 pc' = [pc EXCEPT ![i] = p]
        BY <1>4, <3>2
           DEF Program, BuildFail, ReceiveWait, Return, Receive, GetCurrent, GetParent, Drop,
               JoinPoll, SendBegin, CopyHandle, StartCreate, Goto, threadVars
      <4> QED BY <4>1, <1>0 DEF TypeOK
    <3> QED BY <1>1, <3>1, <3>2
  <2> QED BY <2>1, <2>3, <2>4, ClaimKept
<1> QED BY <1>2, <1>3, <1>4

-----------------------------------------------------------------------------
(* CountedInv.                                                             *)

\* There are finitely many workers to count.
LEMMA CountedFinite == IsFiniteSet(Counted) /\ Cardinality(Counted) \in Nat
<1>1. Counted \subseteq Worker
  BY DEF Counted
<1> QED BY <1>1, IsolateAssumption, FS_Subset, FS_CardinalityType

\* A step that starts no thread and ends none.
LEMMA CountedKept ==
  ASSUME CountedInv, UNCHANGED <<thr, isoCount>>,
         pc'[Main] \notin Finished \cup {"none", "boot", "teardown"},
         \A w \in Worker : pc'[w] \in {"none", "dead"} <=> pc[w] \in {"none", "dead"}
  PROVE  CountedInv'
<1>1. Counted' = Counted
  BY DEF Counted
<1> QED BY <1>1 DEF CountedInv

\* The main thread is nobody's worker: it is not created, and does not end.
LEMMA MainRuns ==
  ASSUME IInv, CountedInv, NEW i \in Iso, NEW p, pc' = [pc EXCEPT ![i] = p],
         i = Main => p \notin Finished \cup {"none", "boot", "teardown"}
  PROVE  pc'[Main] \notin Finished \cup {"none", "boot", "teardown"}
  BY DEF IInv, TypeOK, CountedInv, Iso

\* BootReady counts the worker before it runs.
LEMMA CountedBootReady ==
  ASSUME IInv, CountedInv, NEW i \in Iso, BootReady(i)
  PROVE  CountedInv'
<1>0. TypeOK
  BY DEF IInv
<1> DEFINE w == Target(i)
<1>1. w \in Iso /\ w # i /\ pc[w] = "none" /\ ~thr[w]
  BY <1>0, CreationFacts DEF BootReady, TypeOK
<1>2. w \in Worker
  BY <1>1 DEF CountedInv, Iso
<1>3. /\ pc' = [pc EXCEPT ![i] = "spawn"] /\ thr' = [thr EXCEPT ![w] = TRUE]
      /\ isoCount' = isoCount + 1 /\ pc[i] = "buildBoot"
  BY DEF BootReady, Goto
<1>4. Counted' = Counted \cup {w} /\ w \notin Counted
  BY <1>0, <1>1, <1>2, <1>3 DEF Counted, TypeOK, Iso
<1>5. Cardinality(Counted') = Cardinality(Counted) + 1
  BY <1>4, CountedFinite, FS_AddElement
<1>6. pc'[Main] \notin Finished \cup {"none", "boot", "teardown"}
  BY <1>3, MainRuns DEF Finished
<1> QED BY <1>3, <1>5, <1>6, CountedFinite DEF CountedInv

\* The worker takes over the count made for it.
LEMMA CountedSpawnOk ==
  ASSUME IInv, CountedInv, NEW i \in Iso, SpawnOk(i)
  PROVE  CountedInv'
<1>0. TypeOK
  BY DEF IInv
<1> DEFINE w == Target(i)
<1>1. w \in Iso /\ w # i /\ pc[w] = "none" /\ thr[w] /\ pc[i] = "spawn"
  BY <1>0, CreationFacts DEF SpawnOk, TypeOK
<1>2. w # Main
  BY <1>1 DEF CountedInv
<1>3. /\ pc' = [pc EXCEPT ![i] = "launch", ![w] = "boot"]
      /\ UNCHANGED <<thr, isoCount>>
  BY DEF SpawnOk, structVars
<1>4. Counted' = Counted
  BY <1>0, <1>1, <1>3 DEF Counted, TypeOK, Iso
<1>5. pc'[Main] \notin Finished \cup {"none", "boot", "teardown"}
  BY <1>0, <1>1, <1>2, <1>3 DEF CountedInv, TypeOK, Iso, Finished
<1> QED BY <1>3, <1>4, <1>5 DEF CountedInv

\* The count made for a worker that never came is taken back.
LEMMA CountedSpawnFail ==
  ASSUME IInv, CountedInv, NEW i \in Iso, SpawnFail(i)
  PROVE  CountedInv'
<1>0. TypeOK
  BY DEF IInv
<1> DEFINE w == Target(i)
<1>1. w \in Iso /\ w # i /\ pc[w] = "none" /\ thr[w] /\ pc[i] = "spawn"
  BY <1>0, CreationFacts DEF SpawnFail, TypeOK
<1>2. w \in Worker
  BY <1>1 DEF CountedInv, Iso
<1>3. /\ pc' = [pc EXCEPT ![i] = "run"] /\ thr' = [thr EXCEPT ![w] = FALSE]
      /\ isoCount' = isoCount - 1
  BY DEF SpawnFail, Goto
<1>4. Counted' = Counted \ {w} /\ w \in Counted
  BY <1>0, <1>1, <1>2, <1>3 DEF Counted, TypeOK, Iso
<1>5. Cardinality(Counted') = Cardinality(Counted) - 1
  BY <1>4, CountedFinite, FS_RemoveElement
<1>6. pc'[Main] \notin Finished \cup {"none", "boot", "teardown"}
  BY <1>3, MainRuns DEF Finished
<1> QED BY <1>3, <1>5, <1>6, CountedFinite DEF CountedInv

\* A worker gives its own count back and is still counted.
LEMMA CountedReleaseSelf ==
  ASSUME IInv, CountedInv, NEW i \in Iso, ReleaseSelf(i)
  PROVE  CountedInv'
<1>0. TypeOK
  BY DEF IInv
<1>1. i # Main /\ pc[i] = "release"
  BY DEF ReleaseSelf, CountedInv, Finished
<1>2. /\ pc' = [pc EXCEPT ![i] = "left"] /\ thr' = [thr EXCEPT ![i] = FALSE]
      /\ UNCHANGED isoCount
  BY DEF ReleaseSelf, Goto
<1>3. Counted' = Counted
  BY <1>0, <1>1, <1>2 DEF Counted, TypeOK, Iso
<1>4. pc'[Main] \notin Finished \cup {"none", "boot", "teardown"}
  BY <1>1, <1>2, MainRuns
<1> QED BY <1>2, <1>3, <1>4 DEF CountedInv

\* The last runtime action of a worker.
LEMMA CountedGone ==
  ASSUME IInv, CountedInv, NEW i \in Iso, Gone(i)
  PROVE  CountedInv'
<1>0. TypeOK /\ ThreadInv
  BY DEF IInv
<1>1. i # Main /\ pc[i] = "left" /\ ~thr[i]
  BY <1>0 DEF Gone, CountedInv, Finished, ThreadInv
<1>2. i \in Worker
  BY <1>1 DEF Iso
<1>3. /\ pc' = [pc EXCEPT ![i] = "dead"] /\ UNCHANGED thr /\ isoCount' = isoCount - 1
  BY DEF Gone, Goto, structVars
<1>4. Counted' = Counted \ {i} /\ i \in Counted
  BY <1>0, <1>1, <1>2, <1>3 DEF Counted, TypeOK, Iso
<1>5. Cardinality(Counted') = Cardinality(Counted) - 1
  BY <1>4, CountedFinite, FS_RemoveElement
<1>6. pc'[Main] \notin Finished \cup {"none", "boot", "teardown"}
  BY <1>1, <1>3, MainRuns
<1> QED BY <1>3, <1>5, <1>6, CountedFinite DEF CountedInv

\* Every other step leaves each thread running that ran.
LEMMA CountedNext == ASSUME IInv, CountedInv, Next PROVE CountedInv'
<1>0. TypeOK
  BY DEF IInv
<1>1. PICK i \in Iso : Runtime(i) \/ Program(i)
  BY DEF Next
<1>2. CASE BootReady(i) \/ SpawnOk(i) \/ SpawnFail(i) \/ ReleaseSelf(i) \/ Gone(i)
  BY <1>2, CountedBootReady, CountedSpawnOk, CountedSpawnFail, CountedReleaseSelf, CountedGone
<1>3. CASE ~(BootReady(i) \/ SpawnOk(i) \/ SpawnFail(i) \/ ReleaseSelf(i) \/ Gone(i))
  <2>1. UNCHANGED <<thr, isoCount>>
    <3>1. CASE Runtime(i)
      BY <1>3, <3>1
         DEF Runtime, Launched, Post, JoinReturn, SpinReturn, Enter, DrainOne, SweepEnd,
             Detach, DiscardEnd, FreeDrain, FreeBoot, FreeStruct, Receive, SweepHandle,
             DiscardHandle, structVars
    <3>2. CASE Program(i)
      BY <3>2
         DEF Program, BuildFail, ReceiveWait, Return, Receive, GetCurrent, GetParent, Drop,
             JoinClaim, JoinPoll, SendBegin, CopyHandle, StartCreate, structVars
    <3> QED BY <1>1, <3>1, <3>2
  <2>2. \/ pc' = pc
        \/ \E p \in Phase \ {"none", "dead"} :
             /\ pc' = [pc EXCEPT ![i] = p] /\ pc[i] \notin {"none", "dead"}
             /\ i = Main => p \notin Finished \cup {"none", "boot", "teardown"}
    <3>1. CASE Runtime(i)
      <4>1. \/ pc' = pc
            \/ pc' = [pc EXCEPT ![i] = "run"] /\ pc[i] \notin {"none", "dead"}
            \/ pc' = [pc EXCEPT ![i] = "detach"] /\ pc[i] = "teardown"
            \/ pc' = [pc EXCEPT ![i] = "release"] /\ pc[i] = "detach"
        BY <1>3, <3>1
           DEF Runtime, Launched, Post, JoinReturn, SpinReturn, Enter, DrainOne, SweepEnd,
               Detach, DiscardEnd, FreeDrain, FreeBoot, FreeStruct, Receive, SweepHandle,
               DiscardHandle, Goto
      <4>2. i = Main => pc[i] \notin {"teardown", "detach"}
        BY DEF CountedInv, Finished
      <4>3. /\ {"run", "detach", "release"} \subseteq Phase \ {"none", "dead"}
            /\ "run" \notin Finished \cup {"none", "boot", "teardown"}
        BY DEF Phase, Finished
      <4> QED BY <4>1, <4>2, <4>3
    <3>2. CASE Program(i)
      <4>1. \/ pc' = pc
            \/ /\ pc[i] \in {"run", "recv", "buildBoot", "buildSend"}
               /\ \/ \E p \in {"run", "recv", "pjoin", "spin", "buildSend", "buildBoot"} :
                       pc' = [pc EXCEPT ![i] = p]
                  \/ i # Main /\ pc' = [pc EXCEPT ![i] = "teardown"]
        BY <3>2
           DEF Program, BuildFail, ReceiveWait, Return, Receive, GetCurrent, GetParent, Drop,
               JoinClaim, JoinPoll, SendBegin, CopyHandle, StartCreate, Idle, Goto, threadVars
      <4>2. /\ {"run", "recv", "pjoin", "spin", "buildSend", "buildBoot", "teardown"}
                 \subseteq Phase \ {"none", "dead"}
            /\ \A p \in {"run", "recv", "pjoin", "spin", "buildSend", "buildBoot"} :
                 p \notin Finished \cup {"none", "boot", "teardown"}
        BY DEF Phase, Finished
      <4> QED BY <4>1, <4>2
    <3> QED BY <1>1, <3>1, <3>2
  <2>3. pc'[Main] \notin Finished \cup {"none", "boot", "teardown"}
    BY <2>2, MainRuns DEF CountedInv
  <2>4. \A w \in Worker : pc'[w] \in {"none", "dead"} <=> pc[w] \in {"none", "dead"}
    BY <2>2, <1>0 DEF TypeOK, Iso
  <2> QED BY <2>1, <2>3, <2>4, CountedKept
<1> QED BY <1>2, <1>3

-----------------------------------------------------------------------------
(* The theorems.                                                           *)

\* Nothing is copied, joined or counted yet.
LEMMA InitExitInv == ASSUME Init PROVE ExitInv
<1>1. /\ \A i \in Iso : out[i] = None /\ pc[i] \in {"run", "none"} /\ ~detached[i] /\ ~thr[i] = (i # Main)
      /\ pc[Main] = "run"
  BY DEF Init, Iso
<1>2. HeapInv /\ ClaimInv
  BY <1>1 DEF Init, HeapInv, ClaimInv, Finished
<1>3. Counted = {}
  BY <1>1, IsolateAssumption DEF Init, Counted, Iso
<1>4. CountedInv
  BY <1>1, <1>3, FS_EmptySet DEF Init, CountedInv, Finished
<1> QED BY <1>2, <1>4 DEF ExitInv

\* A step that changes nothing.
LEMMA StutterExitInv == ASSUME ExitInv, UNCHANGED vars PROVE ExitInv'
<1>1. UNCHANGED <<pc, out, at, names, hnd, joined, detached, launched, thr, isoCount>>
  BY DEF vars, structVars, handleVars, nativeVars, threadVars
<1>2. Counted' = Counted
  BY <1>1 DEF Counted
<1> QED BY <1>1, <1>2 DEF ExitInv, HeapInv, ClaimInv, CountedInv, Target

(* Both inductive invariants hold in every reachable state.                 *)
THEOREM ExitInvariance == Spec => [](IInv /\ ExitInv)
<1>1. Init => ExitInv
  BY InitExitInv
<1>2. ASSUME IInv, ExitInv, Next PROVE ExitInv'
  <2>1. HeapInv'
    BY <1>2, HeapProgram, HeapRuntime DEF ExitInv, Next
  <2> QED BY <1>2, <2>1, ClaimNext, CountedNext DEF ExitInv
<1>3. IInv /\ ExitInv /\ [Next]_vars => ExitInv'
  BY <1>2, StutterExitInv
<1> QED BY <1>1, <1>3, Invariance, PTL DEF Spec

\* A thread that has published done owns nothing any more.
LEMMA DoneOwnsNothing == ASSUME IInv, HeapInv PROVE TeardownComplete
<1>1. ASSUME NEW i \in Iso, done[i]
      PROVE  pc[i] \in Finished /\ pc[i] \notin {"none", "boot", "buildBoot", "buildSend"}
  BY <1>1 DEF IInv, FinishedInv, Finished
<1> QED BY <1>1 DEF IInv, FinishedInv, HeapInv, TeardownComplete

(* isolate_teardown is complete: once done is published the mailbox is      *)
(* closed and empty, and no boot message, message under construction or     *)
(* Thread object of the isolate is left, whatever late senders do.          *)
THEOREM TeardownIsComplete == Spec => []TeardownComplete
<1>1. IInv /\ ExitInv => TeardownComplete
  BY DoneOwnsNothing DEF ExitInv
<1> QED BY <1>1, ExitInvariance, PTL

(* The OS thread of a worker is joined by one pthread_join or detached,     *)
(* never both and never neither (Thread.c: the flags under the global lock). *)
THEOREM JoinedOrDetachedOnce == Spec => []JoinXorDetach
<1>1. IInv /\ ExitInv => JoinXorDetach
  BY DEF ExitInv, ClaimInv, JoinXorDetach, Iso
<1> QED BY <1>1, ExitInvariance, PTL

(* The count behind the single-thread shortcut (core.h:528-532) is above    *)
(* one while a worker runs or frees, and back at one when all are gone.     *)
THEOREM ShortcutIsSound == Spec => []SingleThreadShortcut
<1>1. ASSUME IInv, CountedInv PROVE SingleThreadShortcut
  <2>0. TypeOK /\ ThreadInv
    BY <1>1 DEF IInv
  <2>1. ASSUME NEW w \in Worker, pc[w] \notin {"none", "dead"} \/ todo[w] # <<>>
        PROVE  w \in Counted
    BY <2>0, <2>1 DEF ThreadInv, Counted, Iso
  <2>2. ASSUME NEW w \in Worker, w \in Counted PROVE isoCount >= 2
    <3>1. Cardinality(Counted) # 0
      BY <2>2, CountedFinite, FS_EmptySet
    <3> QED BY <3>1, <1>1, CountedFinite DEF CountedInv
  <2>3. ASSUME \A w \in Worker : pc[w] \in {"none", "dead"} /\ ~thr[w]
        PROVE  isoCount = 1
    <3>1. Counted = {}
      BY <2>3 DEF Counted
    <3> QED BY <3>1, <1>1, FS_EmptySet DEF CountedInv
  <2> QED BY <2>1, <2>2, <2>3 DEF SingleThreadShortcut
<1>2. IInv /\ ExitInv => SingleThreadShortcut
  BY <1>1 DEF ExitInv
<1> QED BY <1>2, ExitInvariance, PTL

\* A join that has waited comes back in one of two ways.
LEMMA OnlyJoinsReturn ==
  ASSUME IInv, Next, NEW j \in Iso, pc[j] \in {"pjoin", "spin"}, pc'[j] = "run"
  PROVE  JoinReturn(j) \/ SpinReturn(j)
<1>0. TypeOK
  BY DEF IInv
<1>1. PICK i \in Iso : Runtime(i) \/ Program(i)
  BY DEF Next
<1>2. CASE Runtime(i) /\ ~(JoinReturn(i) \/ SpinReturn(i))
  <2>1. \/ pc' = pc
        \/ pc[i] \notin {"pjoin", "spin"} /\ \E p \in Phase : pc' = [pc EXCEPT ![i] = p]
        \/ pc[i] = "spawn" /\ pc' = [pc EXCEPT ![i] = "launch", ![Target(i)] = "boot"]
    BY <1>2
       DEF Runtime, BootReady, SpawnOk, SpawnFail, Launched, Post, Enter, DrainOne, SweepEnd,
           Detach, ReleaseSelf, Gone, DiscardEnd, FreeDrain, FreeBoot, FreeStruct, Receive,
           SweepHandle, DiscardHandle, Goto, Phase
  <2> QED BY <2>1, <1>0 DEF TypeOK
<1>3. CASE JoinReturn(i) \/ SpinReturn(i)
  BY <1>3, <1>0 DEF JoinReturn, SpinReturn, Goto, TypeOK
<1>4. CASE Program(i)
  <2>1. \/ pc' = pc
        \/ pc[i] \notin {"pjoin", "spin"} /\ \E p \in Phase : pc' = [pc EXCEPT ![i] = p]
    BY <1>4
       DEF Program, BuildFail, ReceiveWait, Return, Receive, GetCurrent, GetParent, Drop,
           JoinClaim, JoinPoll, SendBegin, CopyHandle, StartCreate, Idle, Goto, threadVars,
           Phase
  <2> QED BY <2>1, <1>0 DEF TypeOK
<1> QED BY <1>1, <1>2, <1>3, <1>4

(* What join() waits for has happened when it returns: the thread it names  *)
(* has closed its mailbox, released its heap and sends nothing more.        *)
THEOREM JoinHasWaited == Spec => JoinWaits
<1>1. ASSUME IInv, ExitInv, [Next]_vars
      PROVE  [\A i \in Iso : pc[i] \in {"pjoin", "spin"} /\ pc'[i] = "run" /\ Target(i) # i
                => LET j == Target(i) IN
                   closed[j] /\ out[j] = None /\ \A h \in Handle : at[h] # j]_vars
  <2> SUFFICES ASSUME Next, NEW i \in Iso, pc[i] \in {"pjoin", "spin"}, pc'[i] = "run",
                      Target(i) # i
               PROVE  /\ closed[Target(i)] /\ out[Target(i)] = None
                      /\ \A h \in Handle : at[h] # Target(i)
    BY <1>1 DEF vars, threadVars
  <2>1. JoinReturn(i) \/ SpinReturn(i)
    BY <1>1, OnlyJoinsReturn
  <2>2. Target(i) \in Iso
    BY <1>1, OperandFacts DEF Operating
  <2>3. done[Target(i)]
    BY <1>1, <2>1, <2>2 DEF JoinReturn, SpinReturn, IInv, FinishedInv, Finished
  <2> QED BY <1>1, <2>2, <2>3, DoneOwnsNothing DEF ExitInv, TeardownComplete
<1> QED BY <1>1, ExitInvariance, PTL DEF Spec, JoinWaits

-----------------------------------------------------------------------------
(***************************************************************************)
(* The owner of a message.                                                 *)
(***************************************************************************)

(* One lemma per way a message enters or leaves a place.                   *)

\* A message that is in no mailbox is appended to one.
LEMMA Enqueue ==
  ASSUME TypeOK, QueuedOnce, NEW j \in Iso, NEW m \in Msg, m \notin Queued,
         mailbox' = [mailbox EXCEPT ![j] = Append(@, m)]
  PROVE  Queued' = Queued \cup {m} /\ QueuedOnce'
<1> DEFINE s == mailbox[j]
<1>1. mailbox \in [Iso -> Seq(Msg)] /\ s \in Seq(Msg)
  BY DEF TypeOK
<1>2. /\ Len(s) \in Nat /\ DOMAIN s = 1 .. Len(s)
      /\ DOMAIN Append(s, m) = 1 .. Len(s) + 1
      /\ Append(s, m)[Len(s) + 1] = m
      /\ \A k \in 1 .. Len(s) : Append(s, m)[k] = s[k]
  BY <1>1
<1>3. mailbox'[j] = Append(s, m) /\ \A i \in Iso : i # j => mailbox'[i] = mailbox[i]
  BY <1>1
<1>4. \A i \in Iso : \A k \in DOMAIN mailbox'[i] :
        \/ k \in DOMAIN mailbox[i] /\ mailbox'[i][k] = mailbox[i][k]
        \/ i = j /\ k = Len(s) + 1 /\ mailbox'[i][k] = m
  BY <1>2, <1>3
<1>5. \A i \in Iso : \A k \in DOMAIN mailbox[i] :
        k \in DOMAIN mailbox'[i] /\ mailbox'[i][k] = mailbox[i][k]
  BY <1>2, <1>3
<1>6. Len(s) + 1 \in DOMAIN mailbox'[j] /\ mailbox'[j][Len(s) + 1] = m
  BY <1>2, <1>3
<1>7. Queued' = Queued \cup {m}
  BY <1>4, <1>5, <1>6 DEF Queued
<1>8. \A i \in Iso : \A k \in DOMAIN mailbox[i] : mailbox[i][k] # m
  BY DEF Queued
<1>9. QueuedOnce'
  BY <1>4, <1>8 DEF QueuedOnce
<1> QED BY <1>7, <1>9

\* The oldest message of a mailbox is taken out.
LEMMA Dequeue ==
  ASSUME TypeOK, QueuedOnce, NEW j \in Iso, mailbox[j] # <<>>,
         mailbox' = [mailbox EXCEPT ![j] = Tail(@)]
  PROVE  /\ Head(mailbox[j]) \in Queued
         /\ Queued' = Queued \ {Head(mailbox[j])} /\ QueuedOnce'
<1> DEFINE s == mailbox[j]
<1>1. mailbox \in [Iso -> Seq(Msg)] /\ s \in Seq(Msg) /\ s # <<>>
  BY DEF TypeOK
<1>2. /\ Len(s) \in Nat /\ Len(s) >= 1 /\ DOMAIN s = 1 .. Len(s)
      /\ Head(s) = s[1] /\ s[1] \in Msg
      /\ DOMAIN Tail(s) = 1 .. Len(s) - 1
      /\ \A k \in 1 .. Len(s) - 1 : Tail(s)[k] = s[k + 1]
  BY <1>1
<1>3. mailbox'[j] = Tail(s) /\ \A i \in Iso : i # j => mailbox'[i] = mailbox[i]
  BY <1>1
<1>4. \A i \in Iso : \A k \in DOMAIN mailbox'[i] :
        \/ i # j /\ k \in DOMAIN mailbox[i] /\ mailbox'[i][k] = mailbox[i][k]
        \/ i = j /\ k \in Nat /\ k >= 1 /\ k + 1 \in DOMAIN mailbox[i] /\ mailbox'[i][k] = mailbox[i][k + 1]
  <2>1. \A k \in DOMAIN Tail(s) : k \in Nat /\ k >= 1 /\ k + 1 \in DOMAIN s /\ Tail(s)[k] = s[k + 1]
    BY <1>2
  <2>2. \A i \in Iso : i # j => DOMAIN mailbox'[i] = DOMAIN mailbox[i]
    BY <1>3
  <2> QED BY <2>1, <2>2, <1>3
<1>5. \A i \in Iso : \A n \in DOMAIN mailbox[i] :
        \/ \E k \in DOMAIN mailbox'[i] : mailbox'[i][k] = mailbox[i][n]
        \/ i = j /\ n = 1
  <2>1. \A n \in DOMAIN s : n # 1 => n - 1 \in DOMAIN Tail(s) /\ Tail(s)[n - 1] = s[n]
    BY <1>2
  <2>2. ASSUME NEW i \in Iso, NEW n \in DOMAIN mailbox[i], ~(i = j /\ n = 1)
        PROVE  \E k \in DOMAIN mailbox'[i] : mailbox'[i][k] = mailbox[i][n]
    <3>1. CASE i = j
      <4>1. n \in DOMAIN s /\ n # 1 /\ mailbox[i] = s /\ mailbox'[i] = Tail(s)
        BY <3>1, <2>2, <1>3
      <4>2. n - 1 \in DOMAIN mailbox'[i] /\ mailbox'[i][n - 1] = mailbox[i][n]
        BY <4>1, <2>1
      <4> QED BY <4>2
    <3>2. CASE i # j
      BY <3>2, <2>2, <1>3
    <3> QED BY <3>1, <3>2
  <2> QED BY <2>2
<1>6. 1 \in DOMAIN s /\ Head(s) \in Queued
  BY <1>2 DEF Queued
<1>7. \A i \in Iso : \A n \in DOMAIN mailbox[i] : mailbox[i][n] = Head(s) <=> i = j /\ n = 1
  BY <1>2, <1>6 DEF QueuedOnce
<1>8. \A i \in Iso : \A k \in DOMAIN mailbox'[i] :
        \E n \in DOMAIN mailbox[i] : mailbox'[i][k] = mailbox[i][n] /\ ~(i = j /\ n = 1)
  BY <1>4
<1>9. Queued' = Queued \ {Head(s)}
  BY <1>5, <1>7, <1>8 DEF Queued
<1>10. QueuedOnce'
  <2> SUFFICES ASSUME NEW i \in Iso, NEW u \in Iso,
                      NEW k \in DOMAIN mailbox'[i], NEW n \in DOMAIN mailbox'[u],
                      mailbox'[i][k] = mailbox'[u][n]
               PROVE  i = u /\ k = n
    BY DEF QueuedOnce
  <2>1. CASE i # j /\ u # j
    BY <2>1, <1>4 DEF QueuedOnce
  <2>2. CASE i = j /\ u = j
    <3>1. k + 1 = n + 1 /\ k \in Nat /\ n \in Nat
      BY <2>2, <1>4 DEF QueuedOnce
    <3> QED BY <3>1, <2>2
  <2>3. CASE i # j /\ u = j
    BY <2>3, <1>4 DEF QueuedOnce
  <2>4. CASE i = j /\ u # j
    BY <2>4, <1>4 DEF QueuedOnce
  <2> QED BY <2>1, <2>2, <2>3, <2>4
<1> QED BY <1>6, <1>9, <1>10

\* A message is filed as the boot message of an isolate that has none.
LEMMA BootFiled ==
  ASSUME TypeOK, BootedOnce, NEW w \in Iso, NEW m \in Msg, m \notin Booted, boot[w] = None,
         boot' = [boot EXCEPT ![w] = m]
  PROVE  Booted' = Booted \cup {m} /\ BootedOnce'
<1>1. \A i \in Iso : boot'[i] = IF i = w THEN m ELSE boot[i]
  BY DEF TypeOK
<1>2. Booted' = Booted \cup {m}
  BY <1>1, IsolateAssumption DEF Booted
<1>3. \A i \in Iso : boot[i] # m
  BY DEF Booted
<1> QED BY <1>1, <1>2, <1>3 DEF BootedOnce

\* A boot message is opened or handed over to be discarded.
LEMMA BootTaken ==
  ASSUME TypeOK, BootedOnce, NEW w \in Iso, boot[w] # None,
         boot' = [boot EXCEPT ![w] = None]
  PROVE  boot[w] \in Booted /\ Booted' = Booted \ {boot[w]} /\ BootedOnce'
<1>1. \A i \in Iso : boot'[i] = IF i = w THEN None ELSE boot[i]
  BY DEF TypeOK
<1>2. boot[w] \in Msg /\ None \notin Msg
  BY IsolateAssumption DEF TypeOK
<1>3. \A i \in Iso : boot[i] = boot[w] => i = w
  BY DEF BootedOnce
<1>4. boot[w] \in Booted /\ Booted' = Booted \ {boot[w]}
  BY <1>1, <1>2, <1>3 DEF Booted
<1> QED BY <1>1, <1>4 DEF BootedOnce

\* The construction of a message begins.
LEMMA BuildBegun ==
  ASSUME TypeOK, BuiltOnce, NEW w \in Iso, NEW m \in Msg, m \notin Built, out[w] = None,
         out' = [out EXCEPT ![w] = m]
  PROVE  Built' = Built \cup {m} /\ BuiltOnce'
<1>1. \A i \in Iso : out'[i] = IF i = w THEN m ELSE out[i]
  BY DEF TypeOK
<1>2. Built' = Built \cup {m}
  BY <1>1, IsolateAssumption DEF Built
<1>3. \A i \in Iso : out[i] # m
  BY DEF Built
<1> QED BY <1>1, <1>2, <1>3 DEF BuiltOnce

\* The message under construction is handed on or given up.
LEMMA BuildEnded ==
  ASSUME TypeOK, BuiltOnce, NEW w \in Iso, out[w] # None,
         out' = [out EXCEPT ![w] = None]
  PROVE  out[w] \in Built /\ Built' = Built \ {out[w]} /\ BuiltOnce'
<1>1. \A i \in Iso : out'[i] = IF i = w THEN None ELSE out[i]
  BY DEF TypeOK
<1>2. out[w] \in Msg /\ None \notin Msg
  BY IsolateAssumption DEF TypeOK
<1>3. \A i \in Iso : out[i] = out[w] => i = w
  BY DEF BuiltOnce
<1>4. out[w] \in Built /\ Built' = Built \ {out[w]}
  BY <1>1, <1>2, <1>3 DEF Built
<1> QED BY <1>1, <1>4 DEF BuiltOnce

\* A step that neither begins nor ends a discard.
LEMMA DoomedKept ==
  ASSUME DoomedOnce,
         \A i \in Iso : \A k \in Frames(i)' : todo'[i][k].op = "discard"
            => k \in Frames(i) /\ todo'[i][k] = todo[i][k],
         \A i \in Iso : \A k \in Frames(i) : todo[i][k].op = "discard"
            => k \in Frames(i)' /\ todo'[i][k] = todo[i][k]
  PROVE  Doomed' = Doomed /\ DoomedOnce'
<1>1. \A m \in Msg : DiscardFrame(m).op = "discard"
  BY FrameFacts
<1>2. Doomed' = Doomed
  BY <1>1 DEF Doomed
<1>3. DoomedOnce'
  <2> SUFFICES ASSUME NEW i \in Iso, NEW u \in Iso, NEW k \in Frames(i)', NEW n \in Frames(u)',
                      FrameAt(i, k, "discard")', todo'[i][k] = todo'[u][n]
               PROVE  i = u /\ k = n
    BY DEF DoomedOnce
  <2>1. /\ k \in Frames(i) /\ todo'[i][k] = todo[i][k] /\ FrameAt(i, k, "discard")
        /\ n \in Frames(u) /\ todo'[u][n] = todo[u][n]
    BY DEF FrameAt
  <2> QED BY <2>1 DEF DoomedOnce
<1> QED BY <1>2, <1>3

\* A release may begin a free, never a discard.
LEMMA ReleaseDoomed ==
  ASSUME TypeOK, DoomedOnce, NEW t \in Iso, NEW j \in Iso, Release(t, j, todo[t])
  PROVE  Doomed' = Doomed /\ DoomedOnce'
<1> DEFINE s == todo[t]
           f == FreeFrame(j)
<1>1. /\ todo \in [Iso -> Seq(Frame)] /\ s \in Seq(Frame)
      /\ f \in Frame /\ f.op = "free"
  BY FrameFacts DEF TypeOK
<1>2. /\ Len(Append(s, f)) = Len(s) + 1 /\ Len(s) \in Nat
      /\ \A k \in 1 .. Len(s) : Append(s, f)[k] = s[k]
      /\ Append(s, f)[Len(s) + 1] = f
  BY <1>1
<1>3. todo'[t] \in {s, Append(s, f)} /\ \A i \in Iso : i # t => todo'[i] = todo[i]
  BY <1>1 DEF Release
<1>4. \A i \in Iso : \A k \in Frames(i)' :
        \/ k \in Frames(i) /\ todo'[i][k] = todo[i][k]
        \/ todo'[i][k] = f
  BY <1>2, <1>3 DEF Frames
<1>5. \A i \in Iso : \A k \in Frames(i) : k \in Frames(i)' /\ todo'[i][k] = todo[i][k]
  BY <1>2, <1>3 DEF Frames
<1> QED BY <1>1, <1>4, <1>5, DoomedKept

\* A message that is not being discarded goes to its death.
LEMMA DiscardBegun ==
  ASSUME TypeOK, DoomedOnce, NEW t \in Iso, NEW m \in Msg, m \notin Doomed,
         todo' = [todo EXCEPT ![t] = Append(@, DiscardFrame(m))]
  PROVE  Doomed' = Doomed \cup {m} /\ DoomedOnce'
<1> DEFINE s == todo[t]
           f == DiscardFrame(m)
<1>1. /\ todo \in [Iso -> Seq(Frame)] /\ s \in Seq(Frame)
      /\ f \in Frame /\ f.op = "discard" /\ f.arg = m
  BY FrameFacts DEF TypeOK
<1>2. /\ Len(Append(s, f)) = Len(s) + 1 /\ Len(s) \in Nat
      /\ \A k \in 1 .. Len(s) : Append(s, f)[k] = s[k]
      /\ Append(s, f)[Len(s) + 1] = f
  BY <1>1
<1>3. todo'[t] = Append(s, f) /\ \A i \in Iso : i # t => todo'[i] = todo[i]
  BY <1>1
<1>4. \A i \in Iso : \A k \in Frames(i)' :
        \/ k \in Frames(i) /\ todo'[i][k] = todo[i][k]
        \/ i = t /\ k = Len(s) + 1 /\ todo'[i][k] = f
  BY <1>2, <1>3 DEF Frames
<1>5. \A i \in Iso : \A k \in Frames(i) : k \in Frames(i)' /\ todo'[i][k] = todo[i][k]
  BY <1>2, <1>3 DEF Frames
<1>6. Len(s) + 1 \in Frames(t)' /\ todo'[t][Len(s) + 1] = f
  BY <1>2, <1>3 DEF Frames
<1>7. \A x \in Msg : DiscardFrame(x) = f => x = m
  BY <1>1, FrameFacts
<1>8. Doomed' = Doomed \cup {m}
  <2>1. ASSUME NEW x \in Doomed' PROVE x \in Doomed \/ x = m
    <3>0. PICK i \in Iso : \E k \in Frames(i)' : todo'[i][k] = DiscardFrame(x)
      BY <2>1 DEF Doomed
    <3>1. PICK k \in Frames(i)' : todo'[i][k] = DiscardFrame(x)
      BY <3>0
    <3>2. CASE k \in Frames(i) /\ todo'[i][k] = todo[i][k]
      BY <3>1, <3>2 DEF Doomed
    <3>3. CASE todo'[i][k] = f
      BY <3>1, <3>3, <1>7 DEF Doomed
    <3> QED BY <3>2, <3>3, <1>4
  <2>2. m \in Doomed'
    BY <1>6 DEF Doomed
  <2>3. ASSUME NEW x \in Doomed PROVE x \in Doomed'
    BY <1>5 DEF Doomed
  <2> QED BY <2>1, <2>2, <2>3
<1>9. \A i \in Iso : \A k \in Frames(i) : todo[i][k] # f
  BY DEF Doomed
<1>10. DoomedOnce'
  <2> SUFFICES ASSUME NEW i \in Iso, NEW u \in Iso, NEW k \in Frames(i)', NEW n \in Frames(u)',
                      FrameAt(i, k, "discard")', todo'[i][k] = todo'[u][n]
               PROVE  i = u /\ k = n
    BY DEF DoomedOnce
  <2>1. CASE todo'[i][k] = f
    <3>1. i = t /\ k = Len(s) + 1
      BY <2>1, <1>4, <1>9
    <3>2. todo'[u][n] = f
      BY <2>1
    <3>3. u = t /\ n = Len(s) + 1
      BY <3>2, <1>4, <1>9
    <3> QED BY <3>1, <3>3
  <2>2. CASE todo'[i][k] # f
    <3>1. /\ k \in Frames(i) /\ todo'[i][k] = todo[i][k] /\ FrameAt(i, k, "discard")
          /\ n \in Frames(u) /\ todo'[u][n] = todo[u][n]
      BY <2>2, <1>4 DEF FrameAt
    <3> QED BY <3>1 DEF DoomedOnce
  <2> QED BY <2>1, <2>2
<1> QED BY <1>8, <1>10

\* The innermost discard is done.
LEMMA DiscardEnded ==
  ASSUME TypeOK, DoomedOnce, NEW t \in Iso, TopIs(t, "discard"),
         todo' = [todo EXCEPT ![t] = Below(t)]
  PROVE  /\ Top(t).arg \in Doomed
         /\ Doomed' = Doomed \ {Top(t).arg} /\ DoomedOnce'
<1> DEFINE z == Len(todo[t])
           m == Top(t).arg
<1>1. /\ todo[t] # <<>> /\ z \in Nat /\ z > 0 /\ z \in Frames(t) /\ todo[t][z] = Top(t)
      /\ Top(t) \in Frame /\ Top(t).op = "discard"
  BY BelowFacts DEF TopIs, Frames, Top
<1>2. m \in Msg /\ Top(t) = DiscardFrame(m)
  BY <1>1 DEF Frame, DiscardFrame
<1>3. m \in Doomed
  BY <1>1, <1>2 DEF Doomed
<1>4. /\ \A i \in Iso : \A k \in Frames(i)' : k \in Frames(i) /\ todo'[i][k] = todo[i][k]
      /\ z \notin Frames(t)'
  BY <1>1, PopFacts
<1>5. \A i \in Iso : \A k \in Frames(i) : (i = t /\ k = z) \/ k \in Frames(i)'
  <2>1. todo'[t] = Below(t) /\ \A i \in Iso : i # t => todo'[i] = todo[i]
    BY DEF TypeOK
  <2>2. Len(Below(t)) = z - 1
    BY <1>1, BelowFacts
  <2> QED BY <2>1, <2>2, <1>1 DEF Frames
<1>6. \A i \in Iso : \A k \in Frames(i) : todo[i][k] = DiscardFrame(m) <=> i = t /\ k = z
  BY <1>1, <1>2 DEF DoomedOnce, FrameAt
<1>7. \A x \in Msg : DiscardFrame(x) = DiscardFrame(m) => x = m
  BY FrameFacts
<1>8. Doomed' = Doomed \ {m}
  <2>1. ASSUME NEW x \in Doomed' PROVE x \in Doomed /\ x # m
    <3>0. PICK i \in Iso : \E k \in Frames(i)' : todo'[i][k] = DiscardFrame(x)
      BY <2>1 DEF Doomed
    <3>1. PICK k \in Frames(i)' : todo'[i][k] = DiscardFrame(x)
      BY <3>0
    <3>2. k \in Frames(i) /\ todo[i][k] = DiscardFrame(x) /\ ~(i = t /\ k = z)
      BY <3>1, <1>4
    <3> QED BY <3>2, <2>1, <1>6 DEF Doomed
  <2>2. ASSUME NEW x \in Doomed, x # m PROVE x \in Doomed'
    <3>0. PICK i \in Iso : \E k \in Frames(i) : todo[i][k] = DiscardFrame(x)
      BY DEF Doomed
    <3>1. PICK k \in Frames(i) : todo[i][k] = DiscardFrame(x)
      BY <3>0
    <3>2. k \in Frames(i)' /\ todo'[i][k] = DiscardFrame(x)
      BY <3>1, <2>2, <1>1, <1>2, <1>4, <1>5, <1>7 DEF Doomed
    <3> QED BY <3>2 DEF Doomed
  <2> QED BY <2>1, <2>2
<1>9. DoomedOnce'
  <2> SUFFICES ASSUME NEW i \in Iso, NEW u \in Iso, NEW k \in Frames(i)', NEW n \in Frames(u)',
                      FrameAt(i, k, "discard")', todo'[i][k] = todo'[u][n]
               PROVE  i = u /\ k = n
    BY DEF DoomedOnce
  <2> QED BY <1>4 DEF DoomedOnce, FrameAt
<1> QED BY <1>3, <1>8, <1>9

\* The struct is freed: its free ends, and that of its parent may begin.
LEMMA FreeStructDoomed ==
  ASSUME TypeOK, DoomedOnce, NEW t \in Iso, FreeStruct(t)
  PROVE  Doomed' = Doomed /\ DoomedOnce'
<1> DEFINE z == Len(todo[t])
           b == Below(t)
           f == FreeFrame(parent[Top(t).arg])
<1>1. /\ todo[t] # <<>> /\ z \in Nat /\ z > 0 /\ Top(t) \in Frame /\ Top(t).op = "free"
      /\ b \in Seq(Frame) /\ Len(b) = z - 1 /\ \A k \in 1 .. z - 1 : b[k] = todo[t][k]
      /\ todo[t][z] = Top(t)
  BY BelowFacts DEF FreeStruct, TopIs, Top
<1>2. Top(t).arg \in Iso
  BY <1>1 DEF Frame
<1>3. parent[Top(t).arg] # None => f \in Frame /\ f.op = "free"
  BY <1>2, FrameFacts DEF TypeOK
<1>4. \/ todo' = [todo EXCEPT ![t] = b]
      \/ parent[Top(t).arg] # None /\ todo' = [todo EXCEPT ![t] = Append(b, f)]
  <2>1. CASE parent[Top(t).arg] = None
    BY <2>1 DEF FreeStruct
  <2>2. CASE parent[Top(t).arg] # None
    <3>1. Release(t, parent[Top(t).arg], b)
      BY <2>2 DEF FreeStruct
    <3> QED BY <3>1, <2>2 DEF Release
  <2> QED BY <2>1, <2>2
<1>5. f \in Frame => /\ Len(Append(b, f)) = z /\ \A k \in 1 .. z - 1 : Append(b, f)[k] = b[k]
                     /\ Append(b, f)[z] = f
  BY <1>1
<1>6. \A i \in Iso : i # t => todo'[i] = todo[i]
  BY <1>4 DEF TypeOK
<1>7. /\ \A k \in Frames(t)' : \/ k \in 1 .. z - 1 /\ todo'[t][k] = todo[t][k]
                               \/ todo'[t][k].op = "free"
      /\ \A k \in 1 .. z - 1 : k \in Frames(t)' /\ todo'[t][k] = todo[t][k]
  <2>1. CASE todo' = [todo EXCEPT ![t] = b]
    BY <2>1, <1>1 DEF TypeOK, Frames
  <2>2. CASE parent[Top(t).arg] # None /\ todo' = [todo EXCEPT ![t] = Append(b, f)]
    <3>1. todo'[t] = Append(b, f)
      BY <2>2 DEF TypeOK
    <3> QED BY <3>1, <2>2, <1>1, <1>3, <1>5 DEF Frames
  <2> QED BY <2>1, <2>2, <1>4
<1>8. \A k \in Frames(t) : todo[t][k].op = "discard" => k \in 1 .. z - 1
  BY <1>1 DEF Frames
<1>9. Frames(t) = 1 .. z
  BY DEF Frames
<1>10. ASSUME NEW i \in Iso
       PROVE  /\ \A k \in Frames(i)' : todo'[i][k].op = "discard"
                   => k \in Frames(i) /\ todo'[i][k] = todo[i][k]
              /\ \A k \in Frames(i) : todo[i][k].op = "discard"
                   => k \in Frames(i)' /\ todo'[i][k] = todo[i][k]
  <2>1. CASE i = t
    BY <2>1, <1>1, <1>7, <1>8, <1>9
  <2>2. CASE i # t
    BY <2>2, <1>6 DEF Frames
  <2> QED BY <2>1, <2>2
<1> QED BY <1>10, DoomedKept

-----------------------------------------------------------------------------
(* OwnersInv: one lemma per action that moves a message, one for the rest.  *)

\* A step that moves no message.
LEMMA OwnersKept ==
  ASSUME OwnersInv, UNCHANGED <<mailbox, boot, out, inuse>>, Doomed' = Doomed, DoomedOnce',
         \A h \in Handle : at'[h] \in Msg => at'[h] \in inuse
  PROVE  OwnersInv'
<1>1. Queued' = Queued /\ Booted' = Booted /\ Built' = Built
  BY DEF Queued, Booted, Built
<1>2. QueuedOnce' /\ BootedOnce' /\ BuiltOnce'
  BY DEF OwnersInv, QueuedOnce, BootedOnce, BuiltOnce
<1>3. OneOwnerInv'
  BY <1>1 DEF OwnersInv, OneOwnerInv
<1> QED BY <1>2, <1>3 DEF OwnersInv

\* Steps with handles and flags only.
LEMMA OwnersProgram ==
  ASSUME IInv, OwnersInv, NEW i \in Iso, NEW h, NEW h2,
         \/ /\ h \in Handle /\ h2 \in Handle
            /\ \/ GetCurrent(i, h) \/ GetParent(i, h) \/ Drop(i, h) \/ CopyHandle(i, h, h2)
               \/ JoinClaim(i, h) \/ JoinPoll(i, h)
         \/ ReceiveWait(i) \/ Return(i)
  PROVE  OwnersInv'
<1>0. TypeOK /\ DoomedOnce /\ OneOwnerInv
  BY DEF IInv, OwnersInv
<1>1. UNCHANGED <<mailbox, boot, out, inuse>>
  BY DEF GetCurrent, GetParent, Drop, CopyHandle, ReceiveWait, JoinClaim, JoinPoll, Return,
         mailVars, threadVars
<1>2. Doomed' = Doomed /\ DoomedOnce'
  <2>1. CASE h \in Handle /\ Drop(i, h)
    <3>1. names[h] \in Iso
      BY <2>1, IsolateAssumption DEF Drop, IInv, PlacedInv, TypeOK, Iso
    <3> QED BY <1>0, <2>1, <3>1, ReleaseDoomed DEF Drop, HandleDies
  <2>2. CASE ~(h \in Handle /\ Drop(i, h))
    <3>1. UNCHANGED todo
      BY <2>2 DEF GetCurrent, GetParent, CopyHandle, ReceiveWait, JoinClaim, JoinPoll, Return,
                  threadVars
    <3> QED BY <1>0, <3>1 DEF Doomed, DoomedOnce, Frames, FrameAt
  <2> QED BY <2>1, <2>2
<1>3. \A g \in Handle : at'[g] \in Msg => at'[g] \in inuse
  <2>1. CASE CopyHandle(i, h, h2)
    <3>1. out[i] \in Msg
      BY <2>1 DEF IInv, OperandInv, CopyHandle
    <3>2. out[i] \in inuse
      BY <1>0, <3>1 DEF OneOwnerInv, Built
    <3> QED BY <1>0, <2>1, <3>2 DEF CopyHandle, NewHandle, OneOwnerInv, TypeOK
  <2>2. CASE ~CopyHandle(i, h, h2)
    <3>1. \/ UNCHANGED at
          \/ at' = [at EXCEPT ![h] = i]
          \/ at' = [at EXCEPT ![h] = None]
      BY <2>2 DEF GetCurrent, GetParent, Drop, ReceiveWait, JoinClaim, JoinPoll, Return,
                  NewHandle, HandleDies, handleVars
    <3>2. i \notin Msg /\ None \notin Msg
      BY IsolateAssumption
    <3>3. at \in [Handle -> Iso \cup Msg \cup {None}] /\ \A g \in Handle : at[g] \in Msg => at[g] \in inuse
      BY <1>0 DEF OneOwnerInv, TypeOK
    <3> QED BY <3>1, <3>2, <3>3
  <2> QED BY <2>1, <2>2
<1> QED BY <1>1, <1>2, <1>3, OwnersKept

\* The runtime's steps that move no message.
LEMMA OwnersRuntime ==
  ASSUME IInv, OwnersInv, NEW i \in Iso, NEW h,
         \/ SpawnOk(i) \/ SpawnFail(i) \/ Launched(i) \/ JoinReturn(i) \/ SpinReturn(i)
         \/ SweepEnd(i) \/ Detach(i) \/ ReleaseSelf(i) \/ Gone(i) \/ FreeStruct(i)
         \/ h \in Handle /\ (SweepHandle(i, h) \/ DiscardHandle(i, h))
  PROVE  OwnersInv'
<1>0. TypeOK /\ DoomedOnce /\ OneOwnerInv
  BY DEF IInv, OwnersInv
<1>1. UNCHANGED <<mailbox, boot, out, inuse>>
  BY DEF SpawnOk, SpawnFail, Launched, JoinReturn, SpinReturn, SweepEnd, Detach, ReleaseSelf,
         Gone, FreeStruct, SweepHandle, DiscardHandle, mailVars, threadVars
<1>2. Doomed' = Doomed /\ DoomedOnce'
  <2>1. CASE h \in Handle /\ (SweepHandle(i, h) \/ DiscardHandle(i, h))
    <3>1. at[h] # None /\ HandleDies(i, h)
      <4>1. CASE SweepHandle(i, h)
        BY <4>1, IsolateAssumption DEF SweepHandle
      <4>2. CASE DiscardHandle(i, h)
        BY <4>2, <1>0, BelowFacts, IsolateAssumption DEF DiscardHandle, TopIs, Frame
      <4> QED BY <2>1, <4>1, <4>2
    <3>2. names[h] \in Iso
      BY <2>1, <3>1, IsolateAssumption DEF IInv, PlacedInv, TypeOK, Iso
    <3> QED BY <1>0, <3>1, <3>2, ReleaseDoomed DEF HandleDies
  <2>2. CASE SpawnFail(i)
    <3>1. Target(i) \in Iso
      BY <2>2, CreationFacts DEF SpawnFail
    <3> QED BY <1>0, <2>2, <3>1, ReleaseDoomed DEF SpawnFail
  <2>3. CASE ReleaseSelf(i)
    BY <1>0, <2>3, ReleaseDoomed DEF ReleaseSelf
  <2>4. CASE FreeStruct(i)
    BY <1>0, <2>4, FreeStructDoomed
  <2>5. CASE SpawnOk(i) \/ Launched(i) \/ JoinReturn(i) \/ SpinReturn(i) \/ SweepEnd(i)
               \/ Detach(i) \/ Gone(i)
    <3>1. UNCHANGED todo
      BY <2>5 DEF SpawnOk, Launched, JoinReturn, SpinReturn, SweepEnd, Detach, Gone
    <3> QED BY <1>0, <3>1 DEF Doomed, DoomedOnce, Frames, FrameAt
  <2> QED BY <2>1, <2>2, <2>3, <2>4, <2>5
<1>3. \A g \in Handle : at'[g] \in Msg => at'[g] \in inuse
  <2>1. UNCHANGED at \/ at' = [at EXCEPT ![h] = None]
    BY DEF SpawnOk, SpawnFail, Launched, JoinReturn, SpinReturn, SweepEnd, Detach, ReleaseSelf,
           Gone, FreeStruct, SweepHandle, DiscardHandle, HandleDies, handleVars
  <2>2. None \notin Msg
    BY IsolateAssumption
  <2>3. at \in [Handle -> Iso \cup Msg \cup {None}] /\ \A g \in Handle : at[g] \in Msg => at[g] \in inuse
    BY <1>0 DEF OneOwnerInv, TypeOK
  <2> QED BY <2>1, <2>2, <2>3
<1> QED BY <1>1, <1>2, <1>3, OwnersKept

\* A fresh message is owned by the thread that builds it.
LEMMA OwnersBegin ==
  ASSUME IInv, HeapInv, OwnersInv, NEW i \in Iso, NEW m \in Msg, m \notin inuse, Idle(i),
         inuse' = inuse \cup {m}, out' = [out EXCEPT ![i] = m],
         UNCHANGED <<mailbox, boot, todo>>,
         \A g \in Handle : at'[g] \in Msg => at'[g] = at[g]
  PROVE  OwnersInv'
<1>0. TypeOK /\ QueuedOnce /\ BootedOnce /\ BuiltOnce /\ DoomedOnce /\ OneOwnerInv
  BY DEF IInv, OwnersInv
<1>1. out[i] = None /\ m \notin Built
  BY <1>0 DEF HeapInv, Idle, OneOwnerInv
<1>2. Built' = Built \cup {m} /\ BuiltOnce'
  BY <1>0, <1>1, BuildBegun
<1>3. Queued' = Queued /\ Booted' = Booted /\ Doomed' = Doomed
  BY DEF Queued, Booted, Doomed, Frames
<1>4. QueuedOnce' /\ BootedOnce' /\ DoomedOnce'
  BY <1>0 DEF QueuedOnce, BootedOnce, DoomedOnce, Frames, FrameAt
<1>5. OneOwnerInv'
  BY <1>0, <1>2, <1>3 DEF OneOwnerInv
<1> QED BY <1>2, <1>4, <1>5 DEF OwnersInv

\* A message that was opened, or spliced back, has no owner and no handle left.
LEMMA Opened ==
  ASSUME TypeOK, NEW m \in Msg, NEW i \in Iso, Adopt(m, i), OneOwnerInv
  PROVE  \A g \in Handle : at'[g] \in Msg => at'[g] \in inuse \ {m}
<1>1. i \notin Msg
  BY IsolateAssumption
<1> QED BY <1>1 DEF Adopt, OneOwnerInv

\* A copy that fails gives its message up.
LEMMA OwnersBuildFail ==
  ASSUME IInv, OwnersInv, NEW i \in Iso, BuildFail(i)
  PROVE  OwnersInv'
<1>0. TypeOK /\ QueuedOnce /\ BootedOnce /\ BuiltOnce /\ DoomedOnce /\ OneOwnerInv
  BY DEF IInv, OwnersInv
<1>1. out[i] \in Msg /\ out[i] # None
  BY IsolateAssumption DEF BuildFail, IInv, OperandInv
<1>2. out[i] \in Built /\ Built' = Built \ {out[i]} /\ BuiltOnce'
  BY <1>0, <1>1, BuildEnded DEF BuildFail
<1>3. UNCHANGED <<mailbox, boot, todo>> /\ inuse' = inuse \ {out[i]}
  BY DEF BuildFail
<1>4. Queued' = Queued /\ Booted' = Booted /\ Doomed' = Doomed
  BY <1>3 DEF Queued, Booted, Doomed, Frames
<1>5. QueuedOnce' /\ BootedOnce' /\ DoomedOnce'
  BY <1>0, <1>3 DEF QueuedOnce, BootedOnce, DoomedOnce, Frames, FrameAt
<1>6. \A g \in Handle : at'[g] \in Msg => at'[g] \in inuse'
  BY <1>0, <1>1, <1>3, Opened DEF BuildFail
<1>7. OneOwnerInv'
  BY <1>0, <1>2, <1>3, <1>4, <1>6 DEF OneOwnerInv
<1> QED BY <1>2, <1>5, <1>7 DEF OwnersInv

\* The copy becomes the boot message.
LEMMA OwnersBootReady ==
  ASSUME IInv, OwnersInv, UnbootedInv, NEW i \in Iso, BootReady(i)
  PROVE  OwnersInv'
<1>0. TypeOK /\ QueuedOnce /\ BootedOnce /\ BuiltOnce /\ DoomedOnce /\ OneOwnerInv
  BY DEF IInv, OwnersInv
<1>1. /\ out[i] \in Msg /\ out[i] # None
      /\ Target(i) \in Iso /\ boot[Target(i)] = None
  BY CreationFacts, IsolateAssumption DEF BootReady, IInv, OperandInv, UnbootedInv
<1>2. out[i] \in Built /\ Built' = Built \ {out[i]} /\ BuiltOnce'
  BY <1>0, <1>1, BuildEnded DEF BootReady
<1>3. out[i] \notin Booted
  BY <1>0, <1>2 DEF OneOwnerInv
<1>4. Booted' = Booted \cup {out[i]} /\ BootedOnce'
  BY <1>0, <1>1, <1>3, BootFiled DEF BootReady
<1>5. UNCHANGED <<mailbox, todo, inuse, at>>
  BY DEF BootReady, handleVars
<1>6. Queued' = Queued /\ Doomed' = Doomed
  BY <1>5 DEF Queued, Doomed, Frames
<1>7. QueuedOnce' /\ DoomedOnce'
  BY <1>0, <1>5 DEF QueuedOnce, DoomedOnce, Frames, FrameAt
<1>8. OneOwnerInv'
  BY <1>0, <1>2, <1>4, <1>5, <1>6 DEF OneOwnerInv
<1> QED BY <1>2, <1>4, <1>7, <1>8 DEF OwnersInv

\* The copy goes into the mailbox, or to its death when that is closed.
LEMMA OwnersPost ==
  ASSUME IInv, OwnersInv, NEW i \in Iso, Post(i)
  PROVE  OwnersInv'
<1>0. TypeOK /\ QueuedOnce /\ BootedOnce /\ BuiltOnce /\ DoomedOnce /\ OneOwnerInv
  BY DEF IInv, OwnersInv
<1>1. out[i] \in Msg /\ out[i] # None /\ Target(i) \in Iso
  BY OperandFacts, IsolateAssumption DEF Post, IInv, OperandInv, Operating
<1>2. out[i] \in Built /\ Built' = Built \ {out[i]} /\ BuiltOnce'
  BY <1>0, <1>1, BuildEnded DEF Post
<1>3. out[i] \notin Queued /\ out[i] \notin Doomed
  BY <1>0, <1>2 DEF OneOwnerInv
<1>4. UNCHANGED <<boot, inuse, at>>
  BY DEF Post, handleVars
<1>5. Booted' = Booted /\ BootedOnce'
  BY <1>0, <1>4 DEF Booted, BootedOnce
<1>6. CASE closed[Target(i)]
  <2>1. UNCHANGED mailbox /\ todo' = [todo EXCEPT ![i] = Append(@, DiscardFrame(out[i]))]
    BY <1>6 DEF Post
  <2>2. Doomed' = Doomed \cup {out[i]} /\ DoomedOnce'
    BY <1>0, <1>1, <1>3, <2>1, DiscardBegun
  <2>3. Queued' = Queued /\ QueuedOnce'
    BY <1>0, <2>1 DEF Queued, QueuedOnce
  <2>4. OneOwnerInv'
    BY <1>0, <1>2, <1>4, <1>5, <2>2, <2>3 DEF OneOwnerInv
  <2> QED BY <1>2, <1>5, <2>2, <2>3, <2>4 DEF OwnersInv
<1>7. CASE ~closed[Target(i)]
  <2>1. UNCHANGED todo /\ mailbox' = [mailbox EXCEPT ![Target(i)] = Append(@, out[i])]
    BY <1>7 DEF Post
  <2>2. Queued' = Queued \cup {out[i]} /\ QueuedOnce'
    BY <1>0, <1>1, <1>3, <2>1, Enqueue
  <2>3. Doomed' = Doomed /\ DoomedOnce'
    BY <1>0, <2>1 DEF Doomed, DoomedOnce, Frames, FrameAt
  <2>4. OneOwnerInv'
    BY <1>0, <1>2, <1>4, <1>5, <2>2, <2>3 DEF OneOwnerInv
  <2> QED BY <1>2, <1>5, <2>2, <2>3, <2>4 DEF OwnersInv
<1> QED BY <1>6, <1>7

\* The receiver opens the oldest message.
LEMMA OwnersReceive ==
  ASSUME IInv, OwnersInv, NEW i \in Iso, Receive(i)
  PROVE  OwnersInv'
<1>0. TypeOK /\ QueuedOnce /\ BootedOnce /\ BuiltOnce /\ DoomedOnce /\ OneOwnerInv
  BY DEF IInv, OwnersInv
<1> DEFINE m == Head(mailbox[i])
<1>1. m \in Queued /\ Queued' = Queued \ {m} /\ QueuedOnce' /\ m \in Msg
  BY <1>0, Dequeue DEF Receive, Queued
<1>2. UNCHANGED <<boot, out, todo>> /\ inuse' = inuse \ {m}
  BY DEF Receive
<1>3. Booted' = Booted /\ Built' = Built /\ Doomed' = Doomed
  BY <1>2 DEF Booted, Built, Doomed, Frames
<1>4. BootedOnce' /\ BuiltOnce' /\ DoomedOnce'
  BY <1>0, <1>2 DEF BootedOnce, BuiltOnce, DoomedOnce, Frames, FrameAt
<1>5. \A g \in Handle : at'[g] \in Msg => at'[g] \in inuse'
  BY <1>0, <1>1, <1>2, Opened DEF Receive
<1>6. OneOwnerInv'
  BY <1>0, <1>1, <1>2, <1>3, <1>5 DEF OneOwnerInv
<1> QED BY <1>1, <1>4, <1>6 DEF OwnersInv

\* The worker opens its boot message.
LEMMA OwnersEnter ==
  ASSUME IInv, OwnersInv, NEW i \in Iso, Enter(i)
  PROVE  OwnersInv'
<1>0. TypeOK /\ QueuedOnce /\ BootedOnce /\ BuiltOnce /\ DoomedOnce /\ OneOwnerInv
  BY DEF IInv, OwnersInv
<1> DEFINE m == boot[i]
<1>1. m \in Msg /\ m # None
  BY IsolateAssumption DEF Enter, IInv, CreationInv
<1>2. m \in Booted /\ Booted' = Booted \ {m} /\ BootedOnce'
  BY <1>0, <1>1, BootTaken DEF Enter
<1>3. UNCHANGED <<mailbox, out, todo>> /\ inuse' = inuse \ {m}
  BY DEF Enter
<1>4. Queued' = Queued /\ Built' = Built /\ Doomed' = Doomed
  BY <1>3 DEF Queued, Built, Doomed, Frames
<1>5. QueuedOnce' /\ BuiltOnce' /\ DoomedOnce'
  BY <1>0, <1>3 DEF QueuedOnce, BuiltOnce, DoomedOnce, Frames, FrameAt
<1>6. \A g \in Handle : at'[g] \in Msg => at'[g] \in inuse'
  BY <1>0, <1>1, <1>3, Opened DEF Enter
<1>7. OneOwnerInv'
  BY <1>0, <1>2, <1>3, <1>4, <1>6 DEF OneOwnerInv
<1> QED BY <1>2, <1>5, <1>7 DEF OwnersInv

\* A mailbox is drained: by the teardown of its isolate, or by its free.
LEMMA OwnersDrain ==
  ASSUME IInv, OwnersInv, NEW t \in Iso, NEW j \in Iso, mailbox[j] # <<>>,
         mailbox' = [mailbox EXCEPT ![j] = Tail(@)],
         todo' = [todo EXCEPT ![t] = Append(@, DiscardFrame(Head(mailbox[j])))],
         UNCHANGED <<at, boot, out, inuse>>
  PROVE  OwnersInv'
<1>0. TypeOK /\ QueuedOnce /\ BootedOnce /\ BuiltOnce /\ DoomedOnce /\ OneOwnerInv
  BY DEF IInv, OwnersInv
<1> DEFINE m == Head(mailbox[j])
<1>1. m \in Queued /\ Queued' = Queued \ {m} /\ QueuedOnce' /\ m \in Msg
  BY <1>0, Dequeue DEF Queued
<1>2. m \notin Doomed
  BY <1>0, <1>1 DEF OneOwnerInv
<1>3. Doomed' = Doomed \cup {m} /\ DoomedOnce'
  BY <1>0, <1>1, <1>2, DiscardBegun
<1>4. Booted' = Booted /\ Built' = Built /\ BootedOnce' /\ BuiltOnce'
  BY <1>0 DEF Booted, Built, BootedOnce, BuiltOnce
<1>5. OneOwnerInv'
  BY <1>0, <1>1, <1>3, <1>4 DEF OneOwnerInv
<1> QED BY <1>1, <1>3, <1>4, <1>5 DEF OwnersInv

\* The boot message of a thread that was never created goes to its death.
LEMMA OwnersFreeBoot ==
  ASSUME IInv, OwnersInv, NEW t \in Iso, FreeBoot(t)
  PROVE  OwnersInv'
<1>0. TypeOK /\ QueuedOnce /\ BootedOnce /\ BuiltOnce /\ DoomedOnce /\ OneOwnerInv
  BY DEF IInv, OwnersInv
<1> DEFINE j == Top(t).arg
           m == boot[j]
<1>1. j \in Iso
  BY <1>0, BelowFacts DEF FreeBoot, TopIs, Frame
<1>2. /\ m # None /\ boot' = [boot EXCEPT ![j] = None]
      /\ todo' = [todo EXCEPT ![t] = Append(@, DiscardFrame(m))]
      /\ UNCHANGED <<mailbox, out, inuse, at>>
  BY DEF FreeBoot, handleVars
<1>3. m \in Booted /\ Booted' = Booted \ {m} /\ BootedOnce' /\ m \in Msg
  BY <1>0, <1>1, <1>2, BootTaken DEF TypeOK
<1>4. m \notin Doomed
  BY <1>0, <1>3 DEF OneOwnerInv
<1>5. Doomed' = Doomed \cup {m} /\ DoomedOnce'
  BY <1>0, <1>2, <1>3, <1>4, DiscardBegun
<1>6. Queued' = Queued /\ Built' = Built /\ QueuedOnce' /\ BuiltOnce'
  BY <1>0, <1>2 DEF Queued, Built, QueuedOnce, BuiltOnce
<1>7. OneOwnerInv'
  BY <1>0, <1>2, <1>3, <1>5, <1>6 DEF OneOwnerInv
<1> QED BY <1>3, <1>5, <1>6, <1>7 DEF OwnersInv

\* A discard is done when the handles of its message are gone.
LEMMA OwnersDiscardEnd ==
  ASSUME IInv, OwnersInv, NEW t \in Iso, DiscardEnd(t)
  PROVE  OwnersInv'
<1>0. TypeOK /\ QueuedOnce /\ BootedOnce /\ BuiltOnce /\ DoomedOnce /\ OneOwnerInv
  BY DEF IInv, OwnersInv
<1> DEFINE m == Top(t).arg
<1>1. m \in Doomed /\ Doomed' = Doomed \ {m} /\ DoomedOnce'
  BY <1>0, DiscardEnded DEF DiscardEnd
<1>2. UNCHANGED <<mailbox, boot, out, at>> /\ inuse' = inuse \ {m} /\ \A h \in Handle : at[h] # m
  BY DEF DiscardEnd, handleVars
<1>3. Queued' = Queued /\ Booted' = Booted /\ Built' = Built
  BY <1>2 DEF Queued, Booted, Built
<1>4. QueuedOnce' /\ BootedOnce' /\ BuiltOnce'
  BY <1>0, <1>2 DEF QueuedOnce, BootedOnce, BuiltOnce
<1>5. OneOwnerInv'
  BY <1>0, <1>1, <1>2, <1>3 DEF OneOwnerInv
<1> QED BY <1>1, <1>4, <1>5 DEF OwnersInv

\* Every step of the system is one of these.
LEMMA OwnersNext == ASSUME IInv, HeapInv, OwnedInv, Next PROVE OwnersInv'
<1>0. TypeOK /\ OwnersInv /\ UnbootedInv
  BY DEF IInv, OwnedInv
<1>1. PICK i \in Iso : Runtime(i) \/ Program(i)
  BY DEF Next
<1>2. CASE BuildFail(i) \/ BootReady(i) \/ Post(i) \/ Receive(i) \/ Enter(i) \/ FreeBoot(i)
            \/ DiscardEnd(i)
  BY <1>0, <1>2, OwnersBuildFail, OwnersBootReady, OwnersPost, OwnersReceive, OwnersEnter,
     OwnersFreeBoot, OwnersDiscardEnd
<1>3. CASE DrainOne(i)
  BY <1>0, <1>3, OwnersDrain DEF DrainOne, handleVars
<1>4. CASE FreeDrain(i)
  <2>1. Top(i).arg \in Iso
    BY <1>0, <1>4, BelowFacts DEF FreeDrain, TopIs, Frame
  <2> QED BY <1>0, <1>4, <2>1, OwnersDrain DEF FreeDrain, handleVars
<1>5. ASSUME NEW h \in Handle, NEW w \in Worker, NEW m \in Msg, StartCreate(i, w, h, m)
      PROVE  OwnersInv'
  <2>1. /\ Idle(i) /\ m \notin inuse /\ inuse' = inuse \cup {m} /\ out' = [out EXCEPT ![i] = m]
        /\ UNCHANGED <<mailbox, boot, todo>> /\ at' = [at EXCEPT ![h] = i]
    BY <1>5 DEF StartCreate, NewHandle
  <2>2. i \notin Msg /\ at \in [Handle -> Iso \cup Msg \cup {None}]
    BY <1>0, IsolateAssumption DEF TypeOK
  <2>3. \A g \in Handle : at'[g] \in Msg => at'[g] = at[g]
    BY <2>1, <2>2
  <2> QED BY <1>0, <2>1, <2>3, OwnersBegin
<1>6. ASSUME NEW h \in Handle, NEW m \in Msg, SendBegin(i, h, m)
      PROVE  OwnersInv'
  <2>1. Idle(i) /\ m \notin inuse /\ inuse' = inuse \cup {m} /\ out' = [out EXCEPT ![i] = m]
    BY <1>6 DEF SendBegin
  <2>2. UNCHANGED <<mailbox, boot, todo, at>>
    BY <1>6 DEF SendBegin, handleVars
  <2> QED BY <1>0, <2>1, <2>2, OwnersBegin
<1>7. CASE ReceiveWait(i) \/ Return(i)
  BY <1>0, <1>7, OwnersProgram
<1>8. ASSUME NEW h \in Handle, NEW h2 \in Handle,
             \/ GetCurrent(i, h) \/ GetParent(i, h) \/ Drop(i, h) \/ CopyHandle(i, h, h2)
             \/ JoinClaim(i, h) \/ JoinPoll(i, h)
      PROVE  OwnersInv'
  BY <1>0, <1>8, OwnersProgram
<1>9. CASE \/ SpawnOk(i) \/ SpawnFail(i) \/ Launched(i) \/ JoinReturn(i) \/ SpinReturn(i)
           \/ SweepEnd(i) \/ Detach(i) \/ ReleaseSelf(i) \/ Gone(i) \/ FreeStruct(i)
  BY <1>0, <1>9, OwnersRuntime
<1>10. ASSUME NEW h \in Handle, SweepHandle(i, h) \/ DiscardHandle(i, h)
       PROVE  OwnersInv'
  BY <1>0, <1>10, OwnersRuntime
<1> QED BY <1>1, <1>2, <1>3, <1>4, <1>5, <1>6, <1>7, <1>8, <1>9, <1>10 DEF Runtime, Program

-----------------------------------------------------------------------------
(* UnbootedInv.                                                            *)

\* Only BootReady files a boot message, for the isolate it creates.
LEMMA UnbootedNext == ASSUME IInv, UnbootedInv, Next PROVE UnbootedInv'
<1>0. TypeOK
  BY DEF IInv
<1>1. PICK i \in Iso : Runtime(i) \/ Program(i)
  BY DEF Next
<1>2. CASE BootReady(i)
  <2>1. /\ Target(i) \in Iso /\ mem[Target(i)] = "live"
        /\ \A j \in Iso : pc[j] = "buildBoot" /\ j # i => Target(j) # Target(i)
    BY <1>2, OperandFacts, CreationFacts DEF BootReady, Operating
  <2>2. /\ UNCHANGED <<mem, names, hnd>> /\ pc' = [pc EXCEPT ![i] = "spawn"]
        /\ \A j \in Iso : j # Target(i) => boot'[j] = boot[j]
    BY <1>0, <1>2 DEF BootReady, Goto, handleVars, TypeOK
  <2>3. \A j \in Iso : pc'[j] = "buildBoot" => j # i /\ pc[j] = "buildBoot"
    BY <2>2, <1>0 DEF TypeOK
  <2>4. \A j \in Iso : pc[j] = "buildBoot" => Target(j) \in Iso
    BY OperandFacts DEF Operating
  <2>5. \A j \in Iso : mem'[j] = "unborn" => boot'[j] = None
    BY <2>1, <2>2 DEF UnbootedInv
  <2>6. \A j \in Iso : pc'[j] = "buildBoot" => boot'[Target(j)'] = None
    BY <2>1, <2>2, <2>3, <2>4 DEF UnbootedInv, Target
  <2> QED BY <2>5, <2>6 DEF UnbootedInv
<1>3. CASE ~BootReady(i)
  <2>1. boot' = boot \/ \E j \in Iso : boot' = [boot EXCEPT ![j] = None]
    <3>1. CASE FreeBoot(i)
      <4>1. Top(i).arg \in Iso
        BY <1>0, <3>1, BelowFacts DEF FreeBoot, TopIs, Frame
      <4> QED BY <3>1, <4>1 DEF FreeBoot
    <3>2. CASE Runtime(i) /\ ~FreeBoot(i)
      BY <1>3, <3>2
         DEF Runtime, SpawnOk, SpawnFail, Launched, Post, JoinReturn, SpinReturn, Enter,
             DrainOne, SweepEnd, Detach, ReleaseSelf, Gone, DiscardEnd, FreeDrain, FreeStruct,
             Receive, SweepHandle, DiscardHandle, mailVars
    <3>3. CASE Program(i)
      BY <3>3
         DEF Program, BuildFail, ReceiveWait, Return, Receive, GetCurrent, GetParent, Drop,
             JoinClaim, JoinPoll, SendBegin, CopyHandle, StartCreate, mailVars
    <3> QED BY <1>1, <3>1, <3>2, <3>3
  <2>2. \A j \in Iso : boot'[j] \in {boot[j], None}
    BY <2>1, <1>0 DEF TypeOK
  <2>3. CASE \E w \in Worker, h \in Handle, m \in Msg : StartCreate(i, w, h, m)
    <3>1. PICK w \in Worker, h \in Handle, m \in Msg : StartCreate(i, w, h, m)
      BY <2>3
    <3>2. /\ w \in Iso /\ mem[w] = "unborn" /\ at[h] = None
          /\ pc' = [pc EXCEPT ![i] = "buildBoot"] /\ hnd' = [hnd EXCEPT ![i] = h]
          /\ names' = [names EXCEPT ![h] = w] /\ mem' = [mem EXCEPT ![w] = "live"]
          /\ UNCHANGED boot
      BY <3>1 DEF StartCreate, NewHandle, Goto, Iso
    <3>3. Target(i)' = w /\ boot[w] = None
      BY <3>2, <1>0 DEF Target, UnbootedInv, TypeOK
    <3>4. \A j \in Iso : mem'[j] = "unborn" => mem[j] = "unborn"
      BY <3>2, <1>0 DEF TypeOK
    <3>5. \A j \in Iso : pc'[j] = "buildBoot" /\ j # i => pc[j] = "buildBoot" /\ pc'[j] = pc[j]
      BY <3>2, <1>0 DEF TypeOK
    <3>6. \A j \in Iso : pc'[j] = "buildBoot" /\ j # i => Target(j)' = Target(j)
      BY <3>5, TargetKept DEF Operating
    <3> QED BY <3>2, <3>3, <3>4, <3>5, <3>6 DEF UnbootedInv
  <2>4. CASE ~(\E w \in Worker, h \in Handle, m \in Msg : StartCreate(i, w, h, m))
    <3>1. /\ \A j \in Iso : mem'[j] = "unborn" => mem[j] = "unborn"
          /\ \A j \in Iso : pc'[j] = "buildBoot" => pc[j] = "buildBoot"
      <4>1. CASE Runtime(i)
        <5>1. UNCHANGED mem \/ mem' = [mem EXCEPT ![Top(i).arg] = "freed"]
          BY <4>1
             DEF Runtime, BootReady, SpawnOk, SpawnFail, Launched, Post, JoinReturn, SpinReturn,
                 Enter, DrainOne, SweepEnd, Detach, ReleaseSelf, Gone, DiscardEnd, FreeDrain,
                 FreeBoot, FreeStruct, Receive, SweepHandle, DiscardHandle, structVars
        <5>2. \/ pc' = pc
              \/ \E p \in Phase \ {"buildBoot"} : pc' = [pc EXCEPT ![i] = p]
              \/ pc' = [pc EXCEPT ![i] = "launch", ![Target(i)] = "boot"]
          BY <1>3, <4>1
             DEF Runtime, SpawnOk, SpawnFail, Launched, Post, JoinReturn, SpinReturn,
                 Enter, DrainOne, SweepEnd, Detach, ReleaseSelf, Gone, DiscardEnd, FreeDrain,
                 FreeBoot, FreeStruct, Receive, SweepHandle, DiscardHandle, Goto, Phase
        <5> QED BY <5>1, <5>2, <1>0 DEF TypeOK
      <4>2. CASE Program(i)
        <5>1. /\ UNCHANGED mem
              /\ \/ pc' = pc
                 \/ \E p \in Phase \ {"buildBoot"} : pc' = [pc EXCEPT ![i] = p]
          BY <2>4, <4>2
             DEF Program, BuildFail, ReceiveWait, Return, Receive, GetCurrent, GetParent, Drop,
                 JoinClaim, JoinPoll, SendBegin, CopyHandle, Goto, Phase, structVars, threadVars
        <5> QED BY <5>1, <1>0 DEF TypeOK
      <4> QED BY <1>1, <4>1, <4>2
    <3>2. \A j \in Iso : pc'[j] = "buildBoot" => Target(j)' = Target(j) /\ Target(j) \in Iso
      BY <3>1, TargetKept, OperandFacts DEF Operating
    <3> QED BY <3>1, <3>2, <2>2 DEF UnbootedInv
  <2> QED BY <2>3, <2>4
<1> QED BY <1>2, <1>3

-----------------------------------------------------------------------------
(* The theorem.                                                            *)

\* There is no message yet.
LEMMA InitOwnedInv == ASSUME Init PROVE OwnedInv
<1>1. /\ \A i \in Iso : /\ mailbox[i] = <<>> /\ boot[i] = None /\ out[i] = None
                        /\ DOMAIN mailbox[i] = {} /\ Frames(i) = {}
      /\ \A h \in Handle : at[h] = None
      /\ inuse = {} /\ None \notin Msg
  BY IsolateAssumption DEF Init, Frames
<1>2. Queued = {} /\ Booted = {} /\ Built = {} /\ Doomed = {}
  BY <1>1 DEF Queued, Booted, Built, Doomed
<1>3. QueuedOnce /\ BootedOnce /\ BuiltOnce /\ DoomedOnce
  BY <1>1 DEF QueuedOnce, BootedOnce, BuiltOnce, DoomedOnce
<1>4. OneOwnerInv /\ UnbootedInv
  <2>1. \A i \in Iso : pc[i] \in {"run", "none"}
    BY DEF Init
  <2> QED BY <2>1, <1>1, <1>2 DEF OneOwnerInv, UnbootedInv
<1> QED BY <1>3, <1>4 DEF OwnedInv, OwnersInv

\* A step that changes nothing.
LEMMA StutterOwnedInv == ASSUME IInv, OwnedInv, UNCHANGED vars PROVE OwnedInv'
<1>1. UNCHANGED <<mailbox, boot, out, inuse, at, todo, mem, pc, names, hnd>>
  BY DEF vars, structVars, handleVars, mailVars, threadVars
<1>2. Doomed' = Doomed /\ DoomedOnce'
  BY <1>1 DEF OwnedInv, OwnersInv, Doomed, DoomedOnce, Frames, FrameAt
<1>3. OwnersInv'
  BY <1>1, <1>2, OwnersKept DEF OwnedInv, OwnersInv, OneOwnerInv
<1>4. UnbootedInv'
  BY <1>1 DEF OwnedInv, UnbootedInv, Target
<1> QED BY <1>3, <1>4 DEF OwnedInv

\* A message in one of the four places is counted there once.
LEMMA CountPlaces ==
  ASSUME OwnersInv, NEW m \in Msg
  PROVE  /\ Cardinality(InMailbox(m)) = IF m \in Queued THEN 1 ELSE 0
         /\ Cardinality(AsBoot(m)) = IF m \in Booted THEN 1 ELSE 0
         /\ Cardinality(AsOut(m)) = IF m \in Built THEN 1 ELSE 0
         /\ Cardinality(Dying(m)) = IF m \in Doomed THEN 1 ELSE 0
<1>0. m # None
  BY IsolateAssumption
<1>1. Cardinality({}) = 0 /\ \A x : Cardinality({x}) = 1
  BY FS_EmptySet, FS_Singleton
<1>2. InMailbox(m) = {} \/ \E x : InMailbox(m) = {x}
  <2>1. ASSUME NEW x \in InMailbox(m), NEW y \in InMailbox(m) PROVE x = y
    <3>1. PICK i \in Iso : \E k \in DOMAIN mailbox[i] : mailbox[i][k] = m /\ x = <<i, k>>
      BY <2>1 DEF InMailbox
    <3>2. PICK u \in Iso : \E k \in DOMAIN mailbox[u] : mailbox[u][k] = m /\ y = <<u, k>>
      BY <2>1 DEF InMailbox
    <3> QED BY <3>1, <3>2 DEF OwnersInv, QueuedOnce
  <2> QED BY <2>1
<1>3. InMailbox(m) # {} <=> m \in Queued
  <2>1. ASSUME NEW x \in InMailbox(m) PROVE m \in Queued
    BY <2>1 DEF InMailbox, Queued
  <2>2. ASSUME NEW i \in Iso, NEW k \in DOMAIN mailbox[i], mailbox[i][k] = m
        PROVE  <<i, k>> \in InMailbox(m)
    BY <2>2 DEF InMailbox
  <2> QED BY <2>1, <2>2 DEF Queued
<1>4. AsBoot(m) = {} \/ \E x : AsBoot(m) = {x}
  BY <1>0 DEF AsBoot, OwnersInv, BootedOnce
<1>5. AsBoot(m) # {} <=> m \in Booted
  BY DEF AsBoot, Booted
<1>6. AsOut(m) = {} \/ \E x : AsOut(m) = {x}
  BY <1>0 DEF AsOut, OwnersInv, BuiltOnce
<1>7. AsOut(m) # {} <=> m \in Built
  BY DEF AsOut, Built
<1>8. Dying(m) = {} \/ \E x : Dying(m) = {x}
  <2>1. ASSUME NEW i \in Dying(m), NEW u \in Dying(m) PROVE i = u
    <3>1. /\ i \in Iso /\ \E k \in Frames(i) : todo[i][k] = DiscardFrame(m)
          /\ u \in Iso /\ \E k \in Frames(u) : todo[u][k] = DiscardFrame(m)
      BY DEF Dying
    <3> QED BY <3>1, FrameFacts DEF OwnersInv, DoomedOnce, FrameAt
  <2> QED BY <2>1
<1>9. Dying(m) # {} <=> m \in Doomed
  BY DEF Dying, Doomed
<1>10. Cardinality(InMailbox(m)) = IF m \in Queued THEN 1 ELSE 0
  BY <1>1, <1>2, <1>3
<1>11. Cardinality(AsBoot(m)) = IF m \in Booted THEN 1 ELSE 0
  BY <1>1, <1>4, <1>5
<1>12. Cardinality(AsOut(m)) = IF m \in Built THEN 1 ELSE 0
  BY <1>1, <1>6, <1>7
<1>13. Cardinality(Dying(m)) = IF m \in Doomed THEN 1 ELSE 0
  BY <1>1, <1>8, <1>9
<1> QED BY <1>10, <1>11, <1>12, <1>13

(* From its creation by start() or send() until it is opened or discarded,  *)
(* a message has one owner: a mailbox, a boot pointer, the thread that      *)
(* builds it or the one that discards it; then no Thread object is left in  *)
(* it. No race between senders, receivers, exits and frees opens it twice   *)
(* or forgets it.                                                           *)
THEOREM MessagesOwnedOnce == Spec => []MessageOwnedOnce
<1>1. Init => OwnedInv
  BY InitOwnedInv
<1>2. ASSUME IInv, HeapInv, OwnedInv, Next PROVE OwnedInv'
  BY <1>2, OwnersNext, UnbootedNext DEF OwnedInv
<1>3. IInv /\ ExitInv /\ OwnedInv /\ [Next]_vars => OwnedInv'
  BY <1>2, StutterOwnedInv DEF ExitInv
<1>4. ASSUME OwnedInv PROVE MessageOwnedOnce
  <2>1. OwnersInv /\ OneOwnerInv
    BY <1>4 DEF OwnedInv, OwnersInv
  <2>2. ASSUME NEW m \in Msg, m \in inuse PROVE Owners(m) = 1
    BY <2>1, <2>2, CountPlaces DEF OneOwnerInv, Owners
  <2>3. ASSUME NEW m \in Msg, m \notin inuse PROVE Owners(m) = 0 /\ \A h \in Handle : at[h] # m
    BY <2>1, <2>3, CountPlaces DEF OneOwnerInv, Owners
  <2> QED BY <2>2, <2>3 DEF MessageOwnedOnce
<1> QED BY <1>1, <1>3, <1>4, ExitInvariance, PTL DEF Spec
=============================================================================
