------------------------- MODULE TaskSchedulerProofs -------------------------
(***************************************************************************)
(* For every set of workers and categories and any number of messages:     *)
(* tasks run in order, once, on their thread; other messages are kept; and *)
(* stopAll() returns when every runner has done its tasks.                 *)
(***************************************************************************)
EXTENDS TaskScheduler, SequenceTheorems, WellFoundedInduction, TLAPS

\* A set that holds 0 and is closed under successors holds every number.
LEMMA UpTo ==
  ASSUME NEW T, 0 \in T, \A n \in Nat : n \in T => n + 1 \in T
  PROVE  Nat \subseteq T
<1> SUFFICES ASSUME Nat \ T # {} PROVE FALSE
  OBVIOUS
<1>1. PICK m \in Nat \ T : \A k \in Nat \ T : ~(<<k, m>> \in OpToRel(<, Nat))
  BY NatLessThanWellFounded, WFMin
<1>2. m - 1 \in Nat /\ m - 1 < m /\ m = (m - 1) + 1
  OBVIOUS
<1>3. <<m - 1, m>> \in OpToRel(<, Nat)
  BY <1>2 DEF OpToRel
<1>4. m - 1 \in T
  BY <1>1, <1>2, <1>3
<1> QED BY <1>2, <1>4

-----------------------------------------------------------------------------
(* Sequences, and the numbers of the tasks among them.                     *)

\* A sequence with one more at its end.
LEMMA AppendEntries ==
  ASSUME NEW S, NEW s \in Seq(S), NEW e \in S
  PROVE  /\ Append(s, e) \in Seq(S) /\ Append(s, e) # <<>>
         /\ Len(s) \in Nat /\ Len(Append(s, e)) = Len(s) + 1
         /\ \A k \in 1 .. Len(s) : Append(s, e)[k] = s[k]
         /\ Append(s, e)[Len(s) + 1] = e
OBVIOUS

\* A sequence without its first.
LEMMA TailEntries ==
  ASSUME NEW S, NEW s \in Seq(S), s # <<>>
  PROVE  /\ Tail(s) \in Seq(S) /\ Head(s) = s[1] /\ Head(s) \in S
         /\ Len(s) \in Nat \ {0} /\ Len(Tail(s)) = Len(s) - 1
         /\ \A k \in 1 .. Len(s) - 1 : Tail(s)[k] = s[k + 1]
OBVIOUS

\* An element appended after a concatenation.
LEMMA AppendConcat ==
  ASSUME NEW a \in Seq(Nat), NEW q \in Seq(Nat), NEW x \in Nat
  PROVE  Append(a \o q, x) = a \o Append(q, x) /\ Append(q, x) \in Seq(Nat) /\ a \o q \in Seq(Nat)
<1> DEFINE u == Append(a \o q, x)
           v == a \o Append(q, x)
<1>1. /\ u \in Seq(Nat) /\ v \in Seq(Nat) /\ Append(q, x) \in Seq(Nat) /\ a \o q \in Seq(Nat)
      /\ Len(u) = Len(a) + Len(q) + 1 /\ Len(v) = Len(a) + Len(q) + 1
  OBVIOUS
<1>2. \A k \in 1 .. Len(a) + Len(q) + 1 : u[k] = v[k]
  <2> TAKE k \in 1 .. Len(a) + Len(q) + 1
  <2>1. CASE k <= Len(a)
    BY <2>1
  <2>2. CASE k > Len(a) /\ k <= Len(a) + Len(q)
    BY <2>2
  <2>3. CASE k = Len(a) + Len(q) + 1
    BY <2>3
  <2> QED BY <2>1, <2>2, <2>3
<1> HIDE DEF u, v
<1>3. u = v
  BY <1>1, <1>2, SeqEqual
<1> QED BY <1>1, <1>3 DEF u, v

NumbersStep(f, s, n) ==
  IF n = 0 THEN <<>> ELSE IF IsTask(s[n]) THEN Append(f[n - 1], s[n][2]) ELSE f[n - 1]

\* f goes through the first m messages of s.
Counts(f, s, m) == f = [n \in 0 .. m |-> NumbersStep(f, s, n)]

\* The recursion of TaskNumbers defines a function.
LEMMA NumbersExist ==
  ASSUME NEW s, NEW m \in Nat
  PROVE  \E g : g = [n \in 0 .. m |-> NumbersStep(g, s, n)]
<1> DEFINE T == {k \in Nat : \E g : g = [n \in 0 .. k |-> NumbersStep(g, s, n)]}
<1>1. 0 \in T
  <2> DEFINE g == [n \in 0 .. 0 |-> <<>>]
  <2>1. g = [n \in 0 .. 0 |-> NumbersStep(g, s, n)]
    BY DEF NumbersStep
  <2> QED BY <2>1
<1>2. ASSUME NEW k \in Nat, k \in T PROVE k + 1 \in T
  <2>1. PICK g : g = [n \in 0 .. k |-> NumbersStep(g, s, n)]
    BY <1>2
  <2> DEFINE h == [n \in 0 .. k + 1 |-> NumbersStep(g, s, n)]
  <2>2. ASSUME NEW n \in 0 .. k + 1 PROVE NumbersStep(g, s, n) = NumbersStep(h, s, n)
    <3>1. CASE n = 0
      BY <3>1 DEF NumbersStep
    <3>2. CASE n # 0
      <4>1. n - 1 \in 0 .. k /\ n - 1 \in 0 .. k + 1
        BY <3>2
      <4>2. g[n - 1] = h[n - 1]
        BY <4>1, <2>1
      <4> QED BY <3>2, <4>2 DEF NumbersStep
    <3> QED BY <3>1, <3>2
  <2>3. h = [n \in 0 .. k + 1 |-> NumbersStep(h, s, n)]
    BY <2>2
  <2> HIDE DEF h
  <2> QED BY <2>3
<1> HIDE DEF T
<1>3. Nat \subseteq T
  BY <1>1, <1>2, UpTo
<1> QED BY <1>3 DEF T

\* So TaskNumbers is the last of the lists it goes through.
LEMMA NumbersAre ==
  ASSUME NEW s, Len(s) \in Nat
  PROVE  \E g : Counts(g, s, Len(s)) /\ TaskNumbers(s) = g[Len(s)]
<1> DEFINE f == CHOOSE g : g = [n \in 0 .. Len(s) |-> NumbersStep(g, s, n)]
<1>1. f = [n \in 0 .. Len(s) |-> NumbersStep(f, s, n)]
  <2>1. \E g : g = [n \in 0 .. Len(s) |-> NumbersStep(g, s, n)]
    BY NumbersExist
  <2> QED BY <2>1
<1>2. TaskNumbers(s) = f[Len(s)]
  BY DEF TaskNumbers, NumbersStep
<1> HIDE DEF f
<1> QED BY <1>1, <1>2 DEF Counts

\* An empty mailbox has no tasks.
LEMMA NumbersNone == TaskNumbers(<<>>) = <<>>
<1>1. PICK g : Counts(g, <<>>, Len(<<>>)) /\ TaskNumbers(<<>>) = g[Len(<<>>)]
  BY NumbersAre
<1> QED BY <1>1 DEF Counts, NumbersStep

\* s and t agree on their first k messages.
SameFront(s, t, k) == \A n \in 1 .. k : s[n] = t[n]

\* Two such lists agree as far as the messages do.
LEMMA NumbersAgree ==
  ASSUME NEW s, NEW t, NEW l \in Nat, NEW m \in Nat, NEW k \in Nat, k <= l, k <= m,
         SameFront(s, t, k),
         NEW f, Counts(f, s, l), NEW g, Counts(g, t, m)
  PROVE  f[k] = g[k]
<1> DEFINE T == {n \in Nat : n <= k => f[n] = g[n]}
<1>0. /\ \A n \in 0 .. l : f[n] = NumbersStep(f, s, n)
      /\ \A n \in 0 .. m : g[n] = NumbersStep(g, t, n)
  BY DEF Counts
<1>1. 0 \in T
  BY <1>0 DEF NumbersStep
<1>2. ASSUME NEW n \in Nat, n \in T PROVE n + 1 \in T
  <2> SUFFICES ASSUME n + 1 <= k PROVE f[n + 1] = g[n + 1]
    OBVIOUS
  <2>1. n + 1 \in 0 .. l /\ n + 1 \in 0 .. m /\ n + 1 \in 1 .. k /\ n <= k /\ (n + 1) - 1 = n /\ n + 1 # 0
    OBVIOUS
  <2>2. f[n] = g[n] /\ s[n + 1] = t[n + 1]
    BY <1>2, <2>1 DEF SameFront
  <2>3. f[n + 1] = NumbersStep(f, s, n + 1) /\ g[n + 1] = NumbersStep(g, t, n + 1)
    BY <1>0, <2>1
  <2> QED BY <2>1, <2>2, <2>3 DEF NumbersStep
<1>3. Nat \subseteq T
  <2> HIDE DEF T
  <2> QED BY <1>1, <1>2, UpTo
<1> QED BY <1>3

\* Task numbers are natural numbers, since messages carry no other.
LEMMA NumbersType ==
  ASSUME NEW s \in Seq(Message)
  PROVE  TaskNumbers(s) \in Seq(1 .. MaxMessages)
<1>0. Len(s) \in Nat /\ \A n \in 1 .. Len(s) : s[n] \in Message
  OBVIOUS
<1>4. PICK g : Counts(g, s, Len(s)) /\ TaskNumbers(s) = g[Len(s)]
  BY <1>0, NumbersAre
<1>5. \A n \in 0 .. Len(s) : g[n] = NumbersStep(g, s, n)
  BY <1>4 DEF Counts
<1> DEFINE T == {n \in Nat : n <= Len(s) => g[n] \in Seq(1 .. MaxMessages)}
<1>1. 0 \in T
  <2>1. 0 \in 0 .. Len(s) /\ g[0] = NumbersStep(g, s, 0)
    BY <1>0, <1>5
  <2>2. g[0] = <<>>
    BY <2>1 DEF NumbersStep
  <2>3. <<>> \in Seq(1 .. MaxMessages)
    OBVIOUS
  <2> QED BY <2>2, <2>3
<1>2. ASSUME NEW n \in Nat, n \in T PROVE n + 1 \in T
  <2> SUFFICES ASSUME n + 1 <= Len(s) PROVE g[n + 1] \in Seq(1 .. MaxMessages)
    OBVIOUS
  <2>1. n + 1 \in 0 .. Len(s) /\ n + 1 \in 1 .. Len(s) /\ n <= Len(s) /\ (n + 1) - 1 = n /\ n + 1 # 0
    BY <1>0
  <2>2. g[n] \in Seq(1 .. MaxMessages)
    BY <1>2, <2>1
  <2>3. g[n + 1] = NumbersStep(g, s, n + 1)
    BY <1>5, <2>1
  <2>4. IsTask(s[n + 1]) => s[n + 1][2] \in 1 .. MaxMessages
    BY <1>0, <2>1 DEF Message, TaskMsg, RawMsg, TaskStop, IsTask
  <2>5. IsTask(s[n + 1]) => Append(g[n], s[n + 1][2]) \in Seq(1 .. MaxMessages)
    BY <2>2, <2>4
  <2> QED BY <2>1, <2>2, <2>3, <2>5 DEF NumbersStep
<1>3. Nat \subseteq T
  <2> HIDE DEF T
  <2> QED BY <1>1, <1>2, UpTo
<1> QED BY <1>0, <1>3, <1>4

\* A message more: its number comes last, if it is a task.
LEMMA NumbersAppend ==
  ASSUME NEW s \in Seq(Message), NEW m \in Message
  PROVE  TaskNumbers(Append(s, m)) =
           IF IsTask(m) THEN Append(TaskNumbers(s), m[2]) ELSE TaskNumbers(s)
<1> DEFINE t == Append(s, m)
           l == Len(s)
<1>1. l \in Nat /\ Len(t) = l + 1 /\ t[l + 1] = m /\ \A n \in 1 .. l : s[n] = t[n]
  BY AppendEntries
<1> HIDE DEF t, l
<1>2. PICK f : Counts(f, s, l) /\ TaskNumbers(s) = f[l]
  BY <1>1, NumbersAre DEF l
<1>3. PICK g : Counts(g, t, l + 1) /\ TaskNumbers(t) = g[l + 1]
  BY <1>1, NumbersAre
<1>4. f[l] = g[l]
  <2>1. l + 1 \in Nat /\ l <= l /\ l <= l + 1 /\ SameFront(s, t, l)
    BY <1>1 DEF SameFront
  <2> QED BY <1>1, <1>2, <1>3, <2>1, NumbersAgree
<1>5. l + 1 \in 0 .. l + 1 /\ l + 1 # 0 /\ (l + 1) - 1 = l
  BY <1>1
<1>6. g[l + 1] = NumbersStep(g, t, l + 1)
  BY <1>3, <1>5 DEF Counts
<1> QED BY <1>1, <1>2, <1>3, <1>4, <1>5, <1>6 DEF NumbersStep, t

\* The first message less: its number came first, if it was a task.
LEMMA NumbersTail ==
  ASSUME NEW s \in Seq(Message), s # <<>>
  PROVE  TaskNumbers(s) =
           IF IsTask(Head(s)) THEN <<Head(s)[2]>> \o TaskNumbers(Tail(s)) ELSE TaskNumbers(Tail(s))
<1> DEFINE t == Tail(s)
           m == Head(s)
<1>1. /\ t \in Seq(Message) /\ m = s[1] /\ m \in Message /\ Len(s) \in Nat /\ Len(t) \in Nat /\ Len(s) = Len(t) + 1
      /\ \A k \in 1 .. Len(t) : t[k] = s[k + 1]
  BY TailEntries
<1>2. PICK f : Counts(f, s, Len(s)) /\ TaskNumbers(s) = f[Len(s)]
  BY <1>1, NumbersAre
<1>3. PICK g : Counts(g, t, Len(t)) /\ TaskNumbers(t) = g[Len(t)]
  BY <1>1, NumbersAre
<1> HIDE DEF t
<1> HIDE DEF m
<1>4. m[2] \in Nat
  BY <1>1 DEF Message, TaskMsg, RawMsg, TaskStop
<1> DEFINE x == m[2]
           before == IF IsTask(m) THEN <<x>> ELSE <<>>
<1>10. before \in Seq(Nat)
  BY <1>4
<1>11. \A q \in Seq(Nat) : before \o q = IF IsTask(m) THEN <<m[2]>> \o q ELSE q
  BY <1>4
<1> HIDE DEF before, x
<1> DEFINE T == {n \in Nat : n <= Len(t) => g[n] \in Seq(Nat) /\ f[n + 1] = before \o g[n]}
<1>5. /\ \A n \in 0 .. Len(s) : f[n] = NumbersStep(f, s, n)
      /\ \A n \in 0 .. Len(t) : g[n] = NumbersStep(g, t, n)
  BY <1>2, <1>3 DEF Counts
<1>6. 0 \in T
  <2>0. 0 \in 0 .. Len(t) /\ 0 \in 0 .. Len(s) /\ 1 \in 0 .. Len(s) /\ 1 # 0 /\ 1 - 1 = 0
    BY <1>1
  <2>1. g[0] = NumbersStep(g, t, 0) /\ f[0] = NumbersStep(f, s, 0) /\ f[1] = NumbersStep(f, s, 1)
    BY <1>5, <2>0
  <2>5. g[0] = <<>> /\ f[0] = <<>> /\ f[1] = IF IsTask(s[1]) THEN Append(f[0], s[1][2]) ELSE f[0]
    BY <2>0, <2>1 DEF NumbersStep
  <2>2. f[1] = IF IsTask(m) THEN Append(<<>>, m[2]) ELSE <<>>
    BY <1>1, <2>5
  <2>3. Append(<<>>, m[2]) = <<m[2]>> /\ <<>> \in Seq(Nat)
    BY <1>4
  <2>4. f[1] = before /\ before \o <<>> = before
    BY <1>10, <2>2, <2>3 DEF before, x
  <2>6. 0 + 1 = 1
    OBVIOUS
  <2> QED BY <2>3, <2>4, <2>5, <2>6
<1>7. ASSUME NEW n \in Nat, n \in T PROVE n + 1 \in T
  <2> SUFFICES ASSUME n + 1 <= Len(t) PROVE g[n + 1] \in Seq(Nat) /\ f[n + 2] = before \o g[n + 1]
    OBVIOUS
  <2>1. /\ n + 1 \in 0 .. Len(t) /\ n + 2 \in 0 .. Len(s) /\ n + 1 # 0 /\ n + 2 # 0 /\ (n + 1) - 1 = n
        /\ (n + 2) - 1 = n + 1 /\ n + 1 \in 1 .. Len(t) /\ n <= Len(t) /\ (n + 1) + 1 = n + 2
    BY <1>1
  <2>2. g[n] \in Seq(Nat) /\ f[n + 1] = before \o g[n] /\ s[n + 2] = t[n + 1] /\ t[n + 1] \in Message
    BY <1>1, <1>7, <2>1
  <2> DEFINE e == t[n + 1]
  <2>3. e[2] \in Nat
    BY <2>2 DEF Message, TaskMsg, RawMsg, TaskStop
  <2>4. g[n + 1] = IF IsTask(e) THEN Append(g[n], e[2]) ELSE g[n]
    BY <1>5, <2>1 DEF NumbersStep
  <2>5. f[n + 2] = IF IsTask(e) THEN Append(f[n + 1], e[2]) ELSE f[n + 1]
    BY <1>5, <2>1, <2>2 DEF NumbersStep
  <2> HIDE DEF e
  <2>6. Append(before \o g[n], e[2]) = before \o Append(g[n], e[2]) /\ Append(g[n], e[2]) \in Seq(Nat)
    <3>1. before \in Seq(Nat) /\ g[n] \in Seq(Nat) /\ e[2] \in Nat
      BY <1>10, <2>2, <2>3
    <3> QED BY <3>1, AppendConcat
  <2> QED BY <2>2, <2>4, <2>5, <2>6
<1>8. Nat \subseteq T
  <2> HIDE DEF T
  <2> QED BY <1>6, <1>7, UpTo
<1>9. f[Len(t) + 1] = before \o g[Len(t)] /\ g[Len(t)] \in Seq(Nat)
  BY <1>1, <1>8
<1> QED BY <1>1, <1>2, <1>3, <1>9, <1>11 DEF t, m
-----------------------------------------------------------------------------
(* The inductive invariant.                                                *)

MainAt   == {"run", "task", "drain", "putBack", "stop", "join", "done"}
WorkerAt == {"none", "start", "loop", "task", "exited"}

\* Main and the workers each go through their own program.
PcInv ==
  /\ pc[Main] \in MainAt
  /\ \A w \in Worker : pc[w] \in WorkerAt

\* Whoever executes code of the application sends main tasks to Main.
MainInv ==
  /\ mainThread[Main] = Null
  /\ \A w \in Worker :
       /\ pc[w] # "none" => home[w] = Main
       /\ pc[w] \in {"loop", "task"} => mainThread[w] = Main

\* A runner belongs to the thread that made it, in one place of its list.
RunnerInv ==
  /\ \A t \in Thread : \A c \in Category :
       runners[t][c] # Null => \E k \in 1 .. Len(allRunners[t]) : allRunners[t][k] = runners[t][c]
  /\ \A t \in Thread : \A k \in 1 .. Len(allRunners[t]) : pc[allRunners[t][k]] # "none"
  /\ \A t, u \in Thread : \A k \in 1 .. Len(allRunners[t]), l \in 1 .. Len(allRunners[u]) :
       allRunners[t][k] = allRunners[u][l] => t = u /\ k = l

\* Runners stopAll() has told to stop.
StopSent(w) ==
  \E k \in 1 .. Len(allRunners[Main]) :
    /\ allRunners[Main][k] = w
    /\ (pc[Main] = "stop" /\ k < i) \/ pc[Main] \in {"join", "done"}

\* A stop message is the last of a mailbox, and only a runner that was told to
\* stop has one or ends.
StopOf(w) ==
  /\ \A k \in 1 .. Len(mailbox[w]) :
       mailbox[w][k] = TaskStop => StopSent(w) /\ k = Len(mailbox[w])
  /\ pc[w] = "exited" => StopSent(w) /\ mailbox[w] = <<>>

StopInv == i >= 1 /\ \A w \in Worker : StopOf(w)

\* What stopAll() has joined is over.
JoinInv ==
  \A k \in 1 .. Len(allRunners[Main]) :
    (pc[Main] = "join" /\ k < i) \/ pc[Main] = "done" => pc[allRunners[Main][k]] = "exited"

\* Tasks are started in the order of their submission.
OrderInv == \A t \in Thread : ran[t] \o Tasks(t) = sent[t]

\* From where on others is still to be put back.
From == IF pc[Main] = "putBack" THEN i ELSE 1

\* Of the messages r that are not tasks each has one place, in a mailbox or
\* among the rest from a place on, and there are no others.
Placed(box, rest, from, r) ==
  /\ \A n \in r :
       \/ \E k \in 1 .. Len(box) : box[k] = RawMsg(n)
       \/ \E k \in from .. Len(rest) : rest[k] = RawMsg(n)
  /\ \A k \in 1 .. Len(box) : IsRaw(box[k]) => box[k][2] \in r
  /\ \A k \in from .. Len(rest) : IsRaw(rest[k]) /\ rest[k][2] \in r
  /\ \A j, k \in 1 .. Len(box) : IsRaw(box[j]) /\ box[j] = box[k] => j = k
  /\ \A j, k \in from .. Len(rest) : rest[j] = rest[k] => j = k
  /\ \A j \in 1 .. Len(box), k \in from .. Len(rest) : box[j] # rest[k]

\* The messages put aside are not tasks; every one sent has one place.
RawInv ==
  /\ \A k \in 1 .. Len(others) : IsRaw(others[k])
  /\ pc[Main] \notin {"drain", "task", "putBack"} => others = <<>>
  /\ Placed(mailbox[Main], others, From, raws)

IInv ==
  TypeOK /\ PcInv /\ MainInv /\ RunnerInv /\ StopInv /\ JoinInv /\ OrderInv /\ RawInv

-----------------------------------------------------------------------------
(* What is sent and received.                                              *)

\* A sequence over a set is one over a larger set.
LEMMA SeqMore ==
  ASSUME NEW S, NEW T, S \subseteq T, NEW s \in Seq(S)
  PROVE  s \in Seq(T)
<1>1. Len(s) \in Nat /\ s \in [1 .. Len(s) -> S]
  OBVIOUS
<1>2. s \in [1 .. Len(s) -> T]
  BY <1>1
<1> QED BY <1>1, <1>2, IsASeq

\* A message says what it is.
LEMMA MessageIs ==
  /\ \A n \in 1 .. MaxMessages :
       /\ TaskMsg(n) \in Message /\ IsTask(TaskMsg(n)) /\ ~IsRaw(TaskMsg(n)) /\ TaskMsg(n)[2] = n
       /\ RawMsg(n) \in Message /\ IsRaw(RawMsg(n)) /\ ~IsTask(RawMsg(n)) /\ RawMsg(n)[2] = n
       /\ TaskMsg(n) # TaskStop /\ RawMsg(n) # TaskStop
  /\ TaskStop \in Message /\ ~IsTask(TaskStop) /\ ~IsRaw(TaskStop)
  /\ \A m \in Message : IsTask(m) => m[2] \in 1 .. MaxMessages /\ m = TaskMsg(m[2])
  /\ \A m \in Message : IsRaw(m) => m[2] \in 1 .. MaxMessages /\ m = RawMsg(m[2])
BY DEF Message, TaskMsg, RawMsg, TaskStop, IsTask, IsRaw

\* q is s with m at its end.
Longer(q, s, m) ==
  /\ Len(s) \in Nat /\ Len(q) = Len(s) + 1 /\ q # <<>>
  /\ \A k \in 1 .. Len(s) : q[k] = s[k]
  /\ q[Len(s) + 1] = m

\* q is s without its first.
Shorter(q, s) ==
  /\ Len(s) \in Nat \ {0} /\ Len(q) = Len(s) - 1
  /\ \A k \in 1 .. Len(s) - 1 : q[k] = s[k + 1]

\* A thread gets a message.
LEMMA Delivered ==
  ASSUME TypeOK, NEW t \in Thread, NEW m \in Message, Deliver(t, m)
  PROVE  /\ mailbox' \in [Thread -> Seq(Message)]
         /\ \A u \in Thread : u # t => mailbox'[u] = mailbox[u] /\ Tasks(u)' = Tasks(u)
         /\ Longer(mailbox'[t], mailbox[t], m)
         /\ Tasks(t)' = IF IsTask(m) THEN Append(Tasks(t), m[2]) ELSE Tasks(t)
<1>1. mailbox \in [Thread -> Seq(Message)] /\ mailbox[t] \in Seq(Message)
  BY DEF TypeOK
<1>2. mailbox' \in [Thread -> Seq(Message)] /\ mailbox'[t] = Append(mailbox[t], m)
      /\ \A u \in Thread : u # t => mailbox'[u] = mailbox[u]
  BY <1>1, AppendEntries DEF Deliver
<1>3. Longer(mailbox'[t], mailbox[t], m)
  BY <1>1, <1>2, AppendEntries DEF Longer
<1>4. Tasks(t)' = IF IsTask(m) THEN Append(Tasks(t), m[2]) ELSE Tasks(t)
  BY <1>1, <1>2, NumbersAppend DEF Tasks
<1> QED BY <1>2, <1>3, <1>4 DEF Tasks

\* A thread takes its first message.
LEMMA Taken ==
  ASSUME TypeOK, NEW t \in Thread, mailbox[t] # <<>>, Take(t)
  PROVE  /\ mailbox' \in [Thread -> Seq(Message)]
         /\ \A u \in Thread : u # t => mailbox'[u] = mailbox[u] /\ Tasks(u)' = Tasks(u)
         /\ Shorter(mailbox'[t], mailbox[t])
         /\ Head(mailbox[t]) = mailbox[t][1] /\ Head(mailbox[t]) \in Message
         /\ Tasks(t) = IF IsTask(Head(mailbox[t])) THEN <<Head(mailbox[t])[2]>> \o Tasks(t)' ELSE Tasks(t)'
<1>1. mailbox \in [Thread -> Seq(Message)] /\ mailbox[t] \in Seq(Message)
  BY DEF TypeOK
<1>2. mailbox' \in [Thread -> Seq(Message)] /\ mailbox'[t] = Tail(mailbox[t])
      /\ \A u \in Thread : u # t => mailbox'[u] = mailbox[u]
  BY <1>1, TailEntries DEF Take
<1>3. Shorter(mailbox'[t], mailbox[t]) /\ Head(mailbox[t]) = mailbox[t][1] /\ Head(mailbox[t]) \in Message
  BY <1>1, <1>2, TailEntries DEF Shorter
<1>4. Tasks(t) = IF IsTask(Head(mailbox[t])) THEN <<Head(mailbox[t])[2]>> \o Tasks(t)' ELSE Tasks(t)'
  BY <1>1, <1>2, NumbersTail DEF Tasks
<1> QED BY <1>2, <1>3, <1>4 DEF Tasks

\* The types of what the order is about.
OrderType ==
  /\ made \in 0 .. MaxMessages
  /\ sent \in [Thread -> Seq(1 .. made)] /\ ran \in [Thread -> Seq(1 .. made)]

\* An element moves from the front of one sequence to the end of another.
LEMMA MoveFirst ==
  ASSUME NEW a \in Seq(Nat), NEW q \in Seq(Nat), NEW x \in Nat
  PROVE  /\ Append(a, x) \o q = a \o (<<x>> \o q)
         /\ Len(a) + 1 \in 1 .. Len(a \o (<<x>> \o q)) /\ (a \o (<<x>> \o q))[Len(a) + 1] = x
<1> DEFINE u == a \o (<<x>> \o q)
           v == Append(a, x) \o q
<1>0. <<x>> \o q \in Seq(Nat) /\ Len(<<x>> \o q) = 1 + Len(q) /\ Append(a, x) \in Seq(Nat) /\ Len(Append(a, x)) = Len(a) + 1
      /\ (<<x>> \o q)[1] = x /\ \A k \in 1 .. Len(q) : (<<x>> \o q)[k + 1] = q[k]
  OBVIOUS
<1>1. /\ u \in Seq(Nat) /\ v \in Seq(Nat)
      /\ Len(u) = Len(a) + Len(q) + 1 /\ Len(v) = Len(a) + Len(q) + 1
  BY <1>0
<1>2. \A k \in 1 .. Len(a) + Len(q) + 1 : u[k] = v[k]
  <2> TAKE k \in 1 .. Len(a) + Len(q) + 1
  <2>1. CASE k <= Len(a)
    BY <1>0, <2>1
  <2>2. CASE k = Len(a) + 1
    BY <1>0, <2>2
  <2>3. CASE k > Len(a) + 1
    <3>1. u[k] = (<<x>> \o q)[k - Len(a)]
      BY <1>0, <2>3
    <3>2. v[k] = q[k - (Len(a) + 1)]
      BY <1>0, <2>3
    <3>3. k - (Len(a) + 1) \in 1 .. Len(q) /\ (k - (Len(a) + 1)) + 1 = k - Len(a)
      BY <2>3
    <3> QED BY <1>0, <3>1, <3>2, <3>3
  <2> QED BY <2>1, <2>2, <2>3
<1>4. u[Len(a) + 1] = x
  BY <1>0
<1> HIDE DEF u, v
<1>3. u = v
  BY <1>1, <1>2, SeqEqual
<1>5. Len(a) + 1 \in 1 .. Len(u)
  BY <1>1
<1> QED BY <1>3, <1>4, <1>5 DEF u, v

\* A thread's tasks are numbers of messages.
LEMMA TasksType ==
  ASSUME TypeOK, NEW t \in Thread
  PROVE  Tasks(t) \in Seq(Nat) /\ ran[t] \in Seq(Nat) /\ sent[t] \in Seq(Nat)
<1>1. mailbox[t] \in Seq(Message) /\ ran[t] \in Seq(1 .. made) /\ sent[t] \in Seq(1 .. made) /\ made \in Nat
  BY SchedulerAssumption DEF TypeOK
<1>2. Tasks(t) \in Seq(1 .. MaxMessages)
  BY <1>1, NumbersType DEF Tasks
<1>3. 1 .. MaxMessages \subseteq Nat /\ 1 .. made \subseteq Nat
  BY <1>1, SchedulerAssumption
<1> QED BY <1>1, <1>2, <1>3, SeqMore

\* A task that is submitted becomes the last of its thread's.
LEMMA SubmitOrder ==
  ASSUME TypeOK, OrderInv, NEW t \in Thread, made < MaxMessages, SubmitTask(t), UNCHANGED ran
  PROVE  /\ OrderInv' /\ OrderType' /\ mailbox' \in [Thread -> Seq(Message)] /\ made' = made + 1
         /\ \A u \in Thread : u # t => mailbox'[u] = mailbox[u]
         /\ Longer(mailbox'[t], mailbox[t], TaskMsg(made + 1))
<1> DEFINE m == TaskMsg(made + 1)
<1>1. made \in Nat /\ made + 1 \in 1 .. MaxMessages /\ MaxMessages \in Nat
  BY SchedulerAssumption DEF TypeOK
<1>2. m \in Message /\ IsTask(m) /\ m[2] = made + 1
  BY <1>1, MessageIs
<1>3. Deliver(t, m) /\ made' = made + 1 /\ sent' = [sent EXCEPT ![t] = Append(@, made + 1)]
  BY DEF SubmitTask
<1> HIDE DEF m
<1>4. /\ mailbox' \in [Thread -> Seq(Message)]
      /\ \A u \in Thread : u # t => mailbox'[u] = mailbox[u] /\ Tasks(u)' = Tasks(u)
      /\ Longer(mailbox'[t], mailbox[t], m)
      /\ Tasks(t)' = Append(Tasks(t), made + 1)
  BY <1>2, <1>3, Delivered
<1>5. /\ sent \in [Thread -> Seq(1 .. made)] /\ ran \in [Thread -> Seq(1 .. made)]
      /\ 1 .. made \subseteq 1 .. made' /\ made + 1 \in 1 .. made' /\ made' \in 0 .. MaxMessages
  BY <1>1, <1>3 DEF TypeOK
<1>6. \A u \in Thread : sent[u] \in Seq(1 .. made') /\ ran[u] \in Seq(1 .. made')
  BY <1>5, SeqMore
<1>7. sent' \in [Thread -> Seq(1 .. made')] /\ ran' \in [Thread -> Seq(1 .. made')]
  <2>1. Append(sent[t], made + 1) \in Seq(1 .. made')
    BY <1>5, <1>6
  <2>2. ran' = ran /\ \A u \in Thread : ran'[u] \in Seq(1 .. made')
    BY <1>6
  <2> QED BY <1>3, <1>5, <1>6, <2>1, <2>2
<1>8. ASSUME NEW u \in Thread PROVE ran'[u] \o Tasks(u)' = sent'[u]
  <2>1. ran[u] \o Tasks(u) = sent[u] /\ Tasks(u) \in Seq(Nat) /\ ran[u] \in Seq(Nat)
    BY TasksType DEF OrderInv
  <2>2. CASE u = t
    <3>0. made + 1 \in Nat /\ Tasks(t) \in Seq(Nat) /\ ran[t] \in Seq(Nat)
      BY <1>1, <2>1, <2>2
    <3>1. ran[t] \o Append(Tasks(t), made + 1) = Append(ran[t] \o Tasks(t), made + 1)
      BY <3>0, AppendConcat
    <3>2. ran'[t] = ran[t] /\ sent'[t] = Append(sent[t], made + 1)
      BY <1>3, <1>5
    <3> QED BY <1>4, <2>1, <2>2, <3>1, <3>2
  <2>3. CASE u # t
    BY <1>3, <1>4, <1>5, <2>1, <2>3
  <2> QED BY <2>2, <2>3
<1> QED BY <1>3, <1>4, <1>5, <1>7, <1>8 DEF OrderInv, OrderType, m

\* A task that is started was the first that its thread had not started.
LEMMA ExecuteOrder ==
  ASSUME TypeOK, OrderInv, NEW t \in Thread, mailbox[t] # <<>>, Take(t),
         LET m == Head(mailbox[t]) IN
           \/ IsTask(m) /\ ran' = [ran EXCEPT ![t] = Append(@, m[2])]
           \/ ~IsTask(m) /\ UNCHANGED ran,
         UNCHANGED <<made, sent>>
  PROVE  OrderInv' /\ OrderType'
<1> DEFINE m == Head(mailbox[t])
<1>1. /\ \A u \in Thread : u # t => Tasks(u)' = Tasks(u)
      /\ Tasks(t) = IF IsTask(m) THEN <<m[2]>> \o Tasks(t)' ELSE Tasks(t)'
      /\ m \in Message /\ mailbox' \in [Thread -> Seq(Message)]
  BY Taken
<1> HIDE DEF m
<1>2. \A u \in Thread : Tasks(u) \in Seq(Nat) /\ ran[u] \in Seq(Nat) /\ ran[u] \o Tasks(u) = sent[u]
  BY TasksType DEF OrderInv
<1>3. made \in 0 .. MaxMessages /\ sent \in [Thread -> Seq(1 .. made)] /\ ran \in [Thread -> Seq(1 .. made)]
  BY DEF TypeOK
<1>4. CASE ~IsTask(m)
  <2>1. ran' = ran /\ sent' = sent /\ made' = made /\ \A u \in Thread : Tasks(u)' = Tasks(u)
    BY <1>1, <1>4 DEF m
  <2> QED BY <1>2, <1>3, <2>1 DEF OrderInv, OrderType
<1>5. CASE IsTask(m)
  <2> DEFINE rest == Tasks(t)'
             n == m[2]
  <2>1. n \in Nat
    BY <1>1, <1>5, MessageIs, SchedulerAssumption
  <2>2. rest \in Seq(Nat)
    <3>1. mailbox'[t] \in Seq(Message)
      BY <1>1
    <3>2. TaskNumbers(mailbox'[t]) \in Seq(1 .. MaxMessages)
      BY <3>1, NumbersType
    <3>3. 1 .. MaxMessages \subseteq Nat
      BY SchedulerAssumption
    <3> QED BY <3>2, <3>3, SeqMore DEF Tasks
  <2>3. sent[t] = ran[t] \o (<<n>> \o rest)
    BY <1>1, <1>2, <1>5
  <2>4. ran'[t] = Append(ran[t], n) /\ sent' = sent /\ made' = made
        /\ \A u \in Thread : u # t => ran'[u] = ran[u]
    BY <1>3, <1>5 DEF m
  <2> HIDE DEF rest, n
  <2>5. Append(ran[t], n) \o rest = sent[t]
    BY <1>2, <2>1, <2>2, <2>3, MoveFirst
  <2>6. n \in 1 .. made
    <3>1. Len(ran[t]) + 1 \in 1 .. Len(sent[t]) /\ sent[t][Len(ran[t]) + 1] = n
      <4>1. ran[t] \in Seq(Nat)
        BY <1>2
      <4>2. Len(ran[t]) + 1 \in 1 .. Len(ran[t] \o (<<n>> \o rest))
            /\ (ran[t] \o (<<n>> \o rest))[Len(ran[t]) + 1] = n
        BY <4>1, <2>1, <2>2, MoveFirst
      <4> QED BY <4>2, <2>3
    <3>2. sent[t] \in Seq(1 .. made)
      BY <1>3
    <3>3. \A k \in 1 .. Len(sent[t]) : sent[t][k] \in 1 .. made
      BY <3>2, ElementOfSeq
    <3> QED BY <3>1, <3>3
  <2>7. Append(ran[t], n) \in Seq(1 .. made)
    BY <1>3, <2>6
  <2>8. ran' \in [Thread -> Seq(1 .. made)]
    BY <1>3, <1>5, <2>7 DEF m, n
  <2> QED BY <1>1, <1>2, <1>3, <2>4, <2>5, <2>8 DEF OrderInv, OrderType, rest
<1> QED BY <1>4, <1>5

\* Whom the two ways of scheduling send to.
LEMMA Targets ==
  ASSUME TypeOK, NEW t \in Thread
  PROVE  /\ MainFor(t) \in Thread
         /\ \A c \in Category : runners[t][c] # Null => runners[t][c] \in Worker /\ runners[t][c] \in Thread
         /\ Unused # {} => (CHOOSE w \in Unused : TRUE) \in Unused
         /\ Unused \subseteq Worker /\ Worker \subseteq Thread /\ Main \in Thread /\ Main \notin Worker
BY SchedulerAssumption DEF TypeOK, MainFor, Thread, Unused

\* Steps in which nothing is submitted, taken or started.
LEMMA SameOrder ==
  ASSUME TypeOK, OrderInv, UNCHANGED <<made, sent, ran>>, \A t \in Thread : Tasks(t)' = Tasks(t)
  PROVE  OrderInv' /\ OrderType'
BY DEF TypeOK, OrderInv, OrderType

\* A message that is not a task leaves the tasks of its thread alone.
LEMMA DeliverOther ==
  ASSUME TypeOK, OrderInv, NEW t \in Thread, NEW m \in Message, ~IsTask(m), Deliver(t, m), UNCHANGED <<sent, ran>>
  PROVE  /\ OrderInv' /\ mailbox' \in [Thread -> Seq(Message)]
         /\ \A u \in Thread : u # t => mailbox'[u] = mailbox[u]
         /\ Longer(mailbox'[t], mailbox[t], m)
<1>1. \A u \in Thread : Tasks(u)' = Tasks(u)
  BY Delivered
<1>2. OrderInv'
  BY <1>1 DEF OrderInv
<1> QED BY <1>2, Delivered

\* Every step keeps the order.
LEMMA OrderStep == IInv /\ [Next]_vars => OrderInv' /\ OrderType'
<1> SUFFICES ASSUME IInv, [Next]_vars PROVE OrderInv' /\ OrderType'
  OBVIOUS
<1>0. TypeOK /\ OrderInv /\ RawInv /\ PcInv
  BY DEF IInv
<1>1. ASSUME NEW t \in Thread, ScheduleMain(t) PROVE OrderInv' /\ OrderType'
  BY <1>0, <1>1, Targets, SubmitOrder DEF ScheduleMain
<1>2. ASSUME NEW t \in Thread, NEW c \in Category, ScheduleRunner(t, c) PROVE OrderInv' /\ OrderType'
  BY <1>0, <1>2, Targets, SubmitOrder DEF ScheduleRunner
<1>3. ASSUME NEW t \in Thread, NEW c \in Category, ScheduleNewRunner(t, c) PROVE OrderInv' /\ OrderType'
  <2>1. PICK w : w = (CHOOSE v \in Unused : TRUE)
    OBVIOUS
  <2>2. w \in Thread /\ made < MaxMessages /\ SubmitTask(w) /\ ran' = ran
    BY <1>0, <1>3, <2>1, Targets DEF ScheduleNewRunner, StartRunner
  <2> QED BY <1>0, <2>2, SubmitOrder
<1>4. CASE SendRaw
  <2>1. made + 1 \in 1 .. MaxMessages /\ made' = made + 1 /\ made' \in 0 .. MaxMessages
        /\ 1 .. made \subseteq 1 .. made'
    BY <1>0, <1>4, SchedulerAssumption DEF SendRaw, TypeOK
  <2>2. OrderInv'
    BY <1>0, <1>4, <2>1, Targets, MessageIs, DeliverOther DEF SendRaw, Thread
  <2>3. \A u \in Thread : sent[u] \in Seq(1 .. made') /\ ran[u] \in Seq(1 .. made')
    BY <1>0, <2>1, SeqMore DEF TypeOK
  <2>4. sent' = sent /\ ran' = ran /\ sent = [u \in Thread |-> sent[u]] /\ ran = [u \in Thread |-> ran[u]]
    BY <1>0, <1>4 DEF SendRaw, TypeOK
  <2>5. sent' \in [Thread -> Seq(1 .. made')] /\ ran' \in [Thread -> Seq(1 .. made')]
    BY <2>3, <2>4
  <2> QED BY <2>1, <2>2, <2>5 DEF OrderType
<1>5. ASSUME NEW w \in Worker, RunnerReceive(w) PROVE OrderInv' /\ OrderType'
  BY <1>0, <1>5, MessageIs, ExecuteOrder DEF RunnerReceive, Execute, Thread
<1>6. CASE DrainStep
  <2>1. CASE mailbox[Main] = <<>>
    BY <1>0, <1>6, <2>1, SameOrder DEF DrainStep, Take, Tasks
  <2>2. CASE mailbox[Main] # <<>>
    <3>1. Take(Main) /\ UNCHANGED <<made, sent>> /\ Main \in Thread
      BY <1>6, <2>2 DEF DrainStep, Thread
    <3>2. LET m == Head(mailbox[Main]) IN
            \/ IsTask(m) /\ ran' = [ran EXCEPT ![Main] = Append(@, m[2])]
            \/ ~IsTask(m) /\ UNCHANGED ran
      BY <1>6, <2>2 DEF DrainStep, DrainTake, Execute, IsTask, IsRaw
    <3> QED BY <1>0, <2>2, <3>1, <3>2, ExecuteOrder
  <2> QED BY <2>1, <2>2
<1>7. CASE PutBack
  <2>1. UNCHANGED <<made, sent, ran>>
    BY <1>7 DEF PutBack
  <2>2. CASE i <= Len(others) /\ Deliver(Main, others[i])
    <3>1. i \in 1 .. Len(others) /\ others \in Seq(Message)
      BY <1>0, <2>2 DEF TypeOK, IInv, StopInv
    <3>2. others[i] \in Message /\ ~IsTask(others[i])
      BY <1>0, <3>1, ElementOfSeq DEF RawInv, IsRaw, IsTask
    <3>3. OrderInv'
      BY <1>0, <2>1, <2>2, <3>2, DeliverOther DEF Thread
    <3> QED BY <1>0, <2>1, <3>3 DEF OrderType, TypeOK
  <2>3. CASE UNCHANGED mailbox
    BY <1>0, <2>1, <2>3, SameOrder DEF Tasks
  <2> QED BY <1>7, <2>2, <2>3 DEF PutBack
<1>8. CASE StopRunner
  <2>1. UNCHANGED <<made, sent, ran>>
    BY <1>8 DEF StopRunner
  <2>2. CASE i <= Len(allRunners[Main]) /\ Deliver(Runner(i), TaskStop)
    <3>1. allRunners[Main] \in Seq(Worker) /\ i \in 1 .. Len(allRunners[Main])
      BY <1>0, <2>2 DEF TypeOK, IInv, StopInv, Thread
    <3>2. Runner(i) \in Thread
      BY <3>1, ElementOfSeq DEF Runner, Thread
    <3>3. OrderInv'
      BY <1>0, <2>1, <2>2, <3>2, MessageIs, DeliverOther
    <3> QED BY <1>0, <2>1, <3>3 DEF OrderType, TypeOK
  <2>3. CASE UNCHANGED mailbox
    BY <1>0, <2>1, <2>3, SameOrder DEF Tasks
  <2> QED BY <1>8, <2>2, <2>3 DEF StopRunner, StopMessage
<1>9. CASE UNCHANGED <<mailbox, made, sent, ran>>
  BY <1>0, <1>9, SameOrder DEF Tasks
<1>10. (\E w \in Worker : AttachMain(w) \/ TaskEnds(w)) \/ HandleMainTasks \/ TaskEnds(Main) \/ Exit \/ JoinRunner
         \/ ProcessOver \/ UNCHANGED vars => UNCHANGED <<mailbox, made, sent, ran>>
  BY DEF AttachMain, TaskEnds, HandleMainTasks, Exit, JoinRunner, ProcessOver, vars
<1> QED BY <1>1, <1>2, <1>3, <1>4, <1>5, <1>6, <1>7, <1>8, <1>9, <1>10 DEF Next, WorkerStep, StopStep

\* Every variable keeps its type, by groups.
MailType  == mailbox \in [Thread -> Seq(Message)] /\ others \in Seq(Message)
StateType ==
  /\ mainThread \in [Thread -> {Main, Null}] /\ home \in [Worker -> {Main, Null}]
  /\ runners \in [Thread -> [Category -> Worker \cup {Null}]]
  /\ allRunners \in [Thread -> Seq(Worker)]
  /\ pc \in [Thread -> {"none", "start", "loop", "task", "exited",
                        "run", "drain", "putBack", "stop", "join", "done"}]
  /\ task \in [Thread -> 1 .. MaxMessages \cup {Null}]
  /\ \A t \in Thread : task[t] # Null <=> pc[t] = "task"
  /\ i \in Nat /\ raws \subseteq 1 .. made

\* TypeOK is these groups.
LEMMA TypeParts == TypeOK <=> MailType /\ StateType /\ OrderType
BY DEF TypeOK, MailType, StateType, OrderType

\* What a step does with the mailboxes and with what is put aside.
LEMMA MailStep == IInv /\ [Next]_vars => MailType'
<1> SUFFICES ASSUME IInv, [Next]_vars PROVE MailType'
  OBVIOUS
<1>0. TypeOK /\ OrderInv /\ RawInv /\ PcInv /\ MailType
  BY TypeParts DEF IInv
<1>1. ASSUME NEW t \in Thread, ScheduleMain(t) PROVE MailType'
  BY <1>0, <1>1, Targets, SubmitOrder DEF ScheduleMain, MailType
<1>2. ASSUME NEW t \in Thread, NEW c \in Category, ScheduleRunner(t, c) PROVE MailType'
  BY <1>0, <1>2, Targets, SubmitOrder DEF ScheduleRunner, MailType
<1>3. ASSUME NEW t \in Thread, NEW c \in Category, ScheduleNewRunner(t, c) PROVE MailType'
  <2>1. PICK w : w = (CHOOSE v \in Unused : TRUE)
    OBVIOUS
  <2>2. w \in Thread /\ made < MaxMessages /\ SubmitTask(w) /\ ran' = ran /\ others' = others
    BY <1>0, <1>3, <2>1, Targets DEF ScheduleNewRunner, StartRunner
  <2> QED BY <1>0, <2>2, SubmitOrder DEF MailType
<1>4. CASE SendRaw
  <2>1. made + 1 \in 1 .. MaxMessages
    BY <1>0, <1>4, SchedulerAssumption DEF SendRaw, TypeOK
  <2> QED BY <1>0, <1>4, <2>1, Targets, MessageIs, DeliverOther DEF SendRaw, Thread, MailType
<1>5. ASSUME NEW w \in Worker, RunnerReceive(w) PROVE MailType'
  BY <1>0, <1>5, Taken DEF RunnerReceive, Thread, MailType
<1>6. CASE DrainStep
  <2>1. CASE mailbox[Main] = <<>>
    BY <1>0, <1>6, <2>1 DEF DrainStep, Take, MailType
  <2>2. CASE mailbox[Main] # <<>>
    <3>1. Take(Main) /\ Main \in Thread
      BY <1>6, <2>2 DEF DrainStep, Thread
    <3>2. others' = others \/ others' = Append(others, Head(mailbox[Main]))
      BY <1>6, <2>2 DEF DrainStep, DrainTake, Execute
    <3>3. mailbox' \in [Thread -> Seq(Message)] /\ Head(mailbox[Main]) \in Message
      BY <1>0, <2>2, <3>1, Taken
    <3>4. others' \in Seq(Message)
      <4>1. others \in Seq(Message) /\ Head(mailbox[Main]) \in Message
        BY <1>0, <3>3 DEF MailType
      <4>2. Append(others, Head(mailbox[Main])) \in Seq(Message)
        BY <4>1, AppendEntries
      <4> QED BY <3>2, <4>1, <4>2
    <3> QED BY <3>3, <3>4 DEF MailType
  <2> QED BY <2>1, <2>2
<1>7. CASE PutBack
  <2>1. CASE i <= Len(others) /\ Deliver(Main, others[i]) /\ UNCHANGED others
    <3>1. i \in 1 .. Len(others) /\ others \in Seq(Message)
      BY <1>0, <2>1 DEF TypeOK, IInv, StopInv
    <3>2. others[i] \in Message
      BY <1>0, <3>1, ElementOfSeq
    <3> QED BY <1>0, <2>1, <3>2, Delivered DEF Thread, MailType
  <2>2. CASE UNCHANGED mailbox /\ others' = <<>>
    BY <1>0, <2>2 DEF MailType
  <2> QED BY <1>7, <2>1, <2>2 DEF PutBack
<1>8. CASE StopRunner
  <2>0. others' = others
    BY <1>8 DEF StopRunner
  <2>1. CASE i <= Len(allRunners[Main]) /\ Deliver(Runner(i), TaskStop)
    <3>1. allRunners[Main] \in Seq(Worker) /\ i \in 1 .. Len(allRunners[Main])
      BY <1>0, <2>1 DEF TypeOK, IInv, StopInv, Thread
    <3>2. Runner(i) \in Thread
      BY <3>1, ElementOfSeq DEF Runner, Thread
    <3> QED BY <1>0, <2>0, <2>1, <3>2, MessageIs, Delivered DEF MailType
  <2>2. CASE UNCHANGED mailbox
    BY <1>0, <2>0, <2>2 DEF MailType
  <2> QED BY <1>8, <2>1, <2>2 DEF StopRunner, StopMessage
<1>9. CASE UNCHANGED <<mailbox, others>>
  BY <1>0, <1>9 DEF MailType
<1>10. (\E w \in Worker : AttachMain(w) \/ TaskEnds(w)) \/ HandleMainTasks \/ TaskEnds(Main) \/ Exit \/ JoinRunner
         \/ ProcessOver \/ UNCHANGED vars => UNCHANGED <<mailbox, others>>
  BY DEF AttachMain, TaskEnds, HandleMainTasks, Exit, JoinRunner, ProcessOver, vars
<1> QED BY <1>1, <1>2, <1>3, <1>4, <1>5, <1>6, <1>7, <1>8, <1>9, <1>10 DEF Next, WorkerStep, StopStep

\* What a step does with everything else.
LEMMA StateStep == IInv /\ [Next]_vars => StateType' /\ PcInv' /\ MainInv' /\ i' >= 1
<1> DEFINE P == StateType' /\ PcInv' /\ MainInv' /\ i' >= 1
<1> SUFFICES ASSUME IInv, [Next]_vars PROVE P
  OBVIOUS
<1>0. TypeOK /\ StateType /\ PcInv /\ MainInv /\ i >= 1 /\ made \in Nat /\ Null \notin Nat /\ Main # Null
      /\ Main \in Thread /\ Main \notin Worker /\ Worker \subseteq Thread /\ Thread = Worker \cup {Main}
      /\ Null \notin Worker
  <2>1. TypeOK /\ StateType /\ PcInv /\ MainInv
    BY TypeParts DEF IInv
  <2>2. i >= 1
    BY DEF IInv, StopInv
  <2>3. made \in Nat
    BY SchedulerAssumption DEF IInv, TypeOK
  <2> QED BY <2>1, <2>2, <2>3, SchedulerAssumption DEF Thread
<1>1. ASSUME UNCHANGED <<threadVars, pc, task, i, raws>>, made' \in {made, made + 1} PROVE P
  BY <1>0, <1>1 DEF StateType, PcInv, MainInv, threadVars
<1>2. ASSUME NEW t \in Thread, NEW c \in Category, ScheduleNewRunner(t, c) PROVE P
  <2>1. PICK w : w = (CHOOSE v \in Unused : TRUE)
    OBVIOUS
  <2>2. w \in Unused /\ w \in Worker /\ w \in Thread /\ pc[w] = "none" /\ w # Main /\ t # w
    BY <1>0, <1>2, <2>1, Targets DEF ScheduleNewRunner, Unused, Executes, At
  <2>3. StartRunner(t, c, w) /\ made' = made + 1 /\ Executes(t)
    BY <1>2, <2>1 DEF ScheduleNewRunner, StartRunner, SubmitTask
  <2>4. MainFor(t) = Main
    BY <1>0, <2>3 DEF Executes, At, MainFor, MainInv, PcInv, WorkerAt
  <2>5. allRunners' \in [Thread -> Seq(Worker)]
    <3>1. Append(allRunners[t], w) \in Seq(Worker)
      BY <1>0, <2>2, AppendEntries DEF StateType
    <3> QED BY <1>0, <2>3, <3>1 DEF StateType, StartRunner
  <2>6. runners' \in [Thread -> [Category -> Worker \cup {Null}]] /\ home' \in [Worker -> {Main, Null}]
    BY <1>0, <2>2, <2>3, <2>4 DEF StateType, StartRunner
  <2>7. StateType'
    BY <1>0, <2>2, <2>3, <2>5, <2>6 DEF StateType, StartRunner, Go
  <2>8. PcInv' /\ i' >= 1
    BY <1>0, <2>2, <2>3 DEF StateType, PcInv, WorkerAt, StartRunner, Go
  <2>9. MainInv'
    BY <1>0, <2>2, <2>3, <2>4 DEF StateType, MainInv, StartRunner, Go
  <2> QED BY <2>7, <2>8, <2>9
<1>3. CASE SendRaw
  BY <1>0, <1>3 DEF SendRaw, StateType, PcInv, MainInv, threadVars
<1>4. ASSUME NEW w \in Worker, AttachMain(w) PROVE P
  BY <1>0, <1>4 DEF AttachMain, At, Go, StateType, PcInv, WorkerAt, MainInv
<1>5. ASSUME NEW w \in Worker, RunnerReceive(w) PROVE P
  <2>1. w \in Thread /\ w # Main /\ pc[w] = "loop" /\ UNCHANGED <<threadVars, i, raws, made>>
    BY <1>0, <1>5 DEF RunnerReceive, At
  <2>2. \/ Go(w, "exited") /\ UNCHANGED task
        \/ \E n \in 1 .. MaxMessages : Go(w, "task") /\ task' = [task EXCEPT ![w] = n]
    <3>1. Head(mailbox[w]) \in Message
      BY <1>0, <1>5, <2>1, Taken DEF RunnerReceive
    <3> QED BY <1>5, <3>1, MessageIs DEF RunnerReceive, Execute
  <2>3. MaxMessages \in Nat
    BY SchedulerAssumption
  <2>4. CASE Go(w, "exited") /\ UNCHANGED task
    BY <1>0, <2>1, <2>4 DEF Go, StateType, PcInv, WorkerAt, MainInv, threadVars
  <2>5. ASSUME NEW n \in 1 .. MaxMessages, Go(w, "task"), task' = [task EXCEPT ![w] = n] PROVE P
    BY <1>0, <2>1, <2>3, <2>5 DEF Go, StateType, PcInv, WorkerAt, MainInv, threadVars
  <2> QED BY <2>2, <2>4, <2>5
<1>6. ASSUME NEW t \in Thread, TaskEnds(t) PROVE P
  <2>1. pc[t] = "task" /\ task' = [task EXCEPT ![t] = Null] /\ UNCHANGED <<threadVars, i, raws, made>>
        /\ pc' = [pc EXCEPT ![t] = IF t = Main THEN "drain" ELSE "loop"]
    BY <1>6 DEF TaskEnds, At, Go
  <2> QED BY <1>0, <2>1 DEF StateType, PcInv, WorkerAt, MainAt, MainInv, threadVars
<1>7. ASSUME NEW l \in MainAt \ {"task"}, pc[Main] # "task", pc[Main] # "none", pc' = [pc EXCEPT ![Main] = l],
             UNCHANGED <<threadVars, task, raws, made>>, i' \in {i, 1, i + 1}
      PROVE  P
  BY <1>0, <1>7 DEF StateType, PcInv, WorkerAt, MainAt, MainInv, threadVars
<1>8. ASSUME UNCHANGED <<threadVars, pc, task, raws, made>>, i' \in {i, 1, i + 1} PROVE P
  BY <1>0, <1>8 DEF StateType, PcInv, MainInv, threadVars
<1>9. CASE DrainStep
  <2>1. CASE IsTask(Head(mailbox[Main])) /\ Execute(Main, Head(mailbox[Main])[2]) /\ UNCHANGED i
              /\ mailbox[Main] # <<>> /\ Take(Main)
    <3>1. UNCHANGED <<threadVars, raws, made, i>> /\ pc[Main] = "drain"
      BY <1>9, <2>1 DEF DrainStep, At
    <3>2. Head(mailbox[Main])[2] \in 1 .. MaxMessages /\ MaxMessages \in Nat
      BY <1>0, <2>1, Taken, MessageIs, SchedulerAssumption
    <3> QED BY <1>0, <2>1, <3>1, <3>2 DEF Execute, Go, StateType, PcInv, WorkerAt, MainAt, MainInv, threadVars
  <2>2. CASE UNCHANGED <<pc, task, i>>
    BY <1>0, <1>8, <1>9, <2>2 DEF DrainStep
  <2>3. CASE Go(Main, "putBack") /\ i' = 1 /\ UNCHANGED task
    BY <1>0, <1>7, <1>9, <2>3 DEF DrainStep, Go, At, MainAt
  <2> QED BY <1>9, <2>1, <2>2, <2>3 DEF DrainStep, DrainTake
<1>10. CASE HandleMainTasks \/ Exit
  BY <1>7, <1>10 DEF HandleMainTasks, Exit, At, Go, MainAt
<1>11. CASE PutBack
  BY <1>7, <1>8, <1>11 DEF PutBack, At, Go, MainAt
<1>12. CASE StopRunner
  BY <1>7, <1>8, <1>12 DEF StopRunner, At, Go, MainAt
<1>13. CASE JoinRunner
  BY <1>7, <1>8, <1>13 DEF JoinRunner, At, Go, MainAt
<1>14. ASSUME NEW t \in Thread, ScheduleMain(t) \/ \E c \in Category : ScheduleRunner(t, c) PROVE P
  BY <1>1, <1>14 DEF ScheduleMain, ScheduleRunner, SubmitTask
<1>15. CASE UNCHANGED vars
  BY <1>1, <1>15 DEF vars
<1> QED BY <1>0, <1>2, <1>3, <1>4, <1>5, <1>6, <1>9, <1>10, <1>11, <1>12, <1>13, <1>14, <1>15
   DEF Next, WorkerStep, StopStep, ProcessOver

-----------------------------------------------------------------------------
(* Runners, their stop messages and their joins.                           *)

\* A thread that was started is never again one that was not.
LEMMA StartedStays ==
  ASSUME IInv, [Next]_vars, NEW w \in Thread, pc[w] # "none"
  PROVE  pc'[w] # "none"
<1>1. pc \in [Thread -> {"none", "start", "loop", "task", "exited",
                         "run", "drain", "putBack", "stop", "join", "done"}]
  BY DEF IInv, TypeOK
<1> QED BY <1>1 DEF Next, vars, ScheduleMain, ScheduleRunner, ScheduleNewRunner, StartRunner, SubmitTask, SendRaw,
      WorkerStep, AttachMain, RunnerReceive, Execute, TaskEnds, HandleMainTasks, DrainStep, DrainTake, PutBack,
      Exit, StopStep, StopRunner, JoinRunner, ProcessOver, Go

\* Only a new runner changes the lists of runners.
LEMMA SameRunners ==
  ASSUME [Next]_vars, ~ \E t \in Thread : \E c \in Category : ScheduleNewRunner(t, c)
  PROVE  UNCHANGED <<runners, allRunners>>
BY DEF Next, vars, ScheduleMain, ScheduleRunner, SendRaw, threadVars,
       WorkerStep, AttachMain, RunnerReceive, TaskEnds, HandleMainTasks, DrainStep, PutBack,
       Exit, StopStep, StopRunner, JoinRunner, ProcessOver

\* What a thread does that makes a runner.
LEMMA NewRunner ==
  ASSUME IInv, NEW t \in Thread, NEW c \in Category, ScheduleNewRunner(t, c)
  PROVE  \E w \in Worker :
           /\ pc[w] = "none" /\ w \in Thread /\ w # Main /\ w # t /\ StartRunner(t, c, w) /\ SubmitTask(w)
           /\ pc' = [pc EXCEPT ![w] = "start"] /\ i' = i /\ Executes(t)
           /\ runners' = [runners EXCEPT ![t][c] = w]
           /\ Longer(allRunners'[t], allRunners[t], w)
           /\ \A u \in Thread : u # t => allRunners'[u] = allRunners[u]
<1>1. PICK w : w = (CHOOSE v \in Unused : TRUE)
  OBVIOUS
<1>2. w \in Unused /\ w \in Worker /\ w \in Thread /\ pc[w] = "none" /\ w # Main /\ t # w
  BY <1>1, Targets DEF ScheduleNewRunner, Unused, Executes, At, IInv
<1>3. StartRunner(t, c, w) /\ SubmitTask(w) /\ Executes(t)
  BY <1>1 DEF ScheduleNewRunner, StartRunner
<1>4. allRunners \in [Thread -> Seq(Worker)] /\ allRunners' = [allRunners EXCEPT ![t] = Append(@, w)]
  BY <1>3 DEF StartRunner, IInv, TypeOK
<1>5. Longer(allRunners'[t], allRunners[t], w) /\ \A u \in Thread : u # t => allRunners'[u] = allRunners[u]
  BY <1>2, <1>4, AppendEntries DEF Longer
<1> QED BY <1>2, <1>3, <1>5 DEF StartRunner, Go

\* Every step keeps every runner with the thread that made it.
LEMMA RunnerStep == IInv /\ [Next]_vars => RunnerInv'
<1> SUFFICES ASSUME IInv, [Next]_vars PROVE RunnerInv'
  OBVIOUS
<1>0. RunnerInv /\ TypeOK
  BY DEF IInv
<1>a. \A t \in Thread : Len(allRunners[t]) \in Nat /\ \A k \in 1 .. Len(allRunners[t]) : allRunners[t][k] \in Thread
  BY <1>0, ElementOfSeq DEF TypeOK, Thread
<1>1. CASE ~ \E t \in Thread : \E c \in Category : ScheduleNewRunner(t, c)
  <2>1. UNCHANGED <<runners, allRunners>>
    BY <1>1, SameRunners
  <2>2. \A t \in Thread : \A k \in 1 .. Len(allRunners[t]) : pc'[allRunners[t][k]] # "none"
    BY <1>0, <1>a, StartedStays DEF RunnerInv
  <2> QED BY <1>0, <2>1, <2>2 DEF RunnerInv
<1>2. ASSUME NEW t \in Thread, NEW c \in Category, ScheduleNewRunner(t, c) PROVE RunnerInv'
  <2>1. PICK w \in Worker :
          /\ pc[w] = "none" /\ w \in Thread /\ w # Main /\ w # t
          /\ pc' = [pc EXCEPT ![w] = "start"]
          /\ runners' = [runners EXCEPT ![t][c] = w]
          /\ Longer(allRunners'[t], allRunners[t], w)
          /\ \A u \in Thread : u # t => allRunners'[u] = allRunners[u]
    BY <1>2, NewRunner
  <2> DEFINE l == Len(allRunners[t])
  <2>2. l \in Nat /\ Len(allRunners'[t]) = l + 1 /\ allRunners'[t][l + 1] = w
        /\ \A k \in 1 .. l : allRunners'[t][k] = allRunners[t][k]
    BY <2>1 DEF Longer
  <2>3. \A u \in Thread : \A k \in 1 .. Len(allRunners[u]) :
          allRunners[u][k] # w /\ k \in 1 .. Len(allRunners'[u]) /\ allRunners'[u][k] = allRunners[u][k]
    BY <1>0, <1>a, <2>1, <2>2 DEF RunnerInv
  <2>4. \A u \in Thread : \A k \in 1 .. Len(allRunners'[u]) :
          \/ k \in 1 .. Len(allRunners[u]) /\ allRunners'[u][k] = allRunners[u][k]
          \/ u = t /\ k = l + 1 /\ allRunners'[u][k] = w
    BY <2>1, <2>2
  <2> HIDE DEF l
  <2>5. ASSUME NEW u \in Thread, NEW d \in Category, runners'[u][d] # Null
        PROVE  \E k \in 1 .. Len(allRunners'[u]) : allRunners'[u][k] = runners'[u][d]
    <3>1. CASE u = t /\ d = c
      <4>1. runners'[u][d] = w
        BY <1>0, <2>1, <3>1 DEF TypeOK
      <4>2. l + 1 \in 1 .. Len(allRunners'[t])
        BY <2>2
      <4> QED BY <2>2, <3>1, <4>1, <4>2
    <3>2. CASE ~(u = t /\ d = c)
      <4>1. runners'[u][d] = runners[u][d]
        BY <1>0, <2>1, <3>2 DEF TypeOK
      <4> QED BY <1>0, <2>3, <2>5, <4>1 DEF RunnerInv
    <3> QED BY <3>1, <3>2
  <2>6. ASSUME NEW u \in Thread, NEW k \in 1 .. Len(allRunners'[u]) PROVE pc'[allRunners'[u][k]] # "none"
    <3>1. CASE k \in 1 .. Len(allRunners[u]) /\ allRunners'[u][k] = allRunners[u][k]
      <4>1. pc[allRunners[u][k]] # "none" /\ allRunners[u][k] \in Thread
        BY <1>0, <1>a, <3>1 DEF RunnerInv
      <4> QED BY <1>2, <3>1, <4>1, StartedStays
    <3>2. CASE allRunners'[u][k] = w
      <4>1. pc'[w] = "start"
        BY <1>0, <2>1 DEF TypeOK
      <4> QED BY <3>2, <4>1
    <3> QED BY <2>4, <3>1, <3>2
  <2>7. ASSUME NEW u \in Thread, NEW v \in Thread, NEW k \in 1 .. Len(allRunners'[u]), NEW m \in 1 .. Len(allRunners'[v]),
               allRunners'[u][k] = allRunners'[v][m]
        PROVE  u = v /\ k = m
    BY <1>0, <2>3, <2>4, <2>7 DEF RunnerInv
  <2> QED BY <2>5, <2>6, <2>7 DEF RunnerInv
<1> QED BY <1>1, <1>2

\* Nobody is told to stop but by stopAll(), and nobody sends to those who are.
LEMMA NobodyStopped ==
  ASSUME IInv
  PROVE  /\ pc[Main] \notin {"stop", "join", "done"} => \A w \in Worker : ~StopSent(w)
         /\ \A t \in Thread, c \in Category : Executes(t) /\ runners[t][c] # Null => ~StopSent(runners[t][c])
         /\ \A w \in Worker : pc[w] = "none" => ~StopSent(w)
<1>1. pc[Main] \notin {"stop", "join", "done"} => \A w \in Worker : ~StopSent(w)
  BY DEF StopSent
<1>2. ASSUME NEW t \in Thread, NEW c \in Category, Executes(t), runners[t][c] # Null, StopSent(runners[t][c])
      PROVE  FALSE
  <2>1. t = Main
    BY <1>2 DEF IInv, RunnerInv, StopSent, Thread
  <2> QED BY <1>2, <2>1 DEF StopSent, Executes, At
<1>3. \A w \in Worker : pc[w] = "none" => ~StopSent(w)
  BY DEF StopSent, IInv, RunnerInv, Thread
<1> QED BY <1>1, <1>2, <1>3

\* A worker to whom nothing happens, or that gets a message that is no stop.
LEMMA StopKept ==
  ASSUME NEW w \in Worker, StopOf(w), StopSent(w) => StopSent(w)', pc'[w] = "exited" => pc[w] = "exited",
         mailbox'[w] = mailbox[w]
  PROVE  StopOf(w)'
BY DEF StopOf

\* A worker that was not told to stop gets a message.
LEMMA StopGets ==
  ASSUME NEW w \in Worker, StopOf(w), ~StopSent(w), pc'[w] = "exited" => pc[w] = "exited",
         NEW m, m # TaskStop \/ StopSent(w)', Longer(mailbox'[w], mailbox[w], m)
  PROVE  StopOf(w)'
<1>1. \A k \in 1 .. Len(mailbox[w]) : mailbox[w][k] # TaskStop
  BY DEF StopOf
<1>2. \A k \in 1 .. Len(mailbox'[w]) : mailbox'[w][k] = TaskStop => StopSent(w)' /\ k = Len(mailbox'[w])
  BY <1>1 DEF Longer
<1>3. pc'[w] # "exited"
  BY DEF StopOf
<1> QED BY <1>2, <1>3 DEF StopOf

\* Every step keeps the stop of a runner behind its tasks.
LEMMA StopInvStep == IInv /\ [Next]_vars => StopInv'
<1> SUFFICES ASSUME IInv, [Next]_vars PROVE StopInv'
  OBVIOUS
<1>0. StopInv /\ TypeOK /\ OrderInv /\ RawInv /\ Main \notin Worker /\ Main \in Thread /\ Worker \subseteq Thread
      /\ pc \in [Thread -> {"none", "start", "loop", "task", "exited",
                            "run", "drain", "putBack", "stop", "join", "done"}]
  BY SchedulerAssumption DEF IInv, Thread, TypeOK
<1>a. i' >= 1
  BY StateStep
<1> SUFFICES ASSUME NEW x \in Worker PROVE StopOf(x)'
  BY <1>a DEF StopInv
<1>b. StopOf(x) /\ x \in Thread /\ x # Main
  BY <1>0 DEF StopInv
<1>1. ASSUME NEW t \in Thread, NEW u \in Thread, SubmitTask(u), u \in Worker => ~StopSent(u), made < MaxMessages,
             UNCHANGED ran, StopSent(x) => StopSent(x)', pc'[x] = "exited" => pc[x] = "exited"
      PROVE  StopOf(x)'
  <2>1. Longer(mailbox'[u], mailbox[u], TaskMsg(made + 1)) /\ \A v \in Thread : v # u => mailbox'[v] = mailbox[v]
    BY <1>0, <1>1, SubmitOrder
  <2>2. TaskMsg(made + 1) # TaskStop
    BY DEF TaskMsg, TaskStop
  <2> QED BY <1>b, <1>1, <2>1, <2>2, StopKept, StopGets
<1>2. ASSUME NEW t \in Thread, ScheduleMain(t) PROVE StopOf(x)'
  <2>1. MainFor(t) = Main
    <3>1. pc[t] \in {"run", "task"} /\ MainInv /\ PcInv /\ Main # Null
      BY <1>2, SchedulerAssumption DEF ScheduleMain, Executes, At, IInv
    <3> QED BY <3>1 DEF MainFor, MainInv, PcInv, WorkerAt, Thread
  <2>2. SubmitTask(Main) /\ made < MaxMessages /\ UNCHANGED <<ran, pc, i, allRunners>>
    BY <1>2, <2>1 DEF ScheduleMain, threadVars
  <2>3. StopSent(x)' <=> StopSent(x)
    BY <2>2 DEF StopSent
  <2> QED BY <1>0, <1>1, <2>2, <2>3
<1>3. ASSUME NEW t \in Thread, NEW c \in Category, ScheduleRunner(t, c) PROVE StopOf(x)'
  <2>1. Executes(t) /\ runners[t][c] # Null /\ SubmitTask(runners[t][c]) /\ made < MaxMessages
        /\ UNCHANGED <<ran, pc, i, allRunners>>
    BY <1>3 DEF ScheduleRunner, threadVars
  <2>2. runners[t][c] \in Thread /\ ~StopSent(runners[t][c])
    BY <1>0, <2>1, Targets, NobodyStopped
  <2>3. StopSent(x)' <=> StopSent(x)
    BY <2>1 DEF StopSent
  <2> QED BY <1>1, <2>1, <2>2, <2>3
<1>4. ASSUME NEW t \in Thread, NEW c \in Category, ScheduleNewRunner(t, c) PROVE StopOf(x)'
  <2>1. PICK w \in Worker :
          /\ pc[w] = "none" /\ w \in Thread /\ w # Main /\ w # t /\ SubmitTask(w)
          /\ pc' = [pc EXCEPT ![w] = "start"] /\ i' = i /\ Executes(t)
          /\ \A u \in Thread : u # t => allRunners'[u] = allRunners[u]
    BY <1>4, NewRunner
  <2>2. ran' = ran /\ made < MaxMessages
    BY <1>4 DEF ScheduleNewRunner, StartRunner
  <2>3. ~StopSent(w)
    BY <2>1, NobodyStopped
  <2>4. pc'[Main] = pc[Main] /\ (pc'[x] = "exited" => pc[x] = "exited")
    BY <1>0, <1>b, <2>1
  <2>5. StopSent(x) => StopSent(x)'
    <3>1. CASE t = Main
      BY <2>1, <3>1, NobodyStopped DEF Executes, At, StopSent
    <3>2. CASE t # Main
      BY <1>0, <2>1, <2>4, <3>2 DEF StopSent
    <3> QED BY <3>1, <3>2
  <2> QED BY <1>1, <2>1, <2>2, <2>3, <2>4, <2>5
<1>5. ASSUME NEW w \in Worker, RunnerReceive(w) PROVE StopOf(x)'
  <2>1. pc[w] = "loop" /\ mailbox[w] # <<>> /\ Take(w) /\ UNCHANGED <<allRunners, i>> /\ w \in Thread
    BY <1>0, <1>5 DEF RunnerReceive, At, threadVars
  <2>2. (pc' = [pc EXCEPT ![w] = "exited"] /\ Head(mailbox[w]) = TaskStop) \/ pc' = [pc EXCEPT ![w] = "task"]
    BY <1>5 DEF RunnerReceive, Execute, Go
  <2>3. pc'[Main] = pc[Main]
    BY <1>0, <2>1, <2>2
  <2>4. StopSent(x)' <=> StopSent(x)
    BY <2>1, <2>3 DEF StopSent
  <2>5. /\ mailbox' \in [Thread -> Seq(Message)]
        /\ \A u \in Thread : u # w => mailbox'[u] = mailbox[u]
        /\ Shorter(mailbox'[w], mailbox[w]) /\ Head(mailbox[w]) = mailbox[w][1]
    BY <1>0, <2>1, Taken
  <2>6. CASE x # w
    BY <1>0, <1>b, <2>1, <2>2, <2>4, <2>5, <2>6, StopKept
  <2>7. CASE x = w
    <3>1. \A k \in 1 .. Len(mailbox'[w]) : mailbox'[w][k] = mailbox[w][k + 1] /\ k + 1 \in 1 .. Len(mailbox[w])
          /\ Len(mailbox'[w]) + 1 = Len(mailbox[w])
      BY <2>5 DEF Shorter
    <3>2. \A k \in 1 .. Len(mailbox'[w]) : mailbox'[w][k] = TaskStop => StopSent(w)' /\ k = Len(mailbox'[w])
      BY <1>b, <2>4, <2>7, <3>1 DEF StopOf
    <3>3. ASSUME pc'[w] = "exited" PROVE StopSent(w)' /\ mailbox'[w] = <<>>
      <4>1. mailbox[w][1] = TaskStop
        BY <1>0, <2>1, <2>2, <2>5, <3>3
      <4>2. Len(mailbox[w]) \in Nat \ {0} /\ Len(mailbox'[w]) = Len(mailbox[w]) - 1 /\ 1 \in 1 .. Len(mailbox[w])
        BY <2>5 DEF Shorter
      <4>3. StopSent(w) /\ Len(mailbox[w]) = 1
        BY <1>b, <2>7, <4>1, <4>2 DEF StopOf
      <4>4. mailbox'[w] \in Seq(Message) /\ Len(mailbox'[w]) = 0
        BY <2>1, <2>5, <4>2, <4>3
      <4> QED BY <2>4, <2>7, <4>3, <4>4
    <3> QED BY <2>7, <3>2, <3>3 DEF StopOf
  <2> QED BY <2>6, <2>7
<1>6. CASE SendRaw
  <2>1. mailbox'[x] = mailbox[x] /\ UNCHANGED <<pc, i, allRunners>>
    BY <1>0, <1>b, <1>6 DEF SendRaw, Deliver, threadVars, TypeOK
  <2>2. StopSent(x)' <=> StopSent(x)
    BY <2>1 DEF StopSent
  <2> QED BY <1>b, <2>1, <2>2, StopKept
<1>7. ASSUME pc[Main] \notin {"stop", "join", "done"}, mailbox'[x] = mailbox[x], pc'[x] = "exited" => pc[x] = "exited"
      PROVE  StopOf(x)'
  BY <1>b, <1>7, NobodyStopped, StopKept
<1>8. CASE HandleMainTasks \/ DrainStep \/ PutBack \/ Exit \/ TaskEnds(Main)
  <2>1. pc[Main] \notin {"stop", "join", "done"}
    BY <1>8 DEF HandleMainTasks, DrainStep, PutBack, Exit, TaskEnds, At
  <2>2. mailbox'[x] = mailbox[x]
    BY <1>0, <1>b, <1>8 DEF HandleMainTasks, DrainStep, PutBack, Exit, TaskEnds, Take, Deliver, TypeOK
  <2>3. pc'[x] = pc[x]
    BY <1>0, <1>b, <1>8 DEF HandleMainTasks, DrainStep, DrainTake, Execute, PutBack, Exit, TaskEnds, Go
  <2> QED BY <1>7, <2>1, <2>2, <2>3
<1>9. ASSUME NEW w \in Worker, AttachMain(w) \/ TaskEnds(w) PROVE StopOf(x)'
  <2>1. mailbox' = mailbox /\ UNCHANGED <<i, allRunners>> /\ pc' = [pc EXCEPT ![w] = "loop"]
    BY <1>0, <1>9 DEF AttachMain, TaskEnds, Go, threadVars
  <2>2. pc'[Main] = pc[Main] /\ (pc'[x] = "exited" => pc[x] = "exited")
    BY <1>0, <1>b, <2>1
  <2>3. StopSent(x)' <=> StopSent(x)
    BY <2>1, <2>2 DEF StopSent
  <2> QED BY <1>b, <2>1, <2>2, <2>3, StopKept
<1>10. CASE StopRunner
  <2>1. pc[Main] = "stop" /\ UNCHANGED allRunners /\ i \in Nat /\ Len(allRunners[Main]) \in Nat
    BY <1>0, <1>10 DEF StopRunner, At, threadVars, TypeOK
  <2>2. CASE i <= Len(allRunners[Main]) /\ Deliver(Runner(i), TaskStop) /\ i' = i + 1 /\ UNCHANGED pc
    <3>0. i \in 1 .. Len(allRunners[Main]) /\ Runner(i) = allRunners[Main][i] /\ Runner(i) \in Worker
      BY <1>0, <2>1, <2>2, ElementOfSeq DEF Runner, StopInv, TypeOK
    <3>1. PICK w \in Worker : w = Runner(i) /\ w = allRunners[Main][i] /\ i \in 1 .. Len(allRunners[Main])
      BY <3>0
    <3>2. ~StopSent(w)
      BY <1>0, <2>1, <3>1 DEF StopSent, IInv, RunnerInv
    <3>3. StopSent(w)'
      BY <2>1, <2>2, <3>1 DEF StopSent
    <3>4. StopSent(x) => StopSent(x)'
      BY <2>1, <2>2 DEF StopSent
    <3>5. Longer(mailbox'[w], mailbox[w], TaskStop) /\ \A v \in Thread : v # w => mailbox'[v] = mailbox[v]
      BY <1>0, <2>2, <3>1, MessageIs, Delivered
    <3>6. CASE x = w
      BY <1>b, <2>2, <3>2, <3>3, <3>5, <3>6, StopGets
    <3>7. CASE x # w
      BY <1>b, <2>2, <3>4, <3>5, <3>7, StopKept
    <3> QED BY <3>6, <3>7
  <2>3. CASE Go(Main, "join") /\ i' = 1 /\ UNCHANGED mailbox
    <3>1. pc'[Main] = "join" /\ pc'[x] = pc[x]
      BY <1>0, <1>b, <2>3 DEF Go
    <3>2. StopSent(x) => StopSent(x)'
      BY <2>1, <3>1 DEF StopSent
    <3> QED BY <1>b, <2>3, <3>1, <3>2, StopKept
  <2> QED BY <1>10, <2>2, <2>3 DEF StopRunner, StopMessage
<1>11. CASE JoinRunner
  <2>1. pc[Main] = "join" /\ UNCHANGED <<mailbox, allRunners>> /\ pc'[Main] \in {"join", "done"} /\ pc'[x] = pc[x]
    BY <1>0, <1>b, <1>11 DEF JoinRunner, At, Go, threadVars
  <2>2. StopSent(x) => StopSent(x)'
    BY <2>1 DEF StopSent
  <2> QED BY <1>b, <2>1, <2>2, StopKept
<1>12. CASE UNCHANGED vars
  <2>1. UNCHANGED <<mailbox, pc, i, allRunners>>
    BY <1>12 DEF vars, threadVars
  <2>2. StopSent(x)' <=> StopSent(x)
    BY <2>1 DEF StopSent
  <2> QED BY <1>b, <2>1, <2>2, StopKept
<1> QED BY <1>2, <1>3, <1>4, <1>5, <1>6, <1>8, <1>9, <1>10, <1>11, <1>12
   DEF Next, WorkerStep, StopStep, ProcessOver

\* What stopAll() has waited for has exited, and stays so.
LEMMA ExitedStays ==
  ASSUME IInv, [Next]_vars, NEW w \in Worker, pc[w] = "exited"
  PROVE  pc'[w] = "exited"
<1>0. /\ pc \in [Thread -> {"none", "start", "loop", "task", "exited",
                            "run", "drain", "putBack", "stop", "join", "done"}]
      /\ w \in Thread /\ w # Main
  BY SchedulerAssumption DEF IInv, TypeOK, Thread
<1>1. ASSUME NEW t \in Thread, NEW c \in Category, ScheduleNewRunner(t, c) PROVE pc'[w] = "exited"
  BY <1>0, <1>1, NewRunner
<1> QED BY <1>0, <1>1 DEF Next, vars, ScheduleMain, ScheduleRunner, SendRaw,
      WorkerStep, AttachMain, RunnerReceive, Execute, TaskEnds, HandleMainTasks, DrainStep, DrainTake, PutBack,
      Exit, StopStep, StopRunner, JoinRunner, ProcessOver, Go, At

\* Every step keeps what stopAll() has joined.
LEMMA JoinStep == IInv /\ [Next]_vars => JoinInv'
<1> SUFFICES ASSUME IInv, [Next]_vars PROVE JoinInv'
  OBVIOUS
<1>0. /\ JoinInv /\ StopInv /\ i \in Nat /\ Main \in Thread /\ Main \notin Worker
      /\ Len(allRunners[Main]) \in Nat
      /\ \A k \in 1 .. Len(allRunners[Main]) : allRunners[Main][k] \in Worker
      /\ pc \in [Thread -> {"none", "start", "loop", "task", "exited",
                            "run", "drain", "putBack", "stop", "join", "done"}]
  <2>1. Main \in Thread /\ Main \notin Worker
    BY SchedulerAssumption DEF Thread
  <2>2. allRunners[Main] \in Seq(Worker)
    BY <2>1 DEF IInv, TypeOK
  <2> QED BY <2>1, <2>2, ElementOfSeq DEF IInv, TypeOK
<1>1. CASE pc'[Main] \notin {"join", "done"}
  BY <1>1 DEF JoinInv
<1>2. CASE pc'[Main] = pc[Main] /\ i' = i /\ allRunners'[Main] = allRunners[Main]
  BY <1>0, <1>2, ExitedStays DEF JoinInv
<1>3. CASE StopRunner
  BY <1>0, <1>3 DEF StopRunner, At, Go, JoinInv, StopInv, threadVars
<1>4. CASE JoinRunner
  <2>1. pc[Main] = "join" /\ UNCHANGED allRunners /\ \A w \in Worker : pc[w] = "exited" => pc'[w] = "exited"
    BY <1>4, ExitedStays DEF JoinRunner, At, threadVars
  <2>2. CASE i <= Len(allRunners[Main]) /\ pc[Runner(i)] = "exited" /\ i' = i + 1 /\ UNCHANGED pc
    <3>1. ASSUME NEW k \in 1 .. Len(allRunners[Main]), k < i + 1 PROVE pc[allRunners[Main][k]] = "exited"
      <4>1. k < i \/ k = i
        BY <1>0, <3>1
      <4> QED BY <1>0, <2>1, <2>2, <4>1 DEF JoinInv, Runner
    <3>2. pc' = pc /\ i' = i + 1 /\ allRunners' = allRunners
      BY <2>1, <2>2
    <3> QED BY <2>1, <3>1, <3>2 DEF JoinInv
  <2>3. CASE i > Len(allRunners[Main])
    BY <1>0, <2>1, <2>3 DEF JoinInv
  <2> QED BY <1>4, <2>2, <2>3 DEF JoinRunner
<1>5. ASSUME NEW t \in Thread, NEW c \in Category, ScheduleNewRunner(t, c) PROVE JoinInv'
  <2>1. PICK w \in Worker :
          /\ w # Main /\ pc' = [pc EXCEPT ![w] = "start"] /\ i' = i /\ Executes(t)
          /\ \A u \in Thread : u # t => allRunners'[u] = allRunners[u]
    BY <1>5, NewRunner
  <2>2. pc'[Main] = pc[Main]
    BY <1>0, <2>1
  <2>3. CASE t = Main
    BY <1>1, <2>1, <2>2, <2>3 DEF Executes, At
  <2>4. CASE t # Main
    BY <1>0, <1>2, <2>1, <2>2, <2>4
  <2> QED BY <2>3, <2>4
<1>6. ASSUME NEW w \in Worker, WorkerStep(w) PROVE JoinInv'
  <2>1. pc'[Main] = pc[Main]
    BY <1>0, <1>6 DEF WorkerStep, AttachMain, RunnerReceive, Execute, TaskEnds, Go
  <2>2. UNCHANGED <<allRunners, i>>
    BY <1>6 DEF WorkerStep, AttachMain, RunnerReceive, TaskEnds, threadVars
  <2> QED BY <1>2, <2>1, <2>2
<1>7. CASE HandleMainTasks \/ DrainStep \/ TaskEnds(Main) \/ PutBack \/ Exit
  BY <1>0, <1>1, <1>7 DEF HandleMainTasks, DrainStep, DrainTake, Execute, TaskEnds, PutBack, Exit, Go, At
<1>8. ASSUME NEW t \in Thread, ScheduleMain(t) \/ \E c \in Category : ScheduleRunner(t, c) PROVE JoinInv'
  BY <1>2, <1>8 DEF ScheduleMain, ScheduleRunner, threadVars
<1>9. CASE SendRaw \/ UNCHANGED vars
  BY <1>2, <1>9 DEF SendRaw, vars, threadVars
<1> QED BY <1>3, <1>4, <1>5, <1>6, <1>7, <1>8, <1>9 DEF Next, StopStep, ProcessOver

-----------------------------------------------------------------------------
(* The messages that are not tasks, and the place of each.                 *)

\* One parameter of RawMsg for every such message.
LEMMA RawIs == \A n : IsRaw(RawMsg(n)) /\ RawMsg(n)[2] = n
BY DEF RawMsg, IsRaw

\* Main gets a task.
LEMMA PlacedTask ==
  ASSUME NEW box, NEW rest, NEW from, NEW r, Placed(box, rest, from, r),
         NEW box2, NEW m, Longer(box2, box, m), ~IsRaw(m)
  PROVE  Placed(box2, rest, from, r)
<1> DEFINE l == Len(box)
<1>1. l \in Nat /\ Len(box2) = l + 1 /\ box2[l + 1] = m /\ \A k \in 1 .. l : box2[k] = box[k]
  BY DEF Longer
<1>2. \A k \in 1 .. Len(box2) : k \in 1 .. l \/ k = l + 1
  BY <1>1
<1>3. \A k \in 1 .. l : k \in 1 .. Len(box2)
  BY <1>1
<1> HIDE DEF l
<1>4. \A n \in r : (\E k \in 1 .. Len(box2) : box2[k] = RawMsg(n)) \/ (\E k \in from .. Len(rest) : rest[k] = RawMsg(n))
  BY <1>1, <1>3 DEF Placed, l
<1>5. \A k \in 1 .. Len(box2) : IsRaw(box2[k]) => k \in 1 .. l /\ box2[k] = box[k] /\ box2[k][2] \in r
  BY <1>1, <1>2 DEF Placed, l
<1>6. \A j, k \in 1 .. Len(box2) : IsRaw(box2[j]) /\ box2[j] = box2[k] => j = k
  <2> SUFFICES ASSUME NEW j \in 1 .. Len(box2), NEW k \in 1 .. Len(box2), IsRaw(box2[j]), box2[j] = box2[k]
               PROVE  j = k
    OBVIOUS
  <2>1. j \in 1 .. l /\ k \in 1 .. l /\ IsRaw(box[j]) /\ box[j] = box[k]
    BY <1>5
  <2> QED BY <2>1 DEF Placed, l
<1>7. \A j \in 1 .. Len(box2), k \in from .. Len(rest) : box2[j] # rest[k]
  <2> SUFFICES ASSUME NEW j \in 1 .. Len(box2), NEW k \in from .. Len(rest), box2[j] = rest[k] PROVE FALSE
    OBVIOUS
  <2>1. IsRaw(box2[j])
    BY DEF Placed
  <2>2. j \in 1 .. l /\ box[j] = rest[k]
    BY <1>5, <2>1
  <2> QED BY <2>2 DEF Placed, l
<1> QED BY <1>4, <1>5, <1>6, <1>7 DEF Placed

\* Main gets a message that is not a task.
LEMMA PlacedNew ==
  ASSUME NEW box, NEW rest, NEW from, NEW r, Placed(box, rest, from, r),
         NEW n, n \notin r, NEW box2, Longer(box2, box, RawMsg(n))
  PROVE  Placed(box2, rest, from, r \cup {n})
<1> DEFINE l == Len(box)
           m == RawMsg(n)
<1>1. l \in Nat /\ Len(box2) = l + 1 /\ box2[l + 1] = m /\ \A k \in 1 .. l : box2[k] = box[k]
  BY DEF Longer
<1>2. /\ \A k \in 1 .. Len(box2) : k \in 1 .. l \/ k = l + 1
      /\ \A k \in 1 .. l : k \in 1 .. Len(box2)
      /\ l + 1 \in 1 .. Len(box2)
  BY <1>1
<1>3. IsRaw(m) /\ m[2] = n
  BY RawIs
<1> HIDE DEF l
<1>4. \A x \in r \cup {n} :
        (\E k \in 1 .. Len(box2) : box2[k] = RawMsg(x)) \/ (\E k \in from .. Len(rest) : rest[k] = RawMsg(x))
  <2> TAKE x \in r \cup {n}
  <2>1. CASE x = n
    BY <1>1, <1>2, <2>1
  <2>2. CASE x \in r
    BY <1>1, <1>2, <2>2 DEF Placed, l
  <2> QED BY <2>1, <2>2
<1> HIDE DEF m
<1>5. \A k \in 1 .. l : IsRaw(box2[k]) => box2[k][2] \in r /\ box2[k] # m
  BY <1>1, <1>3 DEF Placed, l
<1>6. \A k \in 1 .. Len(box2) : IsRaw(box2[k]) => box2[k][2] \in r \cup {n}
  BY <1>1, <1>2, <1>3, <1>5
<1>7. \A k \in from .. Len(rest) : IsRaw(rest[k]) /\ rest[k][2] \in r /\ rest[k] # m
  BY <1>3 DEF Placed
<1>8. \A j, k \in 1 .. Len(box2) : IsRaw(box2[j]) /\ box2[j] = box2[k] => j = k
  <2> SUFFICES ASSUME NEW j \in 1 .. Len(box2), NEW k \in 1 .. Len(box2), IsRaw(box2[j]), box2[j] = box2[k]
               PROVE  j = k
    OBVIOUS
  <2>1. CASE j \in 1 .. l /\ k \in 1 .. l
    BY <1>1, <2>1 DEF Placed, l
  <2>2. CASE j = l + 1 \/ k = l + 1
    BY <1>1, <1>2, <1>5, <2>2
  <2> QED BY <1>2, <2>1, <2>2
<1>9. \A j \in 1 .. Len(box2), k \in from .. Len(rest) : box2[j] # rest[k]
  BY <1>1, <1>2, <1>7 DEF Placed, l
<1>10. \A j, k \in from .. Len(rest) : rest[j] = rest[k] => j = k
  BY DEF Placed
<1> QED BY <1>4, <1>6, <1>7, <1>8, <1>9, <1>10 DEF Placed

\* Main takes a task.
LEMMA PlacedTaken ==
  ASSUME NEW box, NEW rest, NEW from, NEW r, Placed(box, rest, from, r),
         NEW box2, Shorter(box2, box), ~IsRaw(box[1])
  PROVE  Placed(box2, rest, from, r)
<1>1. /\ Len(box) \in Nat \ {0} /\ Len(box2) = Len(box) - 1
      /\ \A k \in 1 .. Len(box2) : k + 1 \in 1 .. Len(box) /\ box2[k] = box[k + 1]
      /\ \A k \in 1 .. Len(box) : k = 1 \/ (k - 1 \in 1 .. Len(box2) /\ box2[k - 1] = box[k])
  BY DEF Shorter
<1>2. \A n \in r : (\E k \in 1 .. Len(box2) : box2[k] = RawMsg(n)) \/ (\E k \in from .. Len(rest) : rest[k] = RawMsg(n))
  <2> TAKE n \in r
  <2>1. ASSUME NEW k \in 1 .. Len(box), box[k] = RawMsg(n) PROVE \E j \in 1 .. Len(box2) : box2[j] = RawMsg(n)
    <3>1. k # 1
      BY <2>1, RawIs
    <3> QED BY <1>1, <2>1, <3>1
  <2> QED BY <2>1 DEF Placed
<1>3. \A k \in 1 .. Len(box2) : IsRaw(box2[k]) => box2[k][2] \in r
  BY <1>1 DEF Placed
<1>4. \A j, k \in 1 .. Len(box2) : IsRaw(box2[j]) /\ box2[j] = box2[k] => j = k
  <2> SUFFICES ASSUME NEW j \in 1 .. Len(box2), NEW k \in 1 .. Len(box2), IsRaw(box2[j]), box2[j] = box2[k]
               PROVE  j = k
    OBVIOUS
  <2>1. j + 1 = k + 1
    BY <1>1 DEF Placed
  <2> QED BY <2>1
<1>5. \A j \in 1 .. Len(box2), k \in from .. Len(rest) : box2[j] # rest[k]
  BY <1>1 DEF Placed
<1> QED BY <1>2, <1>3, <1>4, <1>5 DEF Placed

\* Main takes another message and puts it aside.
LEMMA PlacedAside ==
  ASSUME NEW box, NEW rest, NEW r, Placed(box, rest, 1, r),
         NEW box2, Shorter(box2, box), IsRaw(box[1]),
         NEW rest2, Longer(rest2, rest, box[1])
  PROVE  Placed(box2, rest2, 1, r)
<1> DEFINE m == box[1]
           l == Len(rest)
<1>1. /\ Len(box) \in Nat \ {0} /\ Len(box2) = Len(box) - 1
      /\ \A k \in 1 .. Len(box2) : k + 1 \in 1 .. Len(box) /\ k + 1 # 1 /\ box2[k] = box[k + 1]
      /\ \A k \in 1 .. Len(box) : k = 1 \/ (k - 1 \in 1 .. Len(box2) /\ box2[k - 1] = box[k])
      /\ 1 \in 1 .. Len(box)
  BY DEF Shorter
<1>2. /\ l \in Nat /\ Len(rest2) = l + 1 /\ rest2[l + 1] = m /\ l + 1 \in 1 .. Len(rest2)
      /\ \A k \in 1 .. l : rest2[k] = rest[k] /\ k \in 1 .. Len(rest2)
      /\ \A k \in 1 .. Len(rest2) : k \in 1 .. l \/ k = l + 1
  BY DEF Longer
<1>3. m[2] \in r /\ \A k \in 1 .. l : rest[k] # m
  BY <1>1 DEF Placed
<1> HIDE DEF l
<1>4. \A n \in r : (\E k \in 1 .. Len(box2) : box2[k] = RawMsg(n)) \/ (\E k \in 1 .. Len(rest2) : rest2[k] = RawMsg(n))
  <2> TAKE n \in r
  <2>1. ASSUME NEW k \in 1 .. Len(box), box[k] = RawMsg(n)
        PROVE  (\E j \in 1 .. Len(box2) : box2[j] = RawMsg(n)) \/ (\E j \in 1 .. Len(rest2) : rest2[j] = RawMsg(n))
    <3>1. CASE k = 1
      BY <1>2, <2>1, <3>1
    <3>2. CASE k # 1
      BY <1>1, <2>1, <3>2
    <3> QED BY <3>1, <3>2
  <2>2. ASSUME NEW k \in 1 .. l, rest[k] = RawMsg(n) PROVE \E j \in 1 .. Len(rest2) : rest2[j] = RawMsg(n)
    BY <1>2, <2>2
  <2> QED BY <2>1, <2>2 DEF Placed, l
<1> HIDE DEF m
<1>5. \A k \in 1 .. Len(box2) : IsRaw(box2[k]) => box2[k][2] \in r
  BY <1>1 DEF Placed
<1>6. \A k \in 1 .. Len(rest2) : IsRaw(rest2[k]) /\ rest2[k][2] \in r
  BY <1>2, <1>3 DEF Placed, l, m
<1>7. \A j, k \in 1 .. Len(box2) : IsRaw(box2[j]) /\ box2[j] = box2[k] => j = k
  <2> SUFFICES ASSUME NEW j \in 1 .. Len(box2), NEW k \in 1 .. Len(box2), IsRaw(box2[j]), box2[j] = box2[k]
               PROVE  j = k
    OBVIOUS
  <2>1. j + 1 = k + 1
    BY <1>1 DEF Placed
  <2> QED BY <2>1
<1>8. \A j, k \in 1 .. Len(rest2) : rest2[j] = rest2[k] => j = k
  BY <1>2, <1>3 DEF Placed, l
<1>9. \A j \in 1 .. Len(box2) : box2[j] # m
  <2> SUFFICES ASSUME NEW j \in 1 .. Len(box2), box2[j] = m PROVE FALSE
    OBVIOUS
  <2>1. j + 1 = 1
    BY <1>1 DEF Placed, m
  <2> QED BY <2>1
<1>10. \A j \in 1 .. Len(box2), k \in 1 .. l : box2[j] # rest[k]
  BY <1>1 DEF Placed, l
<1>11. \A j \in 1 .. Len(box2), k \in 1 .. Len(rest2) : box2[j] # rest2[k]
  BY <1>2, <1>9, <1>10
<1> QED BY <1>4, <1>5, <1>6, <1>7, <1>8, <1>11 DEF Placed

\* A message that was put aside goes back to Main's mailbox.
LEMMA PlacedBack ==
  ASSUME NEW box, NEW rest, NEW from \in Nat, NEW r, Placed(box, rest, from, r),
         Len(rest) \in Nat, from <= Len(rest),
         NEW box2, Longer(box2, box, rest[from])
  PROVE  Placed(box2, rest, from + 1, r)
<1> DEFINE l == Len(box)
           m == rest[from]
<1>1. /\ l \in Nat /\ Len(box2) = l + 1 /\ box2[l + 1] = m /\ l + 1 \in 1 .. Len(box2)
      /\ \A k \in 1 .. l : box2[k] = box[k] /\ k \in 1 .. Len(box2)
      /\ \A k \in 1 .. Len(box2) : k \in 1 .. l \/ k = l + 1
  BY DEF Longer
<1>2. /\ from \in from .. Len(rest)
      /\ \A k \in from + 1 .. Len(rest) : k \in from .. Len(rest) /\ k # from
      /\ \A k \in from .. Len(rest) : k = from \/ k \in from + 1 .. Len(rest)
  OBVIOUS
<1>3. /\ IsRaw(m) /\ m[2] \in r
      /\ \A k \in from + 1 .. Len(rest) : rest[k] # m
      /\ \A j \in 1 .. l : box[j] # m
  BY <1>2 DEF Placed
<1> HIDE DEF l
<1>4. \A n \in r :
        (\E k \in 1 .. Len(box2) : box2[k] = RawMsg(n)) \/ (\E k \in from + 1 .. Len(rest) : rest[k] = RawMsg(n))
  <2> TAKE n \in r
  <2>1. ASSUME NEW k \in 1 .. l, box[k] = RawMsg(n) PROVE \E j \in 1 .. Len(box2) : box2[j] = RawMsg(n)
    BY <1>1, <2>1
  <2>2. ASSUME NEW k \in from .. Len(rest), rest[k] = RawMsg(n)
        PROVE  (\E j \in 1 .. Len(box2) : box2[j] = RawMsg(n)) \/ (\E j \in from + 1 .. Len(rest) : rest[j] = RawMsg(n))
    <3>1. CASE k = from
      BY <1>1, <2>2, <3>1
    <3>2. CASE k # from
      BY <1>2, <2>2, <3>2
    <3> QED BY <3>1, <3>2
  <2> QED BY <2>1, <2>2 DEF Placed, l
<1> HIDE DEF m
<1>5. \A k \in 1 .. Len(box2) : IsRaw(box2[k]) => box2[k][2] \in r
  BY <1>1, <1>3 DEF Placed, l
<1>6. \A k \in from + 1 .. Len(rest) : IsRaw(rest[k]) /\ rest[k][2] \in r
  BY <1>2 DEF Placed
<1>7. \A j, k \in 1 .. Len(box2) : IsRaw(box2[j]) /\ box2[j] = box2[k] => j = k
  BY <1>1, <1>3 DEF Placed, l
<1>8. \A j, k \in from + 1 .. Len(rest) : rest[j] = rest[k] => j = k
  BY <1>2 DEF Placed
<1>9. \A j \in 1 .. Len(box2), k \in from + 1 .. Len(rest) : box2[j] # rest[k]
  BY <1>1, <1>2, <1>3 DEF Placed, l
<1> QED BY <1>4, <1>5, <1>6, <1>7, <1>8, <1>9 DEF Placed

\* All were put back.
LEMMA PlacedAll ==
  ASSUME NEW box, NEW rest, NEW from \in Nat, NEW r, Placed(box, rest, from, r),
         Len(rest) \in Nat, from > Len(rest)
  PROVE  Placed(box, <<>>, 1, r)
<1>1. \A k \in from .. Len(rest) : FALSE
  OBVIOUS
<1>2. \A k \in 1 .. Len(<<>>) : FALSE
  OBVIOUS
<1> QED BY <1>1, <1>2 DEF Placed

\* Every step keeps the messages that are not tasks.
LEMMA RawStep == IInv /\ [Next]_vars => RawInv'
<1> SUFFICES ASSUME IInv, [Next]_vars PROVE RawInv'
  OBVIOUS
<1>0. /\ TypeOK /\ OrderInv /\ RawInv /\ i \in Nat /\ i >= 1 /\ others \in Seq(Message) /\ Len(others) \in Nat
      /\ Main \in Thread /\ Main \notin Worker /\ Worker \subseteq Thread
      /\ pc \in [Thread -> {"none", "start", "loop", "task", "exited",
                            "run", "drain", "putBack", "stop", "join", "done"}]
      /\ mailbox \in [Thread -> Seq(Message)]
  BY SchedulerAssumption DEF IInv, StopInv, Thread, TypeOK
<1>1. ASSUME pc'[Main] = pc[Main], UNCHANGED <<others, i>>, Placed(mailbox[Main], others, From, raws) =>
               Placed(mailbox'[Main], others, From, raws')
      PROVE  RawInv'
  BY <1>0, <1>1 DEF RawInv, From
<1>2. ASSUME NEW u \in Thread, SubmitTask(u), made < MaxMessages, UNCHANGED <<ran, others, i, raws>>,
             pc'[Main] = pc[Main]
      PROVE  RawInv'
  <2>1. Longer(mailbox'[u], mailbox[u], TaskMsg(made + 1)) /\ \A v \in Thread : v # u => mailbox'[v] = mailbox[v]
    <3>1. UNCHANGED ran
      BY <1>2
    <3>2. TypeOK /\ OrderInv /\ SubmitTask(u) /\ made < MaxMessages
      BY <1>0, <1>2
    <3> QED BY <3>1, <3>2, SubmitOrder
  <2>2. ~IsRaw(TaskMsg(made + 1))
    BY DEF IsRaw, TaskMsg
  <2>3. Placed(mailbox[Main], others, From, raws) => Placed(mailbox'[Main], others, From, raws)
    <3>1. CASE u = Main
      BY <2>1, <2>2, <3>1, PlacedTask
    <3>2. CASE u # Main
      BY <1>0, <2>1, <3>2
    <3> QED BY <3>1, <3>2
  <2> QED BY <1>1, <1>2, <2>3
<1>3. ASSUME NEW t \in Thread, ScheduleMain(t) PROVE RawInv'
  BY <1>0, <1>2, <1>3, Targets DEF ScheduleMain
<1>4. ASSUME NEW t \in Thread, NEW c \in Category, ScheduleRunner(t, c) PROVE RawInv'
  BY <1>0, <1>2, <1>4, Targets DEF ScheduleRunner
<1>5. ASSUME NEW t \in Thread, NEW c \in Category, ScheduleNewRunner(t, c) PROVE RawInv'
  <2>1. PICK w \in Worker : w \in Thread /\ w # Main /\ SubmitTask(w) /\ StartRunner(t, c, w)
                            /\ pc' = [pc EXCEPT ![w] = "start"]
    BY <1>5, NewRunner
  <2>2. UNCHANGED <<ran, others, i, raws>> /\ made < MaxMessages /\ pc'[Main] = pc[Main]
    BY <1>0, <1>5, <2>1 DEF StartRunner, ScheduleNewRunner
  <2> QED BY <1>2, <2>1, <2>2
<1>6. CASE SendRaw
  <2>1. made + 1 \in 1 .. MaxMessages /\ made + 1 \notin raws
    BY <1>0, <1>6, SchedulerAssumption DEF SendRaw, TypeOK
  <2>2. Longer(mailbox'[Main], mailbox[Main], RawMsg(made + 1))
    BY <1>0, <1>6, <2>1, MessageIs, Delivered DEF SendRaw
  <2>3. Placed(mailbox[Main], others, From, raws) => Placed(mailbox'[Main], others, From, raws \cup {made + 1})
    BY <2>1, <2>2, PlacedNew
  <2> QED BY <1>1, <1>6, <2>3 DEF SendRaw
<1>7. ASSUME NEW w \in Worker, WorkerStep(w) PROVE RawInv'
  <2>1. pc'[Main] = pc[Main]
    BY <1>0, <1>7 DEF WorkerStep, AttachMain, RunnerReceive, Execute, TaskEnds, Go
  <2>2. mailbox'[Main] = mailbox[Main] /\ UNCHANGED <<others, i, raws>>
    BY <1>0, <1>7 DEF WorkerStep, AttachMain, RunnerReceive, TaskEnds, Take
  <2> QED BY <1>1, <2>1, <2>2
<1>8. CASE HandleMainTasks \/ TaskEnds(Main) \/ Exit
  <2>1. UNCHANGED <<mailbox, others, raws>> /\ pc[Main] # "putBack"
        /\ (pc[Main] = "run" \/ (pc[Main] = "task" /\ pc'[Main] = "drain")) /\ pc'[Main] \in {"drain", "stop"}
    BY <1>0, <1>8 DEF HandleMainTasks, TaskEnds, Exit, At, Go
  <2> QED BY <1>0, <2>1 DEF RawInv, From
<1>9. CASE DrainStep
  <2>0. pc[Main] = "drain" /\ From = 1 /\ UNCHANGED raws
    BY <1>9 DEF DrainStep, At, From
  <2>1. CASE Go(Main, "putBack") /\ i' = 1 /\ UNCHANGED <<mailbox, others>>
    <3>1. pc'[Main] = "putBack"
      BY <1>0, <2>1 DEF Go
    <3> QED BY <1>0, <2>0, <2>1, <3>1 DEF RawInv, From
  <2> DEFINE m == Head(mailbox[Main])
  <2>2. CASE mailbox[Main] # <<>> /\ Take(Main)
             /\ ((IsTask(m) /\ Execute(Main, m[2]) /\ UNCHANGED others) \/ DrainTake(m))
    <3>1. Shorter(mailbox'[Main], mailbox[Main]) /\ m = mailbox[Main][1] /\ m \in Message
      BY <1>0, <2>2, Taken
    <3>2. CASE IsTask(m) /\ Execute(Main, m[2]) /\ UNCHANGED others
      <4>1. ~IsRaw(mailbox[Main][1])
        BY <3>1, <3>2 DEF IsRaw, IsTask
      <4>2. Placed(mailbox'[Main], others, 1, raws)
        BY <1>0, <2>0, <3>1, <4>1, PlacedTaken DEF RawInv
      <4>3. pc'[Main] = "task"
        BY <1>0, <3>2 DEF Execute, Go
      <4> QED BY <1>0, <2>0, <3>2, <4>2, <4>3 DEF RawInv, From
    <3>3. CASE DrainTake(m)
      <4>1. IsRaw(m) /\ others' = Append(others, m) /\ pc' = pc
        BY <3>3 DEF DrainTake
      <4>2. Longer(others', others, m)
        BY <1>0, <3>1, <4>1, AppendEntries DEF Longer
      <4>3. Placed(mailbox'[Main], others', 1, raws)
        BY <1>0, <2>0, <3>1, <4>1, <4>2, PlacedAside DEF RawInv
      <4>4. \A k \in 1 .. Len(others') : IsRaw(others'[k])
        BY <1>0, <4>1, <4>2 DEF RawInv, Longer
      <4> QED BY <2>0, <4>1, <4>3, <4>4 DEF RawInv, From
    <3> QED BY <2>2, <3>2, <3>3
  <2> QED BY <1>9, <2>1, <2>2 DEF DrainStep
<1>10. CASE PutBack
  <2>0. pc[Main] = "putBack" /\ From = i /\ UNCHANGED raws
    BY <1>10 DEF PutBack, At, From
  <2>1. CASE i <= Len(others) /\ Deliver(Main, others[i]) /\ i' = i + 1 /\ UNCHANGED <<pc, others>>
    <3>1. i \in 1 .. Len(others) /\ others[i] \in Message
      BY <1>0, <2>1, ElementOfSeq
    <3>2. Longer(mailbox'[Main], mailbox[Main], others[i])
      BY <1>0, <2>1, <3>1, Delivered
    <3>3. Placed(mailbox'[Main], others, i + 1, raws)
      BY <1>0, <2>0, <2>1, <3>2, PlacedBack DEF RawInv
    <3> QED BY <1>0, <2>0, <2>1, <3>3 DEF RawInv, From
  <2>2. CASE i > Len(others) /\ Go(Main, "run") /\ others' = <<>> /\ i' = 1 /\ UNCHANGED mailbox
    <3>1. Placed(mailbox[Main], <<>>, 1, raws)
      BY <1>0, <2>0, <2>2, PlacedAll DEF RawInv
    <3>2. pc'[Main] = "run"
      BY <1>0, <2>2 DEF Go
    <3>3. \A k \in 1 .. Len(<<>>) : FALSE
      OBVIOUS
    <3> QED BY <2>0, <2>2, <3>1, <3>2, <3>3 DEF RawInv, From
  <2> QED BY <1>10, <2>1, <2>2 DEF PutBack
<1>11. CASE StopRunner \/ JoinRunner
  <2>1. pc[Main] \in {"stop", "join"} /\ pc'[Main] \in {"stop", "join", "done"} /\ UNCHANGED <<others, raws>>
    BY <1>0, <1>11 DEF StopRunner, JoinRunner, At, Go
  <2>2. mailbox'[Main] = mailbox[Main]
    <3>1. CASE i <= Len(allRunners[Main]) /\ Deliver(Runner(i), TaskStop)
      <4>1. allRunners[Main] \in Seq(Worker) /\ i \in 1 .. Len(allRunners[Main])
        BY <1>0, <3>1 DEF TypeOK
      <4>2. Runner(i) \in Worker
        BY <4>1, ElementOfSeq DEF Runner
      <4> QED BY <1>0, <3>1, <4>2 DEF Deliver
    <3> QED BY <1>11, <3>1 DEF StopRunner, StopMessage, JoinRunner
  <2> QED BY <1>0, <2>1, <2>2 DEF RawInv, From
<1>12. CASE UNCHANGED vars
  BY <1>1, <1>12 DEF vars
<1> QED BY <1>3, <1>4, <1>5, <1>6, <1>7, <1>8, <1>9, <1>10, <1>11, <1>12 DEF Next, StopStep, ProcessOver

-----------------------------------------------------------------------------
(* The theorems.                                                           *)

\* The invariant holds at the start.
LEMMA IInvInit == Init => IInv
<1> SUFFICES ASSUME Init PROVE IInv
  OBVIOUS
<1>0. /\ Main \in Thread /\ Main \notin Worker /\ Null \notin Worker /\ MaxMessages \in Nat /\ Null \notin Nat
      /\ Worker \subseteq Thread /\ Thread = Worker \cup {Main}
  BY SchedulerAssumption DEF Thread
<1>1. TypeOK
  BY <1>0 DEF Init, TypeOK
<1>2. PcInv /\ MainInv /\ RunnerInv /\ StopInv /\ JoinInv
  BY <1>0 DEF Init, PcInv, MainAt, WorkerAt, MainInv, RunnerInv, StopInv, StopOf, JoinInv
<1>3. OrderInv
  <2>1. <<>> \o <<>> = <<>>
    OBVIOUS
  <2> QED BY <2>1, NumbersNone DEF Init, OrderInv, Tasks
<1>4. RawInv
  BY <1>0 DEF Init, RawInv, Placed, From
<1> QED BY <1>1, <1>2, <1>3, <1>4 DEF IInv

\* Every step keeps the invariant.
LEMMA IInvStep == IInv /\ [Next]_vars => IInv'
<1> SUFFICES ASSUME IInv, [Next]_vars PROVE IInv'
  OBVIOUS
<1>1. MailType' /\ StateType' /\ OrderType'
  BY MailStep, StateStep, OrderStep
<1>2. TypeOK'
  BY <1>1 DEF TypeOK, MailType, StateType, OrderType
<1>3. PcInv' /\ MainInv' /\ RunnerInv' /\ StopInv' /\ JoinInv' /\ OrderInv' /\ RawInv'
  BY StateStep, RunnerStep, StopInvStep, JoinStep, OrderStep, RawStep
<1> QED BY <1>2, <1>3 DEF IInv

\* The invariant holds in every reachable state.
THEOREM Invariance == Spec => []IInv
BY IInvInit, IInvStep, PTL DEF Spec

\* What is held is what is in the mailbox, then what is to be put back.
LEMMA HeldEntries ==
  ASSUME IInv
  PROVE  /\ Len(Held) \in Nat /\ DOMAIN Held = 1 .. Len(Held)
         /\ \A k \in 1 .. Len(mailbox[Main]) : k \in 1 .. Len(Held) /\ Held[k] = mailbox[Main][k]
         /\ \A k \in From .. Len(others) : \E j \in 1 .. Len(Held) : Held[j] = others[k]
         /\ \A k \in 1 .. Len(Held) :
              \/ k \in 1 .. Len(mailbox[Main]) /\ Held[k] = mailbox[Main][k]
              \/ /\ k - Len(mailbox[Main]) + From - 1 \in From .. Len(others)
                 /\ Held[k] = others[k - Len(mailbox[Main]) + From - 1]
<1> DEFINE b == mailbox[Main]
           q == IF pc[Main] = "putBack" THEN SubSeq(others, i, Len(others)) ELSE others
<1>1. b \in Seq(Message) /\ others \in Seq(Message) /\ From \in Nat /\ From >= 1 /\ Len(others) \in Nat
      /\ Len(b) \in Nat /\ (pc[Main] = "putBack" => From = i) /\ (pc[Main] # "putBack" => From = 1)
  BY DEF IInv, TypeOK, StopInv, From, Thread
<1>2. /\ q \in Seq(Message) /\ Len(q) = (IF From <= Len(others) THEN Len(others) - From + 1 ELSE 0)
      /\ \A k \in 1 .. Len(q) : q[k] = others[From + k - 1]
  <2>1. CASE pc[Main] # "putBack"
    BY <1>1, <2>1
  <2>2. CASE pc[Main] = "putBack" /\ i <= Len(others)
    <3>1. i \in 1 .. Len(others) + 1 /\ Len(others) \in i - 1 .. Len(others)
      BY <1>1, <2>2
    <3> QED BY <1>1, <2>2, <3>1, SubSeqProperties
  <2>3. CASE pc[Main] = "putBack" /\ i > Len(others)
    <3>1. SubSeq(others, i, Len(others)) = <<>>
      BY <1>1, <2>3, SubSeqEmpty
    <3> QED BY <1>1, <2>3, <3>1
  <2> QED BY <1>1, <2>1, <2>2, <2>3
<1> HIDE DEF q
<1> DEFINE h == b \o q
<1>3. /\ Len(h) = Len(b) + Len(q) /\ Len(q) \in Nat
      /\ \A k \in 1 .. Len(b) : h[k] = b[k]
      /\ \A k \in 1 .. Len(h) : k > Len(b) => h[k] = q[k - Len(b)]
  <2>1. Len(q) \in Nat
    BY <1>2
  <2>2. /\ Len(h) = Len(b) + Len(q)
        /\ \A k \in 1 .. Len(b) + Len(q) : h[k] = IF k <= Len(b) THEN b[k] ELSE q[k - Len(b)]
    BY <1>1, <1>2, ConcatProperties
  <2> HIDE DEF h
  <2>3. Len(b) \in Nat
    BY <1>1
  <2> HIDE DEF b
  <2>4. \A k \in 1 .. Len(b) : h[k] = b[k]
    BY <2>1, <2>2, <2>3
  <2>5. \A k \in 1 .. Len(h) : k > Len(b) => h[k] = q[k - Len(b)]
    BY <2>1, <2>2, <2>3
  <2> QED BY <2>1, <2>2, <2>4, <2>5
<1>4. Held = h
  BY DEF Held, q
<1> HIDE DEF h
<1> HIDE DEF b
<1>5. ASSUME NEW k \in From .. Len(others) PROVE \E j \in 1 .. Len(h) : h[j] = others[k]
  <2> DEFINE j == Len(b) + (k - From + 1)
  <2>1. k - From + 1 \in 1 .. Len(q) /\ j \in 1 .. Len(h) /\ j > Len(b) /\ j - Len(b) = k - From + 1
        /\ From + (k - From + 1) - 1 = k
    <3>1. From <= Len(others) /\ Len(q) = Len(others) - From + 1
      BY <1>1, <1>2
    <3> QED BY <1>1, <1>3, <3>1
  <2> HIDE DEF j
  <2>2. h[j] = others[k]
    BY <1>2, <1>3, <2>1
  <2> QED BY <2>1, <2>2
<1>6. ASSUME NEW k \in 1 .. Len(h), k \notin 1 .. Len(b)
      PROVE  k - Len(b) + From - 1 \in From .. Len(others) /\ h[k] = others[k - Len(b) + From - 1]
  <2>1. k > Len(b) /\ k - Len(b) \in 1 .. Len(q) /\ From + (k - Len(b)) - 1 = k - Len(b) + From - 1
    BY <1>1, <1>3, <1>6
  <2>2. h[k] = others[From + (k - Len(b)) - 1]
    BY <1>2, <1>3, <2>1
  <2>3. k - Len(b) + From - 1 \in From .. Len(others)
    <3>1. From <= Len(others) /\ Len(q) = Len(others) - From + 1
      BY <1>1, <1>2, <1>3, <2>1
    <3> QED BY <1>1, <2>1, <3>1
  <2> QED BY <2>1, <2>2, <2>3
<1>7. \A k \in 1 .. Len(b) : k \in 1 .. Len(h)
  BY <1>1, <1>3
<1>8. Len(h) \in Nat /\ DOMAIN h = 1 .. Len(h)
  <2>1. h \in Seq(Message)
    BY <1>1, <1>2 DEF h, b
  <2> QED BY <2>1
<1> QED BY <1>3, <1>4, <1>5, <1>6, <1>7, <1>8 DEF b

\* The messages that are not tasks are held, each once, and nothing else is.
LEMMA RawsHeld ==
  ASSUME IInv
  PROVE  /\ {m \in ToSet(Held) : IsRaw(m)} = {RawMsg(n) : n \in raws}
         /\ \A j, k \in DOMAIN Held : IsRaw(Held[j]) /\ Held[j] = Held[k] => j = k
<1> DEFINE b == mailbox[Main]
           l == Len(b)
           at(k) == k - l + From - 1
<1>1. /\ Placed(b, others, From, raws) /\ b \in Seq(Message) /\ others \in Seq(Message) /\ l \in Nat /\ From \in Nat
      /\ From >= 1
  BY DEF IInv, RawInv, TypeOK, StopInv, From, Thread
<1>2. /\ Len(Held) \in Nat
      /\ \A k \in 1 .. l : k \in 1 .. Len(Held) /\ Held[k] = b[k]
      /\ \A k \in From .. Len(others) : \E j \in 1 .. Len(Held) : Held[j] = others[k]
      /\ \A k \in 1 .. Len(Held) : (k \in 1 .. l /\ Held[k] = b[k])
                                   \/ (at(k) \in From .. Len(others) /\ Held[k] = others[at(k)])
  BY HeldEntries
<1>3. DOMAIN Held = 1 .. Len(Held)
  BY HeldEntries
<1> HIDE DEF b
<1>4. ASSUME NEW k \in 1 .. Len(Held), IsRaw(Held[k]) PROVE \E n \in raws : Held[k] = RawMsg(n)
  <2>1. Held[k] \in Message
    <3>1. CASE k \in 1 .. l /\ Held[k] = b[k]
      BY <1>1, <3>1, ElementOfSeq
    <3>2. CASE at(k) \in From .. Len(others) /\ Held[k] = others[at(k)]
      <4>1. at(k) \in 1 .. Len(others)
        BY <1>1, <3>2
      <4> QED BY <1>1, <3>2, <4>1, ElementOfSeq
    <3> QED BY <1>2, <3>1, <3>2
  <2>2. Held[k] = RawMsg(Held[k][2])
    BY <1>4, <2>1, MessageIs
  <2>3. Held[k][2] \in raws
    BY <1>1, <1>2, <1>4 DEF Placed
  <2> QED BY <2>2, <2>3
<1>5. ASSUME NEW n \in raws PROVE \E k \in 1 .. Len(Held) : Held[k] = RawMsg(n)
  <2>1. CASE \E k \in 1 .. l : b[k] = RawMsg(n)
    BY <1>2, <2>1
  <2>2. CASE \E k \in From .. Len(others) : others[k] = RawMsg(n)
    BY <1>2, <2>2
  <2> QED BY <1>1, <2>1, <2>2 DEF Placed
<1>6. {m \in ToSet(Held) : IsRaw(m)} = {RawMsg(n) : n \in raws}
  BY <1>3, <1>4, <1>5, RawIs DEF ToSet
<1>7. ASSUME NEW j \in 1 .. Len(Held), NEW k \in 1 .. Len(Held), IsRaw(Held[j]), Held[j] = Held[k] PROVE j = k
  <2>1. CASE j \in 1 .. l /\ k \in 1 .. l /\ Held[j] = b[j] /\ Held[k] = b[k]
    BY <1>1, <1>7, <2>1 DEF Placed
  <2>2. CASE /\ at(j) \in From .. Len(others) /\ at(k) \in From .. Len(others)
             /\ Held[j] = others[at(j)] /\ Held[k] = others[at(k)]
    <3>1. at(j) = at(k)
      BY <1>1, <1>7, <2>2 DEF Placed
    <3> QED BY <1>1, <3>1
  <2>3. CASE /\ (j \in 1 .. l /\ at(k) \in From .. Len(others) /\ Held[j] = b[j] /\ Held[k] = others[at(k)])
                \/ (k \in 1 .. l /\ at(j) \in From .. Len(others) /\ Held[k] = b[k] /\ Held[j] = others[at(j)])
    BY <1>1, <1>7, <2>3 DEF Placed
  <2> QED BY <1>2, <2>1, <2>2, <2>3
<1> QED BY <1>3, <1>6, <1>7

\* TaskScheduler.aml:64,78-80: tasks are started once each, in order, on the
\* thread they were submitted to, and no drain loses or doubles a message.
THEOREM MessagesAreKept == Spec => []MessagesKept
<1>1. IInv => MessagesKept
  BY RawsHeld DEF IInv, OrderInv, MessagesKept
<1> QED BY Invariance, <1>1, PTL

\* When no task is left, what was started is all.
LEMMA NothingLeft ==
  ASSUME NEW s \in Seq(Nat), NEW e, e = <<>>
  PROVE  s \o e = s
OBVIOUS

\* TaskScheduler.aml:142-143: stopAll() returns when every runner of the main
\* thread has finished its tasks and its thread is over.
THEOREM RunnersStopAfterTasks == Spec => []StoppedAfterTasks
<1>1. ASSUME IInv, pc[Main] = "done", NEW w \in ToSet(allRunners[Main])
      PROVE  ran[w] = sent[w] /\ task[w] = Null /\ pc[w] = "exited"
  <2>1. PICK k \in 1 .. Len(allRunners[Main]) : w = allRunners[Main][k]
    BY <1>1 DEF ToSet, IInv, TypeOK, Thread
  <2>2. w \in Worker /\ w \in Thread
    BY <1>1, <2>1, ElementOfSeq DEF IInv, TypeOK, Thread
  <2>3. pc[w] = "exited"
    BY <1>1, <2>1 DEF IInv, JoinInv
  <2>4. mailbox[w] = <<>> /\ task[w] = Null
    BY <1>1, <2>2, <2>3 DEF IInv, StopInv, StopOf, TypeOK
  <2>6. ran[w] \o Tasks(w) = sent[w] /\ ran[w] \in Seq(Nat) /\ Tasks(w) = <<>>
    BY <1>1, <2>2, <2>4, NumbersNone, TasksType DEF IInv, OrderInv, Tasks
  <2> QED BY <2>3, <2>4, <2>6, NothingLeft
<1>2. IInv => StoppedAfterTasks
  BY <1>1 DEF StoppedAfterTasks
<1> QED BY Invariance, <1>2, PTL
=============================================================================
