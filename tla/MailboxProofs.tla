--------------------------- MODULE MailboxProofs ---------------------------
(***************************************************************************)
(* For any threads and messages and on both platforms: the linked list of  *)
(* a mailbox is the queue of the messages posted and not taken, and the    *)
(* mailbox implements Channel.  ListIsQueue is not inductive alone: a      *)
(* sender that appends must not hold a struct of the list already, nor one *)
(* another sender holds, which PostersOwn says.                            *)
(***************************************************************************)
EXTENDS Mailbox, SequenceTheorems, TLAPS

IInv == TypeOK /\ ListIsQueue /\ PostersOwn /\ BoundBeforeUse

USE MailboxAssumption DEF MailboxAssumption, Thread

-----------------------------------------------------------------------------
\* The invariant holds at first.
LEMMA InitIInv == Init => IInv
<1> SUFFICES ASSUME Init PROVE IInv
  OBVIOUS
<1>1. queue \in Seq(Msg) /\ Len(queue) = 0
  BY DEF Init
<1>2. pc \in [Thread -> OwnerPc \cup SenderPc] /\ pc[Owner] = "start"
      /\ \A s \in Sender : pc[s] = "idle"
  BY DEF Init, OwnerPc, SenderPc
<1>3. TypeOK
  BY <1>1, <1>2 DEF Init, TypeOK, OwnerPc, SenderPc
<1>4. ListIsQueue
  BY <1>1 DEF Init, ListIsQueue
<1>5. PostersOwn
  BY <1>2 DEF PostersOwn
<1>6. BoundBeforeUse
  BY <1>2 DEF Init, BoundBeforeUse
<1> QED BY <1>3, <1>4, <1>5, <1>6 DEF IInv

\* Every step keeps the types and the lock discipline.
LEMMA TypeStep == IInv /\ [Next]_vars => TypeOK'
<1> SUFFICES ASSUME IInv, [Next]_vars PROVE TypeOK'
  OBVIOUS
<1> USE DEF IInv, TypeOK, OwnerPc, SenderPc
<1>1. ASSUME NEW t \in Thread, Enter(t) PROVE TypeOK'
  BY <1>1 DEF Enter, listVars, amigaVars
<1>2. ASSUME NEW s \in Sender, NEW m \in Msg, Create(s, m) PROVE TypeOK'
  BY <1>2 DEF Create, amigaVars
<1>3. ASSUME NEW s \in Sender, post(s) PROVE TypeOK'
  <2>1. msg[s] \in Msg
    BY <1>3 DEF post, PostersOwn
  <2>2. CASE ~closed /\ AppendMsg(msg[s]) /\ pc' = Woken(s)
    <3>1. queue' \in Seq(Msg)
      BY <2>1, <2>2 DEF AppendMsg
    <3>2. head' \in Msg \cup {Null} /\ tail' \in Msg \cup {Null} /\ next' \in [Msg -> Msg \cup {Null}]
      BY <2>1, <2>2 DEF AppendMsg
    <3>3. /\ pc' \in [Thread -> OwnerPc \cup SenderPc]
          /\ pc'[Owner] \in OwnerPc /\ \A u \in Sender : pc'[u] \in SenderPc
      BY <2>2 DEF Woken
    <3> QED BY <1>3, <3>1, <3>2, <3>3 DEF post, Leave, amigaVars
  <2>3. CASE closed /\ UNCHANGED listVars /\ pc' = [pc EXCEPT ![s] = "idle"]
    BY <1>3, <2>3 DEF post, Leave, amigaVars, listVars
  <2> QED BY <1>3, <2>2, <2>3 DEF post
<1>4. ASSUME NEW s \in Sender, Signal(s) PROVE TypeOK'
  BY <1>4 DEF Signal, listVars
<1>5. ASSUME take PROVE TypeOK'
  <2>1. CASE head # Null /\ Pop /\ Return /\ Leave
    <3>1. queue # <<>>
      BY <2>1 DEF ListIsQueue
    <3>2. queue' \in Seq(Msg)
      BY <2>1, <3>1 DEF Pop
    <3> QED BY <1>5, <2>1, <3>2 DEF take, Pop, Return, Leave, amigaVars
  <2>2. CASE head = Null /\ ~MustSleep /\ UNCHANGED listVars /\ Return /\ Leave
    BY <1>5, <2>2 DEF take, Return, Leave, listVars, amigaVars
  <2>3. CASE MustSleep /\ SleepInside /\ UNCHANGED <<listVars, last>>
    BY <1>5, <2>3 DEF take, SleepInside, Leave, listVars, amigaVars
  <2> QED BY <1>5, <2>1, <2>2, <2>3 DEF take
<1>6. ASSUME WaitReturns \/ SpuriousWakeup PROVE TypeOK'
  BY <1>6 DEF WaitReturns, SpuriousWakeup, listVars, amigaVars
<1>7. ASSUME close PROVE TypeOK'
  BY <1>7 DEF close, Return, Leave, listVars, amigaVars
<1>8. ASSUME bind PROVE TypeOK'
  BY <1>8 DEF bind, listVars
<1>9. ASSUME NEW op \in {"take", "close"}, NEW w \in BOOLEAN, Call(op, w) PROVE TypeOK'
  BY <1>9 DEF Call, listVars, amigaVars
<1>10. CASE UNCHANGED vars
  BY <1>10 DEF vars, listVars, amigaVars
<1> QED BY <1>1, <1>2, <1>3, <1>4, <1>5, <1>6, <1>7, <1>8, <1>9, <1>10 DEF Next, SenderStep, OwnerStep

\* Facts on the entries of a sequence that grew or shrank at one end.
LEMMA AppendEntries ==
  ASSUME NEW q \in Seq(Msg), NEW m \in Msg
  PROVE  /\ Append(q, m) \in Seq(Msg)
         /\ Len(Append(q, m)) = Len(q) + 1
         /\ \A i \in 1 .. Len(q) : Append(q, m)[i] = q[i]
         /\ Append(q, m)[Len(q) + 1] = m
  OBVIOUS

\* The queue without its first message.
LEMMA TailEntries ==
  ASSUME NEW q \in Seq(Msg), q # <<>>
  PROVE  /\ Tail(q) \in Seq(Msg)
         /\ Len(q) \in Nat \ {0}
         /\ Len(Tail(q)) = Len(q) - 1
         /\ \A i \in 1 .. Len(q) - 1 : Tail(q)[i] = q[i + 1]
  OBVIOUS

\* Every step keeps the list and the queue in agreement.
LEMMA ListStep == IInv /\ [Next]_vars => ListIsQueue'
<1> SUFFICES ASSUME IInv, [Next]_vars PROVE ListIsQueue'
  OBVIOUS
<1>q. queue \in Seq(Msg) /\ Len(queue) \in Nat /\ (queue = <<>> <=> Len(queue) = 0)
  BY DEF IInv, TypeOK
<1>m. \A i \in 1 .. Len(queue) : queue[i] \in Msg /\ queue[i] \in Queued
  BY <1>q DEF Queued
<1>1. ASSUME NEW s \in Sender, NEW m \in Msg, Create(s, m) PROVE ListIsQueue'
  <2>1. \A i \in 1 .. Len(queue) : queue[i] # m /\ next'[queue[i]] = next[queue[i]]
    BY <1>1, <1>m DEF Create, IInv, TypeOK
  <2>2. queue' = queue /\ head' = head /\ tail' = tail
    BY <1>1 DEF Create
  <2> QED BY <2>1, <2>2 DEF ListIsQueue, IInv
<1>2. ASSUME NEW s \in Sender, post(s) PROVE ListIsQueue'
  <2> DEFINE m == msg[s]
  <2>1. /\ m \in Msg /\ m \notin Queued /\ next[m] = Null
        /\ \A i \in 1 .. Len(queue) : queue[i] # m
    BY <1>2, <1>m DEF post, PostersOwn, IInv, TypeOK
  <2>2. CASE ~closed /\ AppendMsg(m) /\ pc' = Woken(s)
    <3>1. /\ queue' \in Seq(Msg) /\ Len(queue') = Len(queue) + 1 /\ queue' # <<>>
          /\ \A i \in 1 .. Len(queue) : queue'[i] = queue[i]
          /\ queue'[Len(queue) + 1] = m
      BY <1>q, <2>1, <2>2, AppendEntries DEF AppendMsg
    <3>2. CASE queue = <<>>
      BY <1>q, <2>1, <2>2, <3>1, <3>2 DEF AppendMsg, ListIsQueue, IInv
    <3>3. CASE queue # <<>>
      <4>1. tail = queue[Len(queue)] /\ tail \in Msg /\ tail # Null /\ head = queue[1]
            /\ Len(queue) \in Nat \ {0}
        BY <1>q, <1>m, <3>3 DEF ListIsQueue, IInv
      <4>2. head' = head /\ tail' = m /\ next' = [next EXCEPT ![tail] = m]
        BY <2>2, <4>1 DEF AppendMsg
      <4>3. head' = queue'[1] /\ tail' = queue'[Len(queue')]
        BY <1>q, <3>1, <4>1, <4>2
      <4>4. ASSUME NEW i \in 1 .. Len(queue')
            PROVE  next'[queue'[i]] = IF i = Len(queue') THEN Null ELSE queue'[i + 1]
        <5>1. CASE i = Len(queue) + 1
          BY <1>q, <2>1, <3>1, <4>1, <4>2, <5>1 DEF IInv, TypeOK
        <5>2. CASE i = Len(queue)
          BY <1>q, <3>1, <4>1, <4>2, <5>2 DEF IInv, TypeOK
        <5>3. CASE i \in 1 .. Len(queue) - 1
          <6>1. queue[i] # tail /\ queue[i] \in Msg
            BY <1>q, <1>m, <4>1, <5>3 DEF ListIsQueue, IInv
          <6>2. next[queue[i]] = queue[i + 1]
            BY <1>q, <5>3 DEF ListIsQueue, IInv
          <6> QED BY <1>q, <3>1, <4>2, <5>3, <6>1, <6>2 DEF IInv, TypeOK
        <5> QED BY <1>q, <3>1, <5>1, <5>2, <5>3
      <4>5. \A i, j \in 1 .. Len(queue') : queue'[i] = queue'[j] => i = j
        BY <1>q, <2>1, <3>1 DEF ListIsQueue, IInv
      <4> QED BY <3>1, <4>3, <4>4, <4>5 DEF ListIsQueue
    <3> QED BY <3>2, <3>3
  <2>3. CASE closed /\ UNCHANGED listVars
    BY <2>3 DEF listVars, ListIsQueue, IInv
  <2> QED BY <1>2, <2>2, <2>3 DEF post
<1>3. ASSUME head # Null, Pop PROVE ListIsQueue'
  <2>1. queue # <<>> /\ head = queue[1] /\ tail = queue[Len(queue)] /\ Len(queue) \in Nat \ {0}
    BY <1>3, <1>q DEF ListIsQueue, IInv
  <2>2. /\ queue' \in Seq(Msg) /\ Len(queue') = Len(queue) - 1
        /\ \A i \in 1 .. Len(queue) - 1 : queue'[i] = queue[i + 1]
    BY <1>3, <1>q, <2>1, TailEntries DEF Pop
  <2>e. queue' = <<>> <=> Len(queue) = 1
    BY <1>q, <2>1, <2>2
  <2>3. next[head] = IF Len(queue) = 1 THEN Null ELSE queue[2]
    <3>1. 1 \in 1 .. Len(queue)
      BY <1>q, <2>1
    <3>2. next[queue[1]] = IF 1 = Len(queue) THEN Null ELSE queue[1 + 1]
      BY <3>1 DEF ListIsQueue, IInv
    <3> QED BY <2>1, <3>2
  <2>4. IF queue' = <<>> THEN head' = Null /\ tail' = Null
        ELSE head' = queue'[1] /\ tail' = queue'[Len(queue')]
    <3>1. CASE Len(queue) = 1
      BY <1>3, <2>e, <2>3, <3>1 DEF Pop
    <3>2. CASE Len(queue) # 1
      <4>1. queue[2] # Null
        <5>1. 2 \in 1 .. Len(queue)
          BY <2>1, <3>2
        <5> QED BY <1>m, <5>1
      <4>2. head' = queue[2] /\ tail' = tail
        BY <1>3, <2>3, <3>2, <4>1 DEF Pop
      <4>3. queue'[1] = queue[2] /\ queue'[Len(queue')] = queue[Len(queue)]
        <5>1. 1 \in 1 .. Len(queue) - 1 /\ Len(queue) - 1 \in 1 .. Len(queue) - 1
          BY <1>q, <2>1, <3>2
        <5>2. queue'[1] = queue[1 + 1] /\ queue'[Len(queue) - 1] = queue[(Len(queue) - 1) + 1]
          BY <2>2, <5>1
        <5> QED BY <1>q, <2>2, <5>2
      <4>4. queue' # <<>>
        BY <2>e, <3>2
      <4> QED BY <2>1, <4>2, <4>3, <4>4
    <3> QED BY <3>1, <3>2
  <2>5. ASSUME NEW i \in 1 .. Len(queue')
        PROVE  next'[queue'[i]] = IF i = Len(queue') THEN Null ELSE queue'[i + 1]
    <3>1. i \in 1 .. Len(queue) - 1 /\ i + 1 \in 1 .. Len(queue) /\ queue'[i] = queue[i + 1]
      BY <1>q, <2>2
    <3>2. queue[i + 1] # head /\ queue[i + 1] \in Msg
      BY <1>q, <1>m, <2>1, <3>1 DEF ListIsQueue, IInv
    <3>3. next'[queue[i + 1]] = next[queue[i + 1]]
      BY <1>3, <3>2 DEF Pop, IInv, TypeOK
    <3>4. next[queue[i + 1]] = IF i + 1 = Len(queue) THEN Null ELSE queue[i + 2]
      BY <1>q, <3>1 DEF ListIsQueue, IInv
    <3>5. i # Len(queue') => i + 1 \in 1 .. Len(queue) - 1 /\ queue'[i + 1] = queue[i + 2]
      BY <1>q, <2>2, <3>1
    <3> QED BY <1>q, <2>2, <3>1, <3>3, <3>4, <3>5
  <2>6. \A i, j \in 1 .. Len(queue') : queue'[i] = queue'[j] => i = j
    BY <1>q, <2>2 DEF ListIsQueue, IInv
  <2> QED BY <2>4, <2>5, <2>6 DEF ListIsQueue
<1>4. CASE UNCHANGED listVars
  BY <1>4 DEF listVars, ListIsQueue, IInv
<1>5. ASSUME take PROVE ListIsQueue'
  BY <1>3, <1>4, <1>5 DEF take, listVars
<1>6. ASSUME \/ \E t \in Thread : Enter(t)
             \/ \E s \in Sender : Signal(s)
             \/ WaitReturns \/ SpuriousWakeup \/ close \/ bind \/ UNCHANGED vars
             \/ \E op \in {"take", "close"}, w \in BOOLEAN : Call(op, w)
      PROVE  ListIsQueue'
  BY <1>4, <1>6 DEF Enter, Signal, WaitReturns, SpuriousWakeup, close, bind, Call, vars
<1> QED BY <1>1, <1>2, <1>5, <1>6 DEF Next, SenderStep, OwnerStep

\* Every step leaves the senders the only holders of what they will append.
LEMMA PostersStep == IInv /\ [Next]_vars => PostersOwn'
<1> SUFFICES ASSUME IInv, [Next]_vars PROVE PostersOwn'
  OBVIOUS
<1> USE DEF IInv, TypeOK
<1>q. queue \in Seq(Msg) /\ Len(queue) \in Nat
  OBVIOUS
<1>1. ASSUME NEW s \in Sender, NEW m \in Msg, Create(s, m) PROVE PostersOwn'
  <2>1. m # Null /\ m \notin Queued /\ \A u \in Sender : msg[u] # m
    BY <1>1 DEF Create, Held
  <2>2. /\ msg' = [msg EXCEPT ![s] = m] /\ next' = [next EXCEPT ![m] = Null]
        /\ pc' = [pc EXCEPT ![s] = "post"] /\ Queued' = Queued
    BY <1>1 DEF Create, Queued
  <2> QED BY <2>1, <2>2 DEF PostersOwn
<1>2. ASSUME NEW s \in Sender, post(s) PROVE PostersOwn'
  <2>1. msg[s] \in Msg /\ \A u \in Sender \ {s} : msg[u] # msg[s]
    BY <1>2 DEF post, PostersOwn
  <2>2. msg' = [msg EXCEPT ![s] = Null]
    BY <1>2 DEF post
  <2>3. CASE ~closed /\ AppendMsg(msg[s]) /\ pc' = Woken(s)
    <3>1. \A u \in Sender : pc'[u] = "post" => u # s /\ pc[u] = "post"
      BY <2>3, <1>2 DEF Woken, OwnerPc, SenderPc
    <3>2. Queued' = Queued \cup {msg[s]}
      BY <1>q, <2>1, <2>3, AppendEntries DEF Queued, AppendMsg
    <3>3. \A u \in Sender : pc[u] = "post" => next'[msg[u]] = Null \/ msg[u] = tail
      BY <2>1, <2>3 DEF AppendMsg, PostersOwn
    <3>4. tail = Null \/ tail \in Queued
      BY <1>q DEF ListIsQueue, Queued
    <3> QED BY <2>1, <2>2, <3>1, <3>2, <3>3, <3>4 DEF PostersOwn
  <2>4. CASE closed /\ UNCHANGED listVars /\ pc' = [pc EXCEPT ![s] = "idle"]
    BY <2>1, <2>2, <2>4 DEF PostersOwn, listVars, Queued
  <2> QED BY <1>2, <2>3, <2>4 DEF post
<1>3. ASSUME take PROVE PostersOwn'
  <2>1. msg' = msg /\ \A u \in Sender : pc'[u] = pc[u]
    BY <1>3 DEF take, Return, SleepInside
  <2>2. CASE head # Null /\ Pop
    <3>1. queue # <<>> /\ head \in Msg /\ head \in Queued
      BY <2>2, <1>q DEF ListIsQueue, Queued
    <3>2. Queued' \subseteq Queued
      <4>1. /\ Len(queue') = Len(queue) - 1 /\ Len(queue) \in Nat \ {0}
            /\ \A i \in 1 .. Len(queue) - 1 : queue'[i] = queue[i + 1]
        BY <2>2, <3>1, TailEntries DEF Pop
      <4>2. \A i \in 1 .. Len(queue') : i + 1 \in 1 .. Len(queue) /\ queue'[i] = queue[i + 1]
        BY <4>1
      <4> QED BY <4>2 DEF Queued
    <3> QED BY <2>1, <2>2, <3>1, <3>2 DEF PostersOwn, Pop
  <2>3. CASE UNCHANGED listVars
    BY <2>1, <2>3 DEF PostersOwn, listVars, Queued
  <2> QED BY <1>3, <2>2, <2>3 DEF take, listVars
<1>4. ASSUME msg' = msg, UNCHANGED listVars, \A u \in Sender : pc'[u] = "post" => pc[u] = "post"
      PROVE  PostersOwn'
  BY <1>4 DEF PostersOwn, listVars, Queued
<1>5. ASSUME \E t \in Thread : Enter(t) PROVE PostersOwn'
  BY <1>4, <1>5 DEF Enter
<1>6. ASSUME \E s \in Sender : Signal(s) PROVE PostersOwn'
  BY <1>4, <1>6 DEF Signal
<1>7. ASSUME WaitReturns \/ SpuriousWakeup \/ close \/ bind PROVE PostersOwn'
  BY <1>4, <1>7 DEF WaitReturns, SpuriousWakeup, close, bind, Return
<1>8. ASSUME NEW op \in {"take", "close"}, NEW w \in BOOLEAN, Call(op, w) PROVE PostersOwn'
  BY <1>4, <1>8 DEF Call
<1>9. CASE UNCHANGED vars
  BY <1>4, <1>9 DEF vars
<1> QED BY <1>1, <1>2, <1>3, <1>5, <1>6, <1>7, <1>8, <1>9 DEF Next, SenderStep, OwnerStep

\* The owner binds its mailbox before anything else, and once.
LEMMA BoundStep == IInv /\ [Next]_vars => BoundBeforeUse'
<1> SUFFICES ASSUME IInv, [Next]_vars PROVE BoundBeforeUse'
  OBVIOUS
<1> USE DEF IInv, TypeOK, BoundBeforeUse
<1>1. CASE bind
  BY <1>1 DEF bind
<1>2. ASSUME bound' = bound, noSignal' = noSignal, pc'[Owner] = "start" <=> pc[Owner] = "start"
      PROVE  BoundBeforeUse'
  BY <1>2
<1>3. ASSUME NEW s \in Sender, SenderStep(s) \/ \E m \in Msg : Create(s, m) PROVE BoundBeforeUse'
  BY <1>2, <1>3 DEF SenderStep, Enter, post, Woken, Signal, Create, amigaVars
<1>4. CASE Enter(Owner) \/ OwnerStep \/ SpuriousWakeup
  BY <1>2, <1>4 DEF Enter, OwnerStep, take, Return, SleepInside, WaitReturns, close,
                    SpuriousWakeup, amigaVars
<1>5. ASSUME NEW op \in {"take", "close"}, NEW w \in BOOLEAN, Call(op, w) PROVE BoundBeforeUse'
  BY <1>2, <1>5 DEF Call, amigaVars
<1>6. CASE UNCHANGED vars
  BY <1>2, <1>6 DEF vars, amigaVars
<1> QED BY <1>1, <1>3, <1>4, <1>5, <1>6 DEF Next

-----------------------------------------------------------------------------
(* The list, the queue and what the senders hold agree in every reachable   *)
(* state (core.c: __amlc_mailbox_post, __amlc_mailbox_take).                *)
THEOREM Invariance == Spec => []IInv
<1>1. IInv /\ [Next]_vars => IInv'
  BY TypeStep, ListStep, PostersStep, BoundStep DEF IInv
<1> QED BY InitIInv, <1>1, PTL DEF Spec

(* Every variable keeps its type, and only a thread inside one of the       *)
(* mailbox's critical sections holds its mutex.                             *)
THEOREM TypeCorrect == Spec => []TypeOK
<1>1. IInv => TypeOK
  BY DEF IInv
<1> QED BY Invariance, <1>1, PTL

(* The linked list is always the queue, whoever appends while the owner     *)
(* pops, and no struct enters it twice.                                     *)
THEOREM MailboxIsSound == Spec => []MailboxSound
<1>1. IInv => MailboxSound
  BY DEF IInv, MailboxSound
<1> QED BY Invariance, <1>1, PTL

-----------------------------------------------------------------------------
\* Every step of the mailbox is a step of the channel or leaves it alone.
LEMMA StepRefines == IInv /\ [Next]_vars => [Chan!Next]_Chan!vars
<1> SUFFICES ASSUME IInv, [Next]_vars PROVE [Chan!Next]_Chan!vars
  OBVIOUS
<1> USE DEF Chan!vars
<1>1. ASSUME NEW s \in Sender, post(s) PROVE Chan!Next
  <2>1. msg[s] \in Msg
    BY <1>1 DEF post, IInv, TypeOK, PostersOwn
  <2>2. Chan!Post(msg[s])
    BY <1>1 DEF post, AppendMsg, listVars, amigaVars, Chan!Post
  <2> QED BY <2>1, <2>2 DEF Chan!Next
<1>2. ASSUME take PROVE [Chan!Next]_Chan!vars
  <2>1. wait \in BOOLEAN
    BY DEF IInv, TypeOK
  <2>2. CASE head # Null /\ Pop /\ last' = <<"take", wait, head>>
    <3>1. queue # <<>> /\ head = Head(queue)
      BY <2>2 DEF IInv, TypeOK, ListIsQueue
    <3>2. Chan!Take(wait)
      BY <1>2, <2>2, <3>1 DEF take, Pop, amigaVars, Chan!Take
    <3> QED BY <2>1, <3>2 DEF Chan!Next
  <2>3. CASE head = Null /\ ~MustSleep /\ UNCHANGED listVars /\ last' = <<"take", wait, Null>>
    <3>1. queue = <<>>
      <4>1. queue # <<>> => 1 \in 1 .. Len(queue) /\ queue[1] \in Msg
        BY DEF IInv, TypeOK
      <4> QED BY <2>3, <4>1 DEF IInv, ListIsQueue
    <3>2. wait => closed \/ noSignal
      <4>1. bound
        BY <1>2 DEF take, IInv, BoundBeforeUse
      <4> QED BY <2>3, <4>1 DEF MustSleep, CanSignal
    <3>3. Chan!TakeNothing(wait)
      BY <1>2, <2>3, <3>1, <3>2 DEF take, listVars, amigaVars, Chan!TakeNothing
    <3> QED BY <2>1, <3>3 DEF Chan!Next
  <2>4. CASE MustSleep /\ SleepInside /\ UNCHANGED <<listVars, last>>
    BY <1>2, <2>4 DEF take, listVars, amigaVars
  <2> QED BY <1>2, <2>2, <2>3, <2>4 DEF take
<1>3. ASSUME close PROVE Chan!Close
  BY <1>3 DEF close, listVars, amigaVars, Chan!Close
<1>4. ASSUME bind PROVE [Chan!Next]_Chan!vars
  BY <1>4 DEF bind, listVars, IInv, TypeOK, BoundBeforeUse, Chan!Next, Chan!Deafen
<1>5. ASSUME \/ \E t \in Thread : Enter(t)
             \/ \E s \in Sender : Signal(s) \/ \E m \in Msg : Create(s, m)
             \/ WaitReturns \/ SpuriousWakeup \/ UNCHANGED vars
             \/ \E op \in {"take", "close"}, w \in BOOLEAN : Call(op, w)
      PROVE  UNCHANGED Chan!vars
  BY <1>5 DEF Enter, Signal, Create, WaitReturns, SpuriousWakeup, Call, vars, listVars, amigaVars
<1> QED BY <1>1, <1>2, <1>3, <1>4, <1>5 DEF Next, SenderStep, OwnerStep, Chan!Next

(* The mailbox of core.c, on either platform, implements the channel.       *)
THEOREM MailboxIsChannel == Spec => ImplementsChannel
<1>1. Init => Chan!Init
  BY DEF Init, Chan!Init
<1>2. IInv /\ [Next]_vars => [Chan!Next]_Chan!vars
  BY StepRefines
<1> QED BY Invariance, <1>1, <1>2, PTL DEF Spec, Chan!Spec, ImplementsChannel
=============================================================================
