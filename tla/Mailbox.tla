------------------------------ MODULE Mailbox ------------------------------
(***************************************************************************)
(* The mailbox of an isolate (core.c): a linked list of messages any       *)
(* thread appends to and the owner's thread empties.  On POSIX a mutex     *)
(* guards it and the owner sleeps on a condition variable.  On the Amiga   *)
(* family the list is edited under Forbid, a step no other task can        *)
(* interrupt, and the owner sleeps in Wait on a signal bit; the sender     *)
(* raises that bit after Permit, when the owner may have moved on.         *)
(***************************************************************************)
EXTENDS Integers, Sequences, FiniteSets

CONSTANTS
  Msg,      \* message structs; one returns to the allocator when opened
  Sender,   \* the threads that post
  Owner,    \* the thread that binds, takes and closes
  Null

ASSUME MailboxAssumption ==
  /\ Null \notin Msg \cup Sender \cup {Owner}
  /\ Owner \notin Sender

Thread == Sender \cup {Owner}

VARIABLES
  platform,                \* the #ifdef the library was built with
  head, tail, next,        \* amailbox, amessage.next
  closed,
  lock,                    \* POSIX: who holds the mutex
  bound, noSignal,         \* Amiga: the owner is known; AllocSignal failed
  signalled,               \* Amiga: the owner's signal bit, which stays up
  pc, msg, wait,           \* where each thread is, the sender's message, take's argument
  queue,                   \* the messages in the list, in order of their posting
  last                     \* the last call that took effect

listVars  == <<head, tail, next, queue>>
amigaVars == <<bound, noSignal, signalled>>
vars == <<platform, listVars, closed, lock, amigaVars, pc, msg, wait, last>>

Init ==
  /\ platform \in {"posix", "amiga"}
  /\ head = Null /\ tail = Null
  /\ next = [m \in Msg |-> Null]
  /\ closed = FALSE
  /\ lock = Null
  /\ bound = FALSE /\ noSignal = FALSE /\ signalled = FALSE
  /\ pc = [t \in Thread |-> IF t = Owner THEN "start" ELSE "idle"]
  /\ msg = [s \in Sender |-> Null]
  /\ wait = FALSE
  /\ queue = <<>>
  /\ last = <<"none">>

Queued == {queue[i] : i \in 1 .. Len(queue)}
Held   == {msg[s] : s \in Sender} \ {Null}

\* owner != NULL && sigmask != 0: both are written by bind and by close.
CanSignal == bound /\ ~closed /\ ~noSignal

-----------------------------------------------------------------------------
(* Locking.                                                                *)

\* pthread_mutex_lock, and the return of pthread_cond_wait.
Enter(t) ==
  /\ platform = "posix"
  /\ pc[t] \in {"post", "take", "woken", "close"}
  /\ lock = Null
  /\ lock' = t
  /\ UNCHANGED <<platform, listVars, closed, amigaVars, pc, msg, wait, last>>

Inside(t) == platform = "amiga" \/ lock = t
Leave     == lock' = Null

-----------------------------------------------------------------------------
(* The senders.                                                            *)

\* A fresh struct: __amlc_message_create, and msg->next = NULL.
Create(s, m) ==
  /\ pc[s] = "idle"
  /\ m \notin Queued \cup Held
  /\ msg' = [msg EXCEPT ![s] = m]
  /\ next' = [next EXCEPT ![m] = Null]
  /\ pc' = [pc EXCEPT ![s] = "post"]
  /\ UNCHANGED <<platform, head, tail, queue, closed, lock, amigaVars, wait, last>>

AppendMsg(m) ==
  /\ head' = IF tail = Null THEN m ELSE head
  /\ next' = IF tail = Null THEN next ELSE [next EXCEPT ![tail] = m]
  /\ tail' = m
  /\ queue' = Append(queue, m)

\* Mutant of Woken: nobody is woken.
WokenNever(s) == [pc EXCEPT ![s] = "idle"]

\* The program counters after a post: cond_signal wakes the owner at once, the
\* Amiga sender has still to raise the signal it read under Forbid.
Woken(s) ==
  IF platform = "posix"
  THEN [pc EXCEPT ![s] = "idle", ![Owner] = IF @ = "asleep" THEN "woken" ELSE @]
  ELSE [pc EXCEPT ![s] = IF CanSignal THEN "signal" ELSE "idle"]

post(s) ==
  /\ pc[s] = "post" /\ Inside(s) /\ Leave
  /\ \/ ~closed /\ AppendMsg(msg[s]) /\ pc' = Woken(s)
     \/ closed /\ UNCHANGED listVars /\ pc' = [pc EXCEPT ![s] = "idle"]
  /\ last' = <<"post", msg[s], ~closed>>
  /\ msg' = [msg EXCEPT ![s] = Null]
  /\ UNCHANGED <<platform, closed, amigaVars, wait>>

Signal(s) ==
  /\ pc[s] = "signal"
  /\ signalled' = TRUE
  /\ pc' = [pc EXCEPT ![s] = "idle"]
  /\ UNCHANGED <<platform, listVars, closed, lock, bound, noSignal, msg, wait, last>>

-----------------------------------------------------------------------------
(* The owner.                                                              *)

bind ==
  /\ pc[Owner] = "start"
  /\ pc' = [pc EXCEPT ![Owner] = "idle"]
  /\ bound' = TRUE
  /\ noSignal' \in IF platform = "amiga" THEN BOOLEAN ELSE {FALSE}
  /\ UNCHANGED <<platform, listVars, closed, lock, signalled, msg, wait, last>>

Call(op, w) ==
  /\ pc[Owner] = "idle"
  /\ op = "close" => ~closed /\ ~w
  /\ pc' = [pc EXCEPT ![Owner] = op]
  /\ wait' = w
  /\ UNCHANGED <<platform, listVars, closed, lock, amigaVars, msg, last>>

\* Mutant of Pop: the tail is left at the message that was taken.
PopKeepsTail ==
  /\ head' = next[head]
  /\ next' = [next EXCEPT ![head] = Null]
  /\ queue' = Tail(queue)
  /\ UNCHANGED tail

\* __amlc_mailbox_pop_locked on a list that is not empty.
Pop ==
  /\ head' = next[head]
  /\ tail' = IF next[head] = Null THEN Null ELSE tail
  /\ next' = [next EXCEPT ![head] = Null]
  /\ queue' = Tail(queue)

\* Mutant of MustSleep: an owner that was woken does not look again.
MustSleepOnce == head = Null /\ wait /\ ~closed /\ pc[Owner] = "take"

MustSleep ==
  head = Null /\ wait /\ ~closed /\ (platform = "amiga" => CanSignal)

Return == pc' = [pc EXCEPT ![Owner] = "idle"]

\* cond_wait gives up the mutex; on the Amiga, Permit and then Wait.
SleepInside == pc' = [pc EXCEPT ![Owner] = "asleep"] /\ Leave

take ==
  /\ pc[Owner] \in {"take", "woken"} /\ Inside(Owner)
  /\ \/ head # Null /\ Pop /\ Return /\ Leave /\ last' = <<"take", wait, head>>
     \/ /\ head = Null /\ ~MustSleep
        /\ UNCHANGED listVars /\ Return /\ Leave /\ last' = <<"take", wait, Null>>
     \/ MustSleep /\ SleepInside /\ UNCHANGED <<listVars, last>>
  /\ UNCHANGED <<platform, closed, amigaVars, msg, wait>>

\* Wait returns once the signal is up and takes it down.
WaitReturns ==
  /\ platform = "amiga" /\ pc[Owner] = "asleep" /\ signalled
  /\ signalled' = FALSE
  /\ pc' = [pc EXCEPT ![Owner] = "woken"]
  /\ UNCHANGED <<platform, listVars, closed, lock, bound, noSignal, msg, wait, last>>

\* A condition variable may wake its waiter for no reason.
SpuriousWakeup ==
  /\ platform = "posix" /\ pc[Owner] = "asleep"
  /\ pc' = [pc EXCEPT ![Owner] = "woken"]
  /\ UNCHANGED <<platform, listVars, closed, lock, amigaVars, msg, wait, last>>

close ==
  /\ pc[Owner] = "close" /\ Inside(Owner) /\ Leave
  /\ closed' = TRUE
  /\ Return
  /\ UNCHANGED <<platform, listVars, amigaVars, msg, wait, last>>

-----------------------------------------------------------------------------
SenderStep(s) == Enter(s) \/ post(s) \/ Signal(s)
OwnerStep     == take \/ WaitReturns \/ close

Next ==
  \/ \E s \in Sender : SenderStep(s) \/ \E m \in Msg : Create(s, m)
  \/ Enter(Owner) \/ OwnerStep \/ bind \/ SpuriousWakeup
  \/ \E w \in BOOLEAN : Call("take", w) \/ Call("close", w)

Spec == Init /\ [][Next]_vars

\* A call once begun goes on; a mutex that is given up again and again is got.
FairSpec ==
  /\ Spec
  /\ \A s \in Sender : WF_vars(post(s) \/ Signal(s)) /\ SF_vars(Enter(s))
  /\ WF_vars(OwnerStep) /\ SF_vars(Enter(Owner))

-----------------------------------------------------------------------------
OwnerPc  == {"start", "idle", "take", "asleep", "woken", "close"}
SenderPc == {"idle", "post", "signal"}

\* Nobody sleeps, signals or returns with the mutex held.
TypeOK ==
  /\ platform \in {"posix", "amiga"}
  /\ head \in Msg \cup {Null} /\ tail \in Msg \cup {Null}
  /\ next \in [Msg -> Msg \cup {Null}]
  /\ queue \in Seq(Msg)
  /\ closed \in BOOLEAN /\ wait \in BOOLEAN
  /\ bound \in BOOLEAN /\ noSignal \in BOOLEAN /\ signalled \in BOOLEAN
  /\ lock \in Thread \cup {Null}
  /\ pc \in [Thread -> OwnerPc \cup SenderPc]
  /\ pc[Owner] \in OwnerPc /\ \A s \in Sender : pc[s] \in SenderPc
  /\ msg \in [Sender -> Msg \cup {Null}]
  /\ lock # Null => platform = "posix" /\ pc[lock] \in {"post", "take", "woken", "close"}

(* The list is the queue: head and tail are its ends, next leads from each  *)
(* message to the one posted after it, no struct is in it twice, and none   *)
(* a sender still holds is.                                                 *)
ListIsQueue ==
  /\ IF queue = <<>> THEN head = Null /\ tail = Null
     ELSE head = queue[1] /\ tail = queue[Len(queue)]
  /\ \A i \in 1 .. Len(queue) :
       next[queue[i]] = IF i = Len(queue) THEN Null ELSE queue[i + 1]
  /\ \A i, j \in 1 .. Len(queue) : queue[i] = queue[j] => i = j

PostersOwn ==
  \A s \in Sender :
    pc[s] = "post" =>
      /\ msg[s] # Null /\ msg[s] \notin Queued /\ next[msg[s]] = Null
      /\ \A u \in Sender : u # s => msg[u] # msg[s]

BoundBeforeUse == IF pc[Owner] = "start" THEN ~bound /\ ~noSignal ELSE bound

MailboxSound == ListIsQueue /\ PostersOwn /\ BoundBeforeUse

(* The mailbox is a channel: oldest first, once each, refused when closed,  *)
(* and a waiting take comes back empty only from a closed or a deaf one.    *)
Chan == INSTANCE Channel WITH deaf <- noSignal
ImplementsChannel == Chan!Spec

(* core.c:1926-1929: no post is lost on a sleeping owner, whether it lands  *)
(* before the owner's empty-check, between it and the sleep, or after.      *)
Delivered ==
  (pc[Owner] \in {"take", "asleep", "woken"} /\ queue # <<>>) ~> (pc[Owner] = "idle")
=============================================================================
