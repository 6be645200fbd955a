----------------------------- MODULE IsolateInv -----------------------------
(***************************************************************************)
(* The inductive invariants: IInv behind CountExact and NoUseAfterFree,    *)
(* ExitInv, on top of it, behind what an exit and a join promise, OwnedInv *)
(* behind MessageOwnedOnce.                                                *)
(***************************************************************************)
EXTENDS Isolate

Operating == {"buildBoot", "buildSend", "spawn", "launch", "pjoin", "spin"}
Finished  == {"detach", "release", "left", "dead"}

\* A handle has a place exactly as long as it names an isolate.
PlacedInv == \A h \in Handle : at[h] = None <=> names[h] = None

\* Only a live struct has holders.
LiveInv == \A j \in Iso : mem[j] # "live" => count[j] = 0

\* A free in progress is the only one on its isolate, which nobody holds.
FreeInv ==
  /\ \A t \in Iso : \A k \in Frames(t) : FrameAt(t, k, "free") =>
       /\ mem[todo[t][k].arg] = "live"
       /\ count[todo[t][k].arg] = 0
  /\ \A t, u \in Iso : \A k \in Frames(t), n \in Frames(u) :
       /\ FrameAt(t, k, "free") /\ FrameAt(u, n, "free")
       /\ todo[t][k].arg = todo[u][n].arg
       => t = u /\ k = n

\* The thread's own count covers it from pthread_create to its last release;
\* it discards messages only while covered.
ThreadInv ==
  \A i \in Iso :
    /\ pc[i] \notin {"none", "left", "dead"} => thr[i]
    /\ pc[i] \in {"left", "dead"} => ~thr[i]
    /\ pc[i] \notin {"run", "teardown", "left"} => todo[i] = <<>>
    /\ \A k \in Frames(i) : FrameAt(i, k, "discard") => thr[i]

\* The Thread object an operation works on stays in the operating thread's heap.
OperandInv ==
  \A i \in Iso :
    /\ pc[i] \in Operating => hnd[i] \in Handle /\ at[hnd[i]] = i
    /\ pc[i] \in {"buildBoot", "buildSend"} => out[i] \in Msg

\* A thread that is being created belongs to one creator and is not running.
CreationInv ==
  \A i \in Iso :
    /\ pc[i] \in {"buildBoot", "spawn"} =>
         /\ parent[Target(i)] = i
         /\ pc[Target(i)] = "none"
         /\ thr[Target(i)] = (pc[i] = "spawn")
    /\ pc[i] = "spawn" => boot[Target(i)] \in Msg
    /\ pc[i] = "boot" => boot[i] \in Msg
    /\ parent[i] # None => pc[parent[i]] # "none"
    /\ mem[i] = "unborn" => pc[i] = "none" /\ ~thr[i] /\ parent[i] = None

\* A finished thread's mailbox is closed and empty, and so it stays; what a
\* thread frees after its last release are finished isolates.
FinishedInv ==
  \A i \in Iso :
    /\ done[i] <=> pc[i] \in Finished
    /\ pc[i] \in Finished \cup {"teardown"} => closed[i]
    /\ boot[i] # None => pc[i] \in {"none", "boot"}
    /\ pc[i] \in Finished => mailbox[i] = <<>>
    /\ pc[i] = "left" => \A k \in Frames(i) :
         FrameAt(i, k, "free") => pc[todo[i][k].arg] \in Finished

IInv ==
  /\ TypeOK /\ CountExact /\ PlacedInv /\ LiveInv /\ FreeInv
  /\ ThreadInv /\ OperandInv /\ CreationInv /\ FinishedInv

-----------------------------------------------------------------------------
(* The end of a thread.                                                    *)

\* A message is under construction only during a copy; a finished thread has
\* no object left.
HeapInv ==
  \A i \in Iso :
    /\ pc[i] \notin {"buildBoot", "buildSend"} => out[i] = None
    /\ pc[i] \in Finished => \A h \in Handle : at[h] # i

\* One joiner claims a thread, and only one that did not detach itself; past
\* its decision a thread is one or the other.
ClaimInv ==
  \A i \in Iso :
    /\ ~(joined[i] /\ detached[i])
    /\ pc[i] \in {"release", "left", "dead"} => joined[i] \/ detached[i]
    /\ pc[i] = "pjoin" =>
         /\ launched[Target(i)] /\ joined[Target(i)]
         /\ \A j \in Iso : pc[j] = "pjoin" /\ Target(j) = Target(i) => j = i

\* The workers __amlc_isolate_count counts: from before pthread_create until
\* the last runtime action of the thread, or its creation's failure.
Counted == {w \in Worker : pc[w] \notin {"none", "dead"} \/ thr[w]}

CountedInv ==
  /\ pc[Main] \notin Finished \cup {"none", "boot", "teardown"}
  /\ isoCount = Cardinality(Counted) + 1

ExitInv == HeapInv /\ ClaimInv /\ CountedInv

-----------------------------------------------------------------------------
(* The owners of messages.                                                 *)

\* The messages in mailboxes, in boot pointers, under construction, and those
\* being discarded.
Queued == {m \in Msg : \E i \in Iso : \E k \in DOMAIN mailbox[i] : mailbox[i][k] = m}
Booted == {m \in Msg : \E i \in Iso : boot[i] = m}
Built  == {m \in Msg : \E i \in Iso : out[i] = m}
Doomed == {m \in Msg : \E i \in Iso : \E k \in Frames(i) : todo[i][k] = DiscardFrame(m)}

\* Each of these places holds a message once.
QueuedOnce ==
  \A i, j \in Iso : \A k \in DOMAIN mailbox[i], n \in DOMAIN mailbox[j] :
    mailbox[i][k] = mailbox[j][n] => i = j /\ k = n
BootedOnce == \A i, j \in Iso : boot[i] # None /\ boot[i] = boot[j] => i = j
BuiltOnce  == \A i, j \in Iso : out[i] # None /\ out[i] = out[j] => i = j
DoomedOnce ==
  \A i, j \in Iso : \A k \in Frames(i), n \in Frames(j) :
    FrameAt(i, k, "discard") /\ todo[i][k] = todo[j][n] => i = j /\ k = n

\* The allocated messages are those with an owner, and no two kinds of owner
\* share one; a Thread object lives in no other message.
OneOwnerInv ==
  /\ inuse = Queued \cup Booted \cup Built \cup Doomed
  /\ Queued \cap (Booted \cup Built \cup Doomed) = {}
  /\ Booted \cap (Built \cup Doomed) = {}
  /\ Built \cap Doomed = {}
  /\ \A h \in Handle : at[h] \in Msg => at[h] \in inuse

\* An isolate has no boot message before start() gives it one.
UnbootedInv ==
  \A i \in Iso : /\ mem[i] = "unborn" => boot[i] = None
                 /\ pc[i] = "buildBoot" => boot[Target(i)] = None

OwnersInv == QueuedOnce /\ BootedOnce /\ BuiltOnce /\ DoomedOnce /\ OneOwnerInv
OwnedInv  == OwnersInv /\ UnbootedInv
=============================================================================
