------------------------------- MODULE Isolate -------------------------------
(***************************************************************************)
(* Isolates of the AmLang runtime, POSIX back end: the life of an aisolate *)
(* (core.c) and of the OS thread that runs as it (Am/Threading/Thread.c).  *)
(*                                                                         *)
(* A Thread object is a HANDLE: it lives in the heap of one isolate, or in *)
(* the object graph of a message, and names an isolate on which it holds   *)
(* one count.  The other holders of a count are the OS thread running as   *)
(* the isolate and the isolates it started (their parent pointer).  The    *)
(* struct is freed by whichever thread takes the count to zero, in the     *)
(* middle of whatever that thread is doing: freeing an isolate discards    *)
(* the messages left in its mailbox, which releases the handles inside     *)
(* them, which may free further isolates.  That recursion is the stack     *)
(* todo[t] of the thread.                                                  *)
(*                                                                         *)
(* Identities are data the properties do not look into: a handle is a      *)
(* member of Handle with a place (at) and an isolate (names), a message is *)
(* a member of Msg, its content the handles whose place is that message.   *)
(***************************************************************************)
EXTENDS Integers, Sequences, FiniteSets

CONSTANTS
  Worker,   \* isolates start() may create: bounds the number of start() calls
  Main,     \* the isolate of the initial thread
  Handle,   \* identities of Thread objects: bounds those alive at one time
  Msg,      \* identities of messages: bounds those allocated at one time
  None      \* NULL

Iso == Worker \cup {Main}

ASSUME IsolateAssumption ==
  /\ IsFiniteSet(Worker)
  /\ IsFiniteSet(Handle)
  /\ Main \notin Worker
  /\ Iso \cap Msg = {}
  /\ None \notin Iso \cup Msg \cup Handle

VARIABLES
  mem,       \* mem[i]: state of the aisolate struct: "unborn", "live", "freed"
  count,     \* count[i]: handle_count
  parent,    \* parent[i]: the creating isolate, None for Main
  thr,       \* thr[i]: the running thread's own count is outstanding
  at,        \* at[h]: the isolate or message whose graph holds h, None when dead
  names,     \* names[h]: the isolate custom_value points at, None when dead
  self,      \* self[i]: the cached self_handle
  mailbox,   \* mailbox[i]: queue of messages
  closed,    \* closed[i]: mailbox closed
  boot,      \* boot[i]: the message with the copied Runnable
  inuse,     \* messages that are allocated
  native,    \* native[i]: thread_native exists
  launched, joined, detached,   \* its three flags
  done,      \* done[i]: teardown finished
  pc,        \* pc[i]: what the OS thread of i is doing
  hnd,       \* hnd[i]: the Thread object (this) of the operation in progress
  out,       \* out[i]: the message being built by the operation in progress
  todo,      \* todo[i]: nested frees and discards in progress, innermost last
  isoCount   \* __amlc_isolate_count

structVars == <<mem, count, parent, thr>>
handleVars == <<at, names, self>>
mailVars   == <<mailbox, closed, boot, inuse>>
nativeVars == <<native, launched, joined, detached, done>>
threadVars == <<pc, hnd, out, todo>>
vars == <<structVars, handleVars, mailVars, nativeVars, threadVars, isoCount>>

FreeFrame(j)    == [op |-> "free", arg |-> j]
DiscardFrame(m) == [op |-> "discard", arg |-> m]
Frame == [op : {"free"}, arg : Iso] \cup [op : {"discard"}, arg : Msg]

Phase == {"none", "boot", "run", "recv", "buildBoot", "buildSend", "spawn", "launch",
          "pjoin", "spin", "teardown", "detach", "release", "left", "dead"}

\* The isolate the current operation of thread i is about.
Target(i) == names[hnd[i]]

Init ==
  /\ mem      = [i \in Iso |-> IF i = Main THEN "live" ELSE "unborn"]
  /\ count    = [i \in Iso |-> IF i = Main THEN 1 ELSE 0]
  /\ parent   = [i \in Iso |-> None]
  /\ thr      = [i \in Iso |-> i = Main]
  /\ at       = [h \in Handle |-> None]
  /\ names    = [h \in Handle |-> None]
  /\ self     = [i \in Iso |-> None]
  /\ mailbox  = [i \in Iso |-> <<>>]
  /\ closed   = [i \in Iso |-> FALSE]
  /\ boot     = [i \in Iso |-> None]
  /\ inuse    = {}
  /\ native   = [i \in Iso |-> FALSE]
  /\ launched = [i \in Iso |-> FALSE]
  /\ joined   = [i \in Iso |-> FALSE]
  /\ detached = [i \in Iso |-> FALSE]
  /\ done     = [i \in Iso |-> FALSE]
  /\ pc       = [i \in Iso |-> IF i = Main THEN "run" ELSE "none"]
  /\ hnd      = [i \in Iso |-> None]
  /\ out      = [i \in Iso |-> None]
  /\ todo     = [i \in Iso |-> <<>>]
  /\ isoCount = 1

-----------------------------------------------------------------------------
(* Counts.  Retain and Release run under the global lock; the thread that  *)
(* takes a count to zero goes on to free the isolate.                      *)

Retained(j) == [count EXCEPT ![j] = @ + 1]

\* Mutants of Release: a count dropped twice; a zero nobody acts on.
ReleaseTwice(t, j, s) ==
  /\ count' = [count EXCEPT ![j] = @ - 2]
  /\ todo'  = [todo EXCEPT ![t] = IF count[j] = 2 THEN Append(s, FreeFrame(j)) ELSE s]

ReleaseNeverFrees(t, j, s) ==
  /\ count' = [count EXCEPT ![j] = @ - 1]
  /\ todo'  = [todo EXCEPT ![t] = s]

\* Thread t drops one count on j; s is what it had left to do.
Release(t, j, s) ==
  /\ count' = [count EXCEPT ![j] = @ - 1]
  /\ todo'  = [todo EXCEPT ![t] = IF count[j] = 1 THEN Append(s, FreeFrame(j)) ELSE s]

NewHandle(h, place, j) ==
  /\ at[h] = None
  /\ at'    = [at EXCEPT ![h] = place]
  /\ names' = [names EXCEPT ![h] = j]

\* _native_release of the dying Thread object h in thread t.
HandleDies(t, h) ==
  /\ at'    = [at EXCEPT ![h] = None]
  /\ names' = [names EXCEPT ![h] = None]
  /\ Release(t, names[h], todo[t])

\* The handles of message m become objects of isolate i (message_open).
Adopt(m, i) == at' = [h \in Handle |-> IF at[h] = m THEN i ELSE at[h]]

Idle(i) == pc[i] = "run" /\ todo[i] = <<>>
Goto(i, p) == pc' = [pc EXCEPT ![i] = p]

-----------------------------------------------------------------------------
(* Handles a running thread obtains and lets go of.                        *)

\* Thread.getCurrent: the first call creates and caches the handle.
GetCurrent(i, h) ==
  /\ Idle(i)
  /\ self[i] = None
  /\ NewHandle(h, i, i)
  /\ count' = Retained(i)
  /\ self'  = [self EXCEPT ![i] = h]
  /\ UNCHANGED <<mem, parent, thr, mailVars, nativeVars, threadVars, isoCount>>

\* Mutant of GetParent: the handle takes no count.
GetParentNoRetain(i, h) ==
  /\ Idle(i)
  /\ parent[i] # None
  /\ NewHandle(h, i, parent[i])
  /\ UNCHANGED <<structVars, self, mailVars, nativeVars, threadVars, isoCount>>

\* Thread.getParent: a fresh handle on the isolate that started this one.
GetParent(i, h) ==
  /\ Idle(i)
  /\ parent[i] # None
  /\ NewHandle(h, i, parent[i])
  /\ count' = Retained(parent[i])
  /\ UNCHANGED <<mem, parent, thr, self, mailVars, nativeVars, threadVars, isoCount>>

\* The last reference to a Thread object dies: _native_release drops its count.
Drop(i, h) ==
  /\ Idle(i)
  /\ at[h] = i
  /\ h # self[i]
  /\ HandleDies(i, h)
  /\ UNCHANGED <<mem, parent, thr, self, mailVars, nativeVars, pc, hnd, out, isoCount>>

-----------------------------------------------------------------------------
(* Thread.start.                                                           *)

\* isolate_create: count 1 for the handle h (this), one on the parent; then
\* the copy of the Runnable begins.
StartCreate(i, w, h, m) ==
  /\ Idle(i)
  /\ mem[w] = "unborn"
  /\ m \notin inuse
  /\ NewHandle(h, i, w)
  /\ mem'    = [mem EXCEPT ![w] = "live"]
  /\ parent' = [parent EXCEPT ![w] = i]
  /\ count'  = [count EXCEPT ![w] = 1, ![i] = @ + 1]
  /\ inuse'  = inuse \cup {m}
  /\ out'    = [out EXCEPT ![i] = m]
  /\ hnd'    = [hnd EXCEPT ![i] = h]
  /\ Goto(i, "buildBoot")
  /\ UNCHANGED <<thr, self, mailbox, closed, boot, nativeVars, todo, isoCount>>

\* Mutant of CopyHandle: the copied handle takes no count.
CopyHandleForgetsRetain(i, h, h2) ==
  /\ pc[i] \in {"buildBoot", "buildSend"}
  /\ at[h] = i
  /\ NewHandle(h2, out[i], names[h])
  /\ UNCHANGED <<structVars, self, mailVars, nativeVars, threadVars, isoCount>>

\* _native_copy of a Thread object met while copying the graph.
CopyHandle(i, h, h2) ==
  /\ pc[i] \in {"buildBoot", "buildSend"}
  /\ at[h] = i
  /\ NewHandle(h2, out[i], names[h])
  /\ count' = Retained(names[h])
  /\ UNCHANGED <<mem, parent, thr, self, mailVars, nativeVars, threadVars, isoCount>>

\* The graph reaches an object that is not sendable: what was copied so far
\* is spliced into the sender's own heap and the operation throws.
BuildFail(i) ==
  /\ pc[i] \in {"buildBoot", "buildSend"}
  /\ Adopt(out[i], i)
  /\ inuse' = inuse \ {out[i]}
  /\ out'   = [out EXCEPT ![i] = None]
  /\ hnd'   = [hnd EXCEPT ![i] = None]
  /\ Goto(i, "run")
  /\ UNCHANGED <<structVars, names, self, mailbox, closed, boot, nativeVars, todo, isoCount>>

\* Mutant of BootReady: the running thread takes no count of its own.
BootReadyNoRetain(i) ==
  LET w == Target(i) IN
  /\ pc[i] = "buildBoot"
  /\ boot'     = [boot EXCEPT ![w] = out[i]]
  /\ out'      = [out EXCEPT ![i] = None]
  /\ native'   = [native EXCEPT ![w] = TRUE]
  /\ thr'      = [thr EXCEPT ![w] = TRUE]
  /\ isoCount' = isoCount + 1
  /\ Goto(i, "spawn")
  /\ UNCHANGED <<mem, count, parent, handleVars, mailbox, closed, inuse,
                 launched, joined, detached, done, hnd, todo>>

\* The copy is the boot message; thread_native, the running thread's count
\* and the isolate count are set up before pthread_create.
BootReady(i) ==
  LET w == Target(i) IN
  /\ pc[i] = "buildBoot"
  /\ boot'     = [boot EXCEPT ![w] = out[i]]
  /\ out'      = [out EXCEPT ![i] = None]
  /\ native'   = [native EXCEPT ![w] = TRUE]
  /\ thr'      = [thr EXCEPT ![w] = TRUE]
  /\ count'    = Retained(w)
  /\ isoCount' = isoCount + 1
  /\ Goto(i, "spawn")
  /\ UNCHANGED <<mem, parent, handleVars, mailbox, closed, inuse,
                 launched, joined, detached, done, hnd, todo>>

\* pthread_create succeeds: the worker may run before launched is set.
SpawnOk(i) ==
  /\ pc[i] = "spawn"
  /\ pc' = [pc EXCEPT ![i] = "launch", ![Target(i)] = "boot"]
  /\ UNCHANGED <<structVars, handleVars, mailVars, nativeVars, hnd, out, todo, isoCount>>

\* pthread_create fails: the counts are given back and start() throws.
SpawnFail(i) ==
  /\ pc[i] = "spawn"
  /\ isoCount' = isoCount - 1
  /\ thr' = [thr EXCEPT ![Target(i)] = FALSE]
  /\ Release(i, Target(i), todo[i])
  /\ hnd' = [hnd EXCEPT ![i] = None]
  /\ Goto(i, "run")
  /\ UNCHANGED <<mem, parent, handleVars, mailVars, nativeVars, out>>

\* n->launched = true, outside any lock.
Launched(i) ==
  /\ pc[i] = "launch"
  /\ launched' = [launched EXCEPT ![Target(i)] = TRUE]
  /\ hnd' = [hnd EXCEPT ![i] = None]
  /\ Goto(i, "run")
  /\ UNCHANGED <<structVars, handleVars, mailVars, native, joined, detached, done,
                 out, todo, isoCount>>

-----------------------------------------------------------------------------
(* Messages.                                                               *)

SendBegin(i, h, m) ==
  /\ Idle(i)
  /\ at[h] = i
  /\ m \notin inuse
  /\ inuse' = inuse \cup {m}
  /\ out'   = [out EXCEPT ![i] = m]
  /\ hnd'   = [hnd EXCEPT ![i] = h]
  /\ Goto(i, "buildSend")
  /\ UNCHANGED <<structVars, handleVars, mailbox, closed, boot, nativeVars, todo, isoCount>>

\* Mutant of Post: the closed flag is not looked at.
PostIgnoresClosed(i) ==
  /\ pc[i] = "buildSend"
  /\ mailbox' = [mailbox EXCEPT ![Target(i)] = Append(@, out[i])]
  /\ out' = [out EXCEPT ![i] = None]
  /\ hnd' = [hnd EXCEPT ![i] = None]
  /\ Goto(i, "run")
  /\ UNCHANGED <<structVars, handleVars, closed, boot, inuse, nativeVars, todo, isoCount>>

\* The mailbox refuses a message once closed; the sender discards it.
Post(i) ==
  /\ pc[i] = "buildSend"
  /\ IF closed[Target(i)]
     THEN /\ todo' = [todo EXCEPT ![i] = Append(@, DiscardFrame(out[i]))]
          /\ UNCHANGED mailbox
     ELSE /\ mailbox' = [mailbox EXCEPT ![Target(i)] = Append(@, out[i])]
          /\ UNCHANGED todo
  /\ out' = [out EXCEPT ![i] = None]
  /\ hnd' = [hnd EXCEPT ![i] = None]
  /\ Goto(i, "run")
  /\ UNCHANGED <<structVars, handleVars, closed, boot, inuse, nativeVars, isoCount>>

\* receive() on an empty mailbox sleeps on the condition variable.
ReceiveWait(i) ==
  /\ Idle(i)
  /\ mailbox[i] = <<>>
  /\ Goto(i, "recv")
  /\ UNCHANGED <<structVars, handleVars, mailVars, nativeVars, hnd, out, todo, isoCount>>

\* receive()/tryReceive() take the oldest message and adopt its graph.
Receive(i) ==
  /\ pc[i] \in {"run", "recv"} /\ todo[i] = <<>>
  /\ mailbox[i] # <<>>
  /\ mailbox' = [mailbox EXCEPT ![i] = Tail(@)]
  /\ Adopt(Head(mailbox[i]), i)
  /\ inuse' = inuse \ {Head(mailbox[i])}
  /\ Goto(i, "run")
  /\ UNCHANGED <<structVars, names, self, closed, boot, nativeVars, hnd, out, todo, isoCount>>

-----------------------------------------------------------------------------
(* Thread.join.                                                            *)

\* Mutant of CanClaim: a thread that detached itself is joined.
CanClaimIgnoresDetached(j) == launched[j] /\ ~joined[j]

\* The decision, under the global lock, to claim pthread_join...
CanClaim(j) == launched[j] /\ ~joined[j] /\ ~detached[j]

JoinClaim(i, h) ==
  LET j == names[h] IN
  /\ Idle(i)
  /\ at[h] = i
  /\ native[j]
  /\ CanClaim(j)
  /\ joined' = [joined EXCEPT ![j] = TRUE]
  /\ hnd' = [hnd EXCEPT ![i] = h]
  /\ Goto(i, "pjoin")
  /\ UNCHANGED <<structVars, handleVars, mailVars, native, launched, detached, done,
                 out, todo, isoCount>>

\* ... or to poll done.  A handle whose isolate has no thread_native (main,
\* or a start() that threw before pthread_create) changes nothing: join
\* returns at once.
JoinPoll(i, h) ==
  LET j == names[h] IN
  /\ Idle(i)
  /\ at[h] = i
  /\ native[j]
  /\ ~CanClaim(j)
  /\ hnd' = [hnd EXCEPT ![i] = h]
  /\ Goto(i, "spin")
  /\ UNCHANGED <<structVars, handleVars, mailVars, nativeVars, out, todo, isoCount>>

\* pthread_join returns once the OS thread is gone, or at once (EDEADLK,
\* ignored) when the thread joins itself.
JoinReturn(i) ==
  /\ pc[i] = "pjoin"
  /\ pc[Target(i)] = "dead" \/ Target(i) = i
  /\ hnd' = [hnd EXCEPT ![i] = None]
  /\ Goto(i, "run")
  /\ UNCHANGED <<structVars, handleVars, mailVars, nativeVars, out, todo, isoCount>>

\* Mutant of SpinReturn: polls the mailbox instead of done.
SpinReturnOnClosed(i) ==
  /\ pc[i] = "spin"
  /\ closed[Target(i)]
  /\ hnd' = [hnd EXCEPT ![i] = None]
  /\ Goto(i, "run")
  /\ UNCHANGED <<structVars, handleVars, mailVars, nativeVars, out, todo, isoCount>>

SpinReturn(i) ==
  /\ pc[i] = "spin"
  /\ done[Target(i)]
  /\ hnd' = [hnd EXCEPT ![i] = None]
  /\ Goto(i, "run")
  /\ UNCHANGED <<structVars, handleVars, mailVars, nativeVars, out, todo, isoCount>>

-----------------------------------------------------------------------------
(* The worker's thread: Thread.c pthread_entry and isolate_teardown.       *)

\* Become the isolate, open the boot message, run.
Enter(i) ==
  /\ pc[i] = "boot"
  /\ Adopt(boot[i], i)
  /\ inuse' = inuse \ {boot[i]}
  /\ boot'  = [boot EXCEPT ![i] = None]
  /\ Goto(i, "run")
  /\ UNCHANGED <<structVars, names, self, mailbox, closed, nativeVars, hnd, out, todo, isoCount>>

\* The runnable and the finalizers have returned: teardown closes the mailbox.
Return(i) ==
  /\ i # Main
  /\ Idle(i)
  /\ closed' = [closed EXCEPT ![i] = TRUE]
  /\ Goto(i, "teardown")
  /\ UNCHANGED <<structVars, handleVars, mailbox, boot, inuse, nativeVars, hnd, out, todo, isoCount>>

\* Teardown discards what is left in the mailbox...
DrainOne(i) ==
  /\ pc[i] = "teardown" /\ todo[i] = <<>>
  /\ mailbox[i] # <<>>
  /\ mailbox' = [mailbox EXCEPT ![i] = Tail(@)]
  /\ todo'    = [todo EXCEPT ![i] = Append(@, DiscardFrame(Head(mailbox[i])))]
  /\ UNCHANGED <<structVars, handleVars, closed, boot, inuse, nativeVars, pc, hnd, out, isoCount>>

\* ... then releases the cached self handle and sweeps the heap...
SweepHandle(i, h) ==
  /\ pc[i] = "teardown" /\ todo[i] = <<>>
  /\ mailbox[i] = <<>>
  /\ at[h] = i
  /\ self[i] \in {None, h}
  /\ self' = [self EXCEPT ![i] = None]
  /\ HandleDies(i, h)
  /\ UNCHANGED <<mem, parent, thr, mailVars, nativeVars, pc, hnd, out, isoCount>>

\* Mutant of SweepEnd: done is never published.
SweepEndNoDone(i) ==
  /\ pc[i] = "teardown" /\ todo[i] = <<>>
  /\ mailbox[i] = <<>>
  /\ \A h \in Handle : at[h] # i
  /\ Goto(i, "detach")
  /\ UNCHANGED <<structVars, handleVars, mailVars, nativeVars, hnd, out, todo, isoCount>>

\* ... and publishes done under the global lock.
SweepEnd(i) ==
  /\ pc[i] = "teardown" /\ todo[i] = <<>>
  /\ mailbox[i] = <<>>
  /\ \A h \in Handle : at[h] # i
  /\ done' = [done EXCEPT ![i] = TRUE]
  /\ Goto(i, "detach")
  /\ UNCHANGED <<structVars, handleVars, mailVars, native, launched, joined, detached,
                 hnd, out, todo, isoCount>>

\* Under the global lock: nobody claimed the join, so the thread detaches itself.
Detach(i) ==
  /\ pc[i] = "detach"
  /\ detached' = [detached EXCEPT ![i] = ~joined[i]]
  /\ Goto(i, "release")
  /\ UNCHANGED <<structVars, handleVars, mailVars, native, launched, joined, done,
                 hnd, out, todo, isoCount>>

\* The running thread's own count.
ReleaseSelf(i) ==
  /\ pc[i] = "release"
  /\ thr' = [thr EXCEPT ![i] = FALSE]
  /\ Release(i, i, todo[i])
  /\ Goto(i, "left")
  /\ UNCHANGED <<mem, parent, handleVars, mailVars, nativeVars, hnd, out, isoCount>>

\* Mutant of Gone: the isolate count drops while frees are pending.
GoneBeforeRelease(i) ==
  /\ pc[i] = "left"
  /\ isoCount' = isoCount - 1
  /\ Goto(i, "dead")
  /\ UNCHANGED <<structVars, handleVars, mailVars, nativeVars, hnd, out, todo>>

\* isolate_count_dec, the last runtime action; then the OS thread ends.
Gone(i) ==
  /\ pc[i] = "left" /\ todo[i] = <<>>
  /\ isoCount' = isoCount - 1
  /\ Goto(i, "dead")
  /\ UNCHANGED <<structVars, handleVars, mailVars, nativeVars, hnd, out, todo>>

-----------------------------------------------------------------------------
(* The innermost unfinished free or discard of thread t.                   *)

Top(t)    == todo[t][Len(todo[t])]
Below(t)  == SubSeq(todo[t], 1, Len(todo[t]) - 1)
TopIs(t, op) == todo[t] # <<>> /\ Top(t).op = op

\* message_discard: the payload dies in t's heap; each handle in it is released.
DiscardHandle(t, h) ==
  /\ TopIs(t, "discard")
  /\ at[h] = Top(t).arg
  /\ HandleDies(t, h)
  /\ UNCHANGED <<mem, parent, thr, self, mailVars, nativeVars, pc, hnd, out, isoCount>>

DiscardEnd(t) ==
  /\ TopIs(t, "discard")
  /\ \A h \in Handle : at[h] # Top(t).arg
  /\ inuse' = inuse \ {Top(t).arg}
  /\ todo'  = [todo EXCEPT ![t] = Below(t)]
  /\ UNCHANGED <<structVars, handleVars, mailbox, closed, boot, nativeVars, pc, hnd, out, isoCount>>

\* isolate_free: drain the mailbox into the calling isolate...
FreeDrain(t) ==
  /\ TopIs(t, "free")
  /\ LET j == Top(t).arg IN
     /\ mailbox[j] # <<>>
     /\ mailbox' = [mailbox EXCEPT ![j] = Tail(@)]
     /\ todo'    = [todo EXCEPT ![t] = Append(@, DiscardFrame(Head(mailbox[j])))]
  /\ UNCHANGED <<structVars, handleVars, closed, boot, inuse, nativeVars, pc, hnd, out, isoCount>>

\* Mutant of FreeBoot: iso->boot is not set to NULL.
FreeBootKeepsPointer(t) ==
  /\ TopIs(t, "free")
  /\ LET j == Top(t).arg IN
     /\ mailbox[j] = <<>>
     /\ boot[j] # None
     /\ todo' = [todo EXCEPT ![t] = Append(@, DiscardFrame(boot[j]))]
  /\ UNCHANGED <<structVars, handleVars, mailVars, nativeVars, pc, hnd, out, isoCount>>

\* ... and the boot message of a thread that was never created...
FreeBoot(t) ==
  /\ TopIs(t, "free")
  /\ LET j == Top(t).arg IN
     /\ mailbox[j] = <<>>
     /\ boot[j] # None
     /\ boot' = [boot EXCEPT ![j] = None]
     /\ todo' = [todo EXCEPT ![t] = Append(@, DiscardFrame(boot[j]))]
  /\ UNCHANGED <<structVars, handleVars, mailbox, closed, inuse, nativeVars, pc, hnd, out, isoCount>>

\* ... then free the struct and release the parent.
FreeStruct(t) ==
  /\ TopIs(t, "free")
  /\ LET j == Top(t).arg IN
     /\ mailbox[j] = <<>>
     /\ boot[j] = None
     /\ mem'    = [mem EXCEPT ![j] = "freed"]
     /\ parent' = [parent EXCEPT ![j] = None]
     /\ IF parent[j] = None
        THEN todo' = [todo EXCEPT ![t] = Below(t)] /\ UNCHANGED count
        ELSE Release(t, parent[j], Below(t))
  /\ UNCHANGED <<thr, handleVars, mailVars, nativeVars, pc, hnd, out, isoCount>>

-----------------------------------------------------------------------------
\* What the runtime does of its own accord once an operation is under way.
Runtime(i) ==
  \/ BootReady(i) \/ SpawnOk(i) \/ SpawnFail(i) \/ Launched(i)
  \/ Post(i)
  \/ JoinReturn(i) \/ SpinReturn(i)
  \/ Enter(i) \/ DrainOne(i) \/ SweepEnd(i)
  \/ Detach(i) \/ ReleaseSelf(i) \/ Gone(i)
  \/ DiscardEnd(i) \/ FreeDrain(i) \/ FreeBoot(i) \/ FreeStruct(i)
  \/ pc[i] = "recv" /\ Receive(i)
  \/ \E h \in Handle : SweepHandle(i, h) \/ DiscardHandle(i, h)

\* What the program running as i chooses to do.
Program(i) ==
  \/ BuildFail(i) \/ ReceiveWait(i) \/ Return(i)
  \/ pc[i] = "run" /\ Receive(i)
  \/ \E h \in Handle :
       \/ GetCurrent(i, h) \/ GetParent(i, h) \/ Drop(i, h)
       \/ JoinClaim(i, h) \/ JoinPoll(i, h)
       \/ \E m \in Msg : SendBegin(i, h, m)
       \/ \E h2 \in Handle : CopyHandle(i, h, h2)
       \/ \E w \in Worker, m \in Msg : StartCreate(i, w, h, m)

Next == \E i \in Iso : Runtime(i) \/ Program(i)

Spec == Init /\ [][Next]_vars

\* An OS thread is scheduled again and again: an operation that has begun goes on.
FairSpec == Spec /\ \A i \in Iso : WF_vars(Runtime(i))

-----------------------------------------------------------------------------
(* Properties.                                                             *)

FrameAt(i, k, op) == todo[i][k].op = op
Frames(i) == 1 .. Len(todo[i])

TypeOK ==
  /\ mem \in [Iso -> {"unborn", "live", "freed"}]
  /\ count \in [Iso -> Nat]
  /\ parent \in [Iso -> Iso \cup {None}]
  /\ thr \in [Iso -> BOOLEAN]
  /\ at \in [Handle -> Iso \cup Msg \cup {None}]
  /\ names \in [Handle -> Iso \cup {None}]
  /\ self \in [Iso -> Handle \cup {None}]
  /\ mailbox \in [Iso -> Seq(Msg)]
  /\ closed \in [Iso -> BOOLEAN]
  /\ boot \in [Iso -> Msg \cup {None}]
  /\ inuse \subseteq Msg
  /\ native \in [Iso -> BOOLEAN]
  /\ launched \in [Iso -> BOOLEAN]
  /\ joined \in [Iso -> BOOLEAN]
  /\ detached \in [Iso -> BOOLEAN]
  /\ done \in [Iso -> BOOLEAN]
  /\ pc \in [Iso -> Phase]
  /\ hnd \in [Iso -> Handle \cup {None}]
  /\ out \in [Iso -> Msg \cup {None}]
  /\ todo \in [Iso -> Seq(Frame)]
  /\ isoCount \in Int

\* Who holds a count on isolate j: Thread objects, children, its own thread.
HeldBy(j)   == {h \in Handle : names[h] = j}
Children(j) == {w \in Iso : parent[w] = j}

(* handle_count is exactly the number of holders: no copy, discard, failed  *)
(* start or teardown forgets a retain or releases twice.                    *)
CountExact ==
  \A j \in Iso : count[j] = Cardinality(HeldBy(j)) + Cardinality(Children(j))
                             + (IF thr[j] THEN 1 ELSE 0)

(* Nobody touches a freed aisolate: not through a Thread object, a parent   *)
(* pointer, the running thread, a nested free; and a thread whose own       *)
(* isolate is gone opens no message into it (message_open uses the TLS      *)
(* isolate, which still points at the freed struct).                        *)
NoUseAfterFree ==
  /\ \A h \in Handle : at[h] # None => mem[names[h]] = "live"
  /\ \A w \in Iso : parent[w] # None => mem[parent[w]] = "live"
  /\ \A i \in Iso : pc[i] \notin {"none", "left", "dead"} => mem[i] = "live"
  /\ \A i \in Iso : \A k \in Frames(i) :
       /\ FrameAt(i, k, "free") => mem[todo[i][k].arg] = "live"
       /\ FrameAt(i, k, "discard") => mem[i] = "live"

\* Where message m is: a queue position, a boot pointer, a build, a discard.
InMailbox(m) == UNION {{<<i, k>> : k \in {n \in DOMAIN mailbox[i] : mailbox[i][n] = m}} : i \in Iso}
AsBoot(m)    == {i \in Iso : boot[i] = m}
AsOut(m)     == {i \in Iso : out[i] = m}
Dying(m)     == {i \in Iso : \E k \in Frames(i) : todo[i][k] = DiscardFrame(m)}
Owners(m)    == Cardinality(InMailbox(m)) + Cardinality(AsBoot(m))
                  + Cardinality(AsOut(m)) + Cardinality(Dying(m))

(* A message has exactly one owner from its creation until it is opened or  *)
(* discarded: it is neither opened twice nor lost with the handles in it.   *)
MessageOwnedOnce ==
  \A m \in Msg : IF m \in inuse
                  THEN Owners(m) = 1
                  ELSE Owners(m) = 0 /\ \A h \in Handle : at[h] # m

(* Once teardown has published done, the isolate owns nothing: its mailbox  *)
(* is closed and stays empty whatever late senders do, its boot message and *)
(* every handle in its heap are gone.                                       *)
TeardownComplete ==
  \A i \in Iso : done[i] =>
    /\ closed[i] /\ mailbox[i] = <<>> /\ boot[i] = None /\ out[i] = None
    /\ \A h \in Handle : at[h] # i

(* The OS thread of a worker is joined by at most one pthread_join or       *)
(* detached, never both, and one of the two once it has ended.              *)
JoinXorDetach ==
  /\ \A j \in Iso : ~(joined[j] /\ detached[j])
  /\ \A i \in Iso : pc[i] = "pjoin" => launched[Target(i)] /\ joined[Target(i)]
  /\ \A i, j \in Iso : pc[i] = "pjoin" /\ pc[j] = "pjoin" /\ Target(i) = Target(j) => i = j
  /\ \A j \in Worker : pc[j] = "dead" => joined[j] \/ detached[j]

(* core.h:528-532: while any worker may still run runtime code the process  *)
(* counts at least two isolates, so a thread that reads 1 is the main one;  *)
(* and when every worker is gone the count is back at 1.                    *)
SingleThreadShortcut ==
  /\ (\E w \in Worker : pc[w] \notin {"none", "dead"} \/ todo[w] # <<>>) => isoCount >= 2
  /\ (\A w \in Worker : pc[w] \in {"none", "dead"} /\ ~thr[w]) => isoCount = 1

(* When join() has waited, the thread it names has closed its mailbox, has  *)
(* released everything in its heap and will send nothing more: all it sent  *)
(* is already in the joiner's mailbox (a thread that joins itself aside).   *)
JoinWaits ==
  [][\A i \in Iso : pc[i] \in {"pjoin", "spin"} /\ pc'[i] = "run" /\ Target(i) # i
        => LET j == Target(i) IN
           closed[j] /\ out[j] = None /\ \A h \in Handle : at[h] # j]_vars

(* The struct of an isolate whose thread was created is freed only after    *)
(* that thread has finished teardown, and is never freed twice.             *)
FreedAfterDone ==
  [][\A w \in Iso : mem'[w] = "freed" /\ mem[w] # "freed"
        => mem[w] = "live" /\ (done[w] \/ pc[w] = "none")]_vars

Ending == {"teardown", "detach", "release", "left", "dead"}

(* A join on a thread whose runnable has returned comes back, whoever else  *)
(* joins it and however its exit interleaves.                               *)
JoinReturns ==
  \A i \in Iso :
    (pc[i] \in {"pjoin", "spin"} /\ pc[Target(i)] \in Ending) ~> (pc[i] = "run")

(* A worker whose runnable has returned ends: teardown and the frees it     *)
(* runs into on the way terminate; and an isolate nobody holds is freed.    *)
ExitCompletes ==
  \A i \in Worker :
    /\ pc[i] = "teardown" ~> pc[i] = "dead"
    /\ (mem[i] = "live" /\ count[i] = 0) ~> mem[i] = "freed"
=============================================================================
