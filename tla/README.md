# A TLA+ development of the AmLang core library

`am-lang-core` is the runtime and the standard library of AmLang, a language
that compiles to C: a reference-counted heap per *isolate* (a thread that
shares no object with any other), messages between isolates, and classes for
collections, streams, processes and threads. This directory holds TLA+ modules
of the parts where the logic is hard to test, TLC configurations that check
them on small instances, and proofs that TLAPS checks.

The back end modelled is `src/src/native-c/libc` (POSIX). Three parts are
modelled on the Amiga family as well, where they are programs of their own
rather than thin wrappers: the mailbox, running processes (a console handler
per child) and blocking commands with the search for their program, the last
two on each of `amigaos`, `morphos-ppc` and `aros`. `PROJECT.json` says for
every definition which lines it stands for, and lists components, runs,
mutants, findings, hazards and theorems.

## 1. The system

| component | state | operations | talks to |
|---|---|---|---|
| Isolates and threads (`core.c`, `Thread.c`) | `aisolate`: handle count, parent, mailbox, boot message, `done`; `thread_native`: `launched`, `joined`, `detached` | start, send, receive, join, getCurrent, getParent, thread exit, release of the last handle | heap (Thread objects hold counts), mailbox, OS threads |
| Mailbox (`core.c`) | linked list, `closed`, mutex and condition or signal bit | post, take, bind, close | senders on any thread, one owner |
| Reference counting and object store (`core.c`, `core_inline_functions.h`) | two counts per object, list of objects held by slots, list of detached objects | allocate, retain, release, property and static writes, wrap in an interface, exit sweep | every class |
| Cycle collector (`GC.c`, `gc_graph.h`) | a graph built per call | `GC.collect` | the object store, through ordinary releases |
| Message copy (`core.c`, copy hooks) | identity table, the sender's list and count, set aside meanwhile | copy, splice back on failure | object store, mailbox |
| Task scheduler (`TaskScheduler.aml`, `TaskRunner.aml`) | runners per thread (statics are per thread), the main thread's handle | schedule, handleMainTasks, runner loop, stopAll | threads, mailbox |
| `HashSet`, `HashMap` (`Am/Collections`) | chained tables in arrays of slots | add/set, remove, clear, growth, queries | object store (slots pin objects) |
| Running processes, libc (`RunningProcess.c`) | descriptor slots, child's number, `child_exited` | start, isAlive, read, write, close, terminate | kernel |
| Running processes, Amiga family (`RunningProcess.c` of each port) | `rp_state`: reference count, rings, parked packets, timer, pool of cached locks, the port of a handler process; a list of all states and a count of live handlers | start, isAlive, read, write, close, release, `shutdownAllNative`; the handler's packet loop and timer; the child's exit callback | DOS packets, the child, the program's event loop through a signal |
| Blocking commands and command search (`Process.c` of each port, `startNative`) | per port: temp files, contexts of captures, static buffers for the command, the drawers of `setSpawnSearchPath` | run, runAndCapture and its variants, setSpawnSearchPath, the search for a program | DOS or the shell, the child and its exit hook, the paths of other processes |
| Others | streams, sockets, strings, numbers, dates, reflection, lists, trees, mutexes, continuations | | |

What makes each hard, and what makes it correct:

* **Isolates.** The last release of an isolate may come from any thread in the
  middle of anything, and frees nest: freeing discards messages, whose Thread
  objects may be the last holders of further isolates. Exit races with join,
  with late senders, and with the creator still in `start()`. Correct: counts
  are exact, nothing freed is touched, a message is opened or discarded once,
  an OS thread is joined or detached but not both, `join` means the results
  are there, and everything ends.
* **Mailbox.** The empty-check races with the post that should wake the
  sleeper. Correct: it is a FIFO channel that refuses once closed, and no post
  leaves the owner asleep.
* **Heap and collector.** Deaths cascade through slots and interfaces while
  lists are being walked. Correct: counts equal owners at every step, a
  collection takes exactly what is unreachable, exit leaves nothing.
* **Scheduler.** Tasks schedule tasks while a drain or a shutdown is going on.
  Correct: at most once, in order, nothing lost, shutdown waits and returns.
* **Collections.** Slot reuse, chains, growth and clear interact over long
  histories. Correct: a map answers as a dictionary, a set as a set.
* **Processes, libc.** Numbers outlive what they named. Correct: only our own
  child and descriptors are touched, all output is read, polling loops end.
* **Consoles.** Four parties share one `rp_state` under `Forbid` only: the
  event loop, the handler process, the child's packets and the callback the
  child runs at its exit; any of them may be the last, and the program may exit
  with all of them alive. Packets are parked and answered later by whoever
  comes by. Correct: the state is freed once and by its last user, a packet is
  answered once, nothing stays parked that could be served, no wake is lost,
  the child is not left waiting for a handler that went.
* **Commands.** A blocking call divides its handles, its temp files and its
  context with a child it can only watch by address or name, searches through static
  buffers, and other threads do the same at the same time. Correct: a capture
  is whole or says that it is not, handles and contexts are used by their owner
  only, every way out gives everything back, the search runs the first match.

## 2. Modules and plan

| module | what it is |
|---|---|
| `Isolate` | isolates, handles, OS threads and messages of the whole program |
| `IsolateInv` | its inductive invariants, in named parts |
| `IsolateProofs` | theorems: counts and frees; exit and join; messages |
| `Channel` | abstract: what a mailbox promises |
| `Mailbox`, `MailboxProofs` | the mailbox on both platforms; theorems, among them that it implements `Channel` |
| `Arc`, `ArcProofs` | one isolate's heap: reference counting, cycle collector, exit sweep; theorems |
| `TaskScheduler`, `TaskSchedulerProofs` | scheduler, runners and the main thread; theorems |
| `Chains`, `ChainProofs` | chains in an array of links, used by both collections; what each change of a link does to all of them |
| `HashSet`, `HashSetProofs` | the set against a mathematical set kept beside it; theorems |
| `Dictionary`, `HashMap`, `HashMapProofs` | abstract: the `Map` interface as a function; the map that implements it; theorems, that one among them |
| `RunningProcess`, `RunningProcessProofs` | libc: the process handle, the child and the kernel's tables; theorems about it and about the consoles |
| `Console` | what the three Amiga-family ports of `RunningProcess` share |
| `TtyAmiga`, `TtyMorphos`, `TtyAros` | the handler, close and shutdown of each port |
| `Tty` | the three together, and what must hold of them all |
| `SpawnPath` | the path lists of a program and of the processes around it |
| `Spawn` | calls, children, temp files and the search, as far as the ports share them |
| `SpawnAmiga`, `SpawnMorphos`, `SpawnAros`, `SpawnLibc` | what each port does of its own |
| `MC*` | instances for TLC; `Tty` and `MCSpawn` choose the port in the initial state, `MCContainers` one of the two hash tables |

`IsolateInv` extends `Isolate`, and `IsolateProofs` extends that; `HashMapProofs`
and `HashSetProofs` extend `ChainProofs`; `Mailbox` instantiates `Channel`, `HashMap`
instantiates `Dictionary`, `Tty` and `MCSpawn` instantiate the modules of
the ports, which extend `Console` and `Spawn`. `Isolate` keeps a mailbox as a
queue with a closed flag, which `Mailbox` justifies; `TaskScheduler` uses
threads as `Isolate` provides them (post, receive, join); `SpawnPath` and the
search are shared by the blocking calls and the asynchronous `start`.

The order was: isolates first (every other part leans on them), then the
containers and the process handle, the mailbox below the isolates, the heap,
the scheduler above, then the ports that differ. What could follow, in order of
worth:

1. The consoles with any number of processes on one console; the proofs know
   two, the child and one more.
2. `Arc` with `Array.copyTo` (retain all, release all, move) and immortal
   objects.
3. Copying a graph into a message with its identity table, failure half way,
   and the native copy hooks that recurse before they record.

## 3. How the modules correspond to the code

**Isolate.** `mem`, `count`, `parent`, `mailbox`, `closed`, `boot`, `done` are
the fields of `aisolate`; `native`, `launched`, `joined`, `detached` those of
`thread_native`. A Thread object is a handle with a place (the heap or the
message that contains it) and the isolate it names; all other content is left
out. Every OS thread has a `pc`: `start()` is cut where other threads can see
the difference (copying the Runnable, setting up the counts, `pthread_create`
with both results, the store of `launched` outside the lock), `join()` into
its decision under the global lock and the wait, exit into teardown, detach
decision, last release, decrement of the isolate count. The C recursion
`release -> free -> discard -> release` is the stack `todo` of each thread.
Payloads are acyclic as far as handles go: the handles of a discarded message
die with it (a cycle in a payload would wait for the sweep of the thread that
discarded it).

**Mailbox.** One variable per field; `platform` is the `#ifdef`. On POSIX the
steps are the acquisitions of the mutex and the critical sections, with
spurious wake-ups. On the Amiga a section under `Forbid` is one step and the
sender's `Signal` is a step of its own, after `Permit`; the signal bit stays up
until `Wait` takes it; `AllocSignal` may fail, and then the mailbox is *deaf*
and a waiting take comes back empty. `queue` is a history variable. A thread
that posts to itself is a sender that acts while the owner is idle.

**Arc.** Slots are properties, array elements and statics (slots of the holder
`Class`); kinds are plain classes, classes with a release hook the runtime
knows nothing of, and interface objects, which hold their implementation by
the *local* count. The C stack of a cascade of releases is `stack`, so that
every decrement, unlinking, clearing and free is its own step, in the order of
the code; the program runs when the stack is empty. Lists are sets: the sweep
and the collector may visit in any order, the code's among them. The
collector's hash table is the set `nodes`; its marking loop is the action
`Mark`. `ProgramRoots`, `Reach` (the least set that holds the roots and is closed
under owning) and `before` belong to the property: what could be reached when the
collection began. The mark at exit is not there, since the
statics, its only roots, are released before it. The inline death of an object
without slots and the arenas of `fast` blocks free the same objects in one step
fewer and are not told apart.

**TaskScheduler.** Mailboxes are those of the threads; statics are functions of
the thread. Code of the application (main between two calls, or a task) may
schedule anything. The runners a task makes are its thread's own. `stopAll` is
called by the compiler's start-up code after `main()` (`#runOnExit`), only on
the main thread. A `start()` that fails is left to `Isolate`.

**HashSet, HashMap.** An operation is a step (an object belongs to one thread);
the record holds the class's fields. Keys and values have hashes chosen to
collide. `members`, `removed` and `threw` belong to the properties of the set:
what it should hold, whether something was removed since the slots were last
numbered, and whether the last `add` ran past the end of its arrays.

**RunningProcess.** The handle's fields and the kernel's tables, among them who
holds the other end of the pty or socket pair (`peer`): the child, which may
close its output and live on, or a process it left behind. `Readable` is what
`read` and `poll` agree on: bytes, or the end of file of a socket pair, which
`poll` reports as readable with nothing there (443-444 takes it for a live
child; the read that follows closes the reader). The caller runs the loop of
the capture tests (`ProcessCaptureRegression/Main.aml:98-113`): read, ask
`isAlive`, sleep, until a read is empty and no child is alive; the tests ask
for three such rounds. It is not the loop of the class comment, see section 6.

**Console, Tty\*.** The record `st` is the `rp_state`: its reference count and
whether it is listed, the handler's port, the rings (counted in writes), the two
parking slots `read` and `wait`, the timer, the lock pool, and the flags of the
handle. `queue` is the handler's message port, `locks` what became of the locks
in the pool. A step is a `Forbid()` section; what the section
replies to or signals is gathered in the record `Now` builds, and takes effect
with it. Everybody who acts has a counter: `hpc` the handler process (from its
creation through the packet loop and the timer's tick to its last release),
`cpc` the child and one process the child may start on the same console (each
sends a packet and waits for the reply, closes handles, ends, and the child runs
the exit callback), `mpc` the program's main task. The main task sleeps, polls,
reads, writes, closes, drops the handle and finally shuts everything down; a
wait that `Delay()` bounds may end at any time. What the ports do differently is
in their own modules, each calling on `Alive`, that `isAlive()` says yes while
there is output left: who is told of an end of input, what the handler does with
a packet it cannot serve, whether the callback holds a reference, how often a
dying handler is asked again. `port` in `Tty` says which one runs. A packet
that arrives at a handler which is gone is never answered (`lost`), and
`removed` is a handler that `RemTask` took away. On amigaos `close()` reads the
child's task under `Forbid()` and signals it after `Permit()` (2753-2758): two
steps, between which the child may go.

**SpawnPath, Spawn, Spawn\*.** A call is a record from its entry to its return:
where it stands, what it has open, the locks it took for its child and has not
given away (`locks`: of the drawer its program came from, of the directory, and
those of the path list that is minted for every spawn), its context and its
child. Files are named by the calling task and the
stream, as `temp_path` does, so two calls of one task meet in the same file.
`buffer` and `resolved` are the static buffers; `mixed` marks a call through
whose buffers another one searched meanwhile; a search of `startNative` on
amigaos is run twice, first to see that it finds something (`preflight`).
`OneStdout` is an assumption on the program: `captureStdoutInDir` puts its
command together in a static buffer and must be called on the main process
(amigaos `Process.c:875-877`, morphos 813-815), so one runs at a time. The search is cut where DOS calls
switch tasks: the name as given, then each drawer of the chain, then the path of
the process, then `C:`. `SpawnPath` says which path list that is, from the
process itself, its parent shell, the desktop or any other process.
On AmigaOS the parent sees its child go by looking for a task at its address,
which can meanwhile be somebody else's (`squat`); on MorphOS by looking for a
task of the name it gave it, which the child can change (`Renames`) and other
captured children have too (`FindTask`). `contexts` is the list in which the exit hook of a child looks for
the context of its capture. `Wedges` names the ports where a child may outlast the wait for it.
A `System()` that cannot start its command leaves no child (`Shell`).
Every failure on the way is an alternative of its step, and leads to the exit of
the code with what that exit gives back. `harm` collects what must never happen:
a handle closed by somebody else or twice, a context used that was freed.

## 4. Runs

| run | bounds | shows |
|---|---|---|
| `isolate_safety` | main + 2 workers, 3 handles, 1 message in existence at a time | nine safety and action properties of handles, messages, joins and frees |
| `isolate_liveness` | same; start, join, drop only | joins return, exits complete, unheld isolates are freed |
| `mailbox` | 2 senders, 3 structs, both platforms | list = queue, implements `Channel`, no lost wake-up |
| `heap` | 3 objects, 2 slots each, 1 static, 1 handle per object | exact counts, exact collections, empty at exit |
| `scheduler` | 3 workers, 2 categories, 4 messages | order, nothing lost, shutdown waits and returns |
| `containers` | one of the tables: a set of 3 colliding values, 4 -> 8 buckets, or a map of 3 colliding keys and 2 values, 2 -> 8 buckets | chains, sizes and members of the set between growths; the map implements `Dictionary`, its slots are partitioned |
| `hashset_resurrection` | the same | finding 1 |
| `hashset_churn` | the same | finding 2 |
| `process` | pty and socket pair, 2 descriptors, 2 process numbers, 2 chunks | descriptors, signals, output, the loop ends |
| `consoles` | 3 ports, a child and one more client, ring of 1 write, 1 handle, 1 cached lock, 8 programs | references, packets, parking, wakes, the fate of the child |
| `spawn` | 4 ports, 2 threads, 2 calls, 2 addresses, 1 chunk per stream, 3 systems, 2 drawer lists; on AmigaOS and MorphOS a child may outlast the wait | captures, ownership, leftovers, the order of the search |
| `morphos_capture_cut` | the same, on MorphOS | finding 3 |

Why the bounds are enough for what is asked. A race in the life of an isolate
is among its creator, itself and one third party: three isolates. Three handles
let one name the isolate, one travel in a message and one be dropped by
somebody else; one message at a time still meets every phase of its receiver,
and two queued ones are the `Mailbox` module's business. In the heap, two
objects make a cycle and one more is its outside owner, its native neighbour or
the interface in between; two slots let an object be held twice by one holder
and link a cycle while hanging on to a third. One growth is enough to renumber
slots, and the tables are smaller than in the code (1024 buckets) so that it
happens. Four messages and three workers contain a runner made by a task, a
message put back twice and a task that schedules itself. In the mailbox three
structs give a queue of two while a third is in a sender's hands, and reuse.

In the consoles a ring of one write is full and empty within reach of each
other. The parking slots belong to the packets, so what matters is which packets
two clients can mix: `MCAsks` lists eight programs, each a pair of kinds that
meet in one mechanism (reads against the end of input, a wait against the poll,
two readers for one slot, two waits for one timer, writes against the probe,
locks, modes, a new open). Its `View` does not tell apart what nothing reads any
more: the pool in programs whose clients ask for no lock, which lock went where,
and signals to an event loop that has ended.
One round of the shutdown's second attempt is one more than none. In `spawn` two
calls overlap on two threads or follow each other on one, and an address comes
back after a child. The searches are long and do not
interact but through the static buffers: `Bounded` lets calls overlap where the
search ends at the first place (`Bare`), and takes the long searches
(`FromShell`, `FromIcon`) with one call between whose steps the drawers may be
set. The `View` of `MCSpawn` leaves out of a call what neither a later step nor a property reads:
the child's name too where the wait may end whatever the looks saw, and its
address on the ports that never look at it.

What the properties of `spawn` leave out. `GaveUp`: a capture of AmigaOS whose
wait gave up says so in its text and leaves files, context and error handle to
the child. `Cut`: a capture of MorphOS that did not see its child go is finding
3, and the damage is limited to it: `WholeOrMarked` and `NoHarm` except that call
and its own child, nobody else's. With `Wedges = {}` `CapturesComplete` is violated
as well, by a child that renames itself. `Kept`: the locks that a failed spawn
keeps, see section 6. `blind`: a read that failed. `unopened`: a capture whose
files could not all be opened leaves those that were. `mixed`: a search into
whose static buffers another one wrote; the code promises nothing to either.

The named bounds: `Worker`, `Handle`, `Msg` (isolates); `Msg` (mailbox); `Obj`,
`MaxLocals` (heap); `Worker`, `MaxMessages` (scheduler); `MaxBuckets`,
`MaxSetBuckets` and the constraint `FewSlots` (collections); `Fd`, `Pid`, `MaxOutput` (process);
`Ring`, `Handles`, `Slot`, `Rounds`, `Asks` (consoles); `Threads`, `Calls`,
`Addrs`, `Chunks`, `Systems`, `Dirs`, `Bounded` (spawn).

Deadlock checking is off for the isolate runs, where threads that wait for
messages nobody sends, or join each other, are legal programs, and for
`consoles` and `spawn`, whose programs simply come to their end. Elsewhere it
is on.

Symmetry is used in `isolate_safety`, `heap` and the `spawn` runs, where the
constants permuted are not told apart by any property and nothing temporal is
checked beyond single steps.

Fairness. `isolate_liveness`: weak fairness of the runtime steps of each OS
thread, which is what the operating system's scheduler gives a runnable
thread; nothing is assumed of the program, which may stop calling.
`mailbox`: weak fairness of a begun call, strong fairness of the mutex, since
an acquisition may be overtaken again and again but not for ever. `scheduler`:
weak fairness of each worker (its tasks return) and of `stopAll`; the
documentation says that a task which does not return holds the exit.
`process`: weak fairness of the caller's loop only, which goes on until it is
over; the child need not run, and may leave the other end to others for ever.
The other runs check safety and assume none. In `consoles` what would be a
liveness property (a sleeping event loop is woken, a parked packet is answered)
is stated as the invariant that somebody is still there to do it, because
the child is a program that may never act.

Each property of a passing run is broken by a mutant of one of the definitions
(`PROJECT.json`, "mutants"): a guard, a reset or a count that is left out.

## 5. Proofs

All theorems hold for any finite sets of workers, handles, objects and statics,
any number of slots, any messages and senders, any descriptor and process
numbers, any keys and values with any hash (infinitely many too) and any sizes
of tables and factors of growth. The assumptions are the named ones of the
modules (finite sets, distinct constants, a table that grows when it should).

`IsolateProofs`, first part: `Spec => []IInv`, and from it `TypeOK`, `CountExact`,
`NoUseAfterFree` and `FreedAfterDone`. `CountExact` is not inductive. To see
that a decrement hits a live isolate one must know that every handle has a place
as long as it names something (`PlacedInv`), that only live structs have holders
(`LiveInv`), that a free in progress is the only one on its isolate and nobody
holds it (`FreeInv`), that a running thread is covered by its own count until its
last release (`ThreadInv`), that the operand of an operation stays where it was
(`OperandInv`), that a thread being created has one creator (`CreationInv`) and
that a finished thread's mailbox stays closed and empty (`FinishedInv`) --
without it, a thread freeing its own isolate could open a message in a heap
that is gone.

Second part: `ExitInv` beside `IInv`, and from it `TeardownComplete`,
`JoinXorDetach`, `SingleThreadShortcut` and `JoinWaits`. Its parts: a finished
thread has no object left, and a message is under construction only during a
copy (`HeapInv`); one joiner at most has claimed a thread, only one that did not
detach itself, and a thread past its decision is one or the other (`ClaimInv`);
the isolate count is one more than the workers between their creation and their
last action (`CountedInv`), which is why "count is one" means that nobody else is
left.

Third part: `MessageOwnedOnce`. A message is in a mailbox, is the
boot message of an isolate, is being built, or is being discarded. The
invariant `OwnedInv` says that each kind of place holds it once (`QueuedOnce`,
`BootedOnce`, `BuiltOnce`, `DoomedOnce`), that no two kinds hold the same
(`OneOwnerInv`) and that together they hold exactly the messages in use
(`OwnersInv`). `UnbootedInv`, that an isolate whose creation is not that far has
no boot message, is what makes the store of the boot message overwrite nothing.

With these, every safety property of `isolate_safety` is a theorem.

`MailboxProofs`, on both platforms: the list is the queue (`MailboxSound`) and
`Mailbox` implements `Channel`. `ListIsQueue` is not inductive: an append keeps
the list free of repetitions only if the sender holds a struct nobody else has
(`PostersOwn`), and a take that comes back empty refines `TakeNothing` only if
the owner had bound the mailbox before it used it (`BoundBeforeUse`). Every step
is mapped to a post, a take, an empty take, the close, the loss of the signal,
or a stutter.

`RunningProcessProofs`: `ReaderOwned`, `CloseKillsOnlyChild` and
`AllOutputRead`. Numbers are safe to use only as long as they name what they
named: a child the handle takes for alive is there or a zombie, and it is the
only child (`ChildInv`). For the loop, a reader that was closed had nothing more
to give: it is closed only when nothing is left in the pipe and nobody holds its
other end (`OutputInv`); and the loop is over only when `poll` said that a child
that is gone left nothing to read.

The same module proves all six properties of `consoles` on each of the three
ports, for any size of the rings, number of handles, lock slots and rounds of the
shutdown, and whatever the clients ask. The inductive invariant `ConsoleInv` has a
part for each thing that is shared. None of the properties is inductive:

* `NoUseAfterFree` needs to know how many are on their way to free the state
  (`Freers`): one exactly while it is live and without a reference, nobody
  otherwise (`RefsInv`). Two decrements may meet zero only if a count is wrong, so
  the count is taken apart into who holds what at each place of the program
  (`HandleInv`, `PinsInv`, `LifeInv`); `RefsExact` is the sum.
* `PacketsConserved` counts; `QueueInv` says instead that a client has one packet
  in the port at most, and that of the port and the two parking slots exactly one
  has the packet of a client that waits. A section is *balanced* when whoever
  had a packet in one of the places it empties is answered or parked again.
* `ParkedAndServed` holds after a section because of what a section does before
  it parks; between sections it needs that a timer ends only what was asked for
  (`AsksInv`) and where the handler stands with the timer (`ParkInv`).
* `NoLostWake` needs the step before sleeping: a loop that polled everything and
  was not signalled since has left nothing in the ring (`WakeInv`).
* `ChildNotStranded` needs that a handler leaves only when told to, and on amigaos
  only when no child is left or close() has given up (`EndInv`).

A section of the handler is looked at once, whichever port it is on: `SectionStep`
says which parts of the invariant a section keeps when it keeps the state, is
balanced, takes from the port what it answers and signals what it changed;
`ServedStep`, `EndedStep` and `DrainStep` apply it to a served packet, to an end of
input and to the end of the handler. The instances of a port do what `Console`
does (`AmigaOps`, `AmigaHandler`, `AmigaMain` and those of the other ports), so the
proof of a step is given once and cited for each port.

`ArcProofs`: `CountsAreExact` (`CountsOwners`), `CollectionIsExact`
(`CollectExact`) and `ExitIsEmpty` (`ExitEmpties`), all three from one invariant,
`IInv`, of the interleaving of cascades with list walks. `CountsOwners` is not
inductive. A decrement is safe only if the object on top of the stack of
releases is owned or being ended: the stack has one frame for each end under way
(`Shape`), an object is pending exactly when it is detached or a frame ends it
(`EndInv`), one with a count of zero is being ended (`DyingInv`), and a slot
holds only what still exists (`StoreInv`). For collections the argument is about counts: an
object whose count the edges inside the graph explain has no owner outside it
(`OutsideHeld`, `OwnersInside`). So when the marking is done the live set is
closed, everything in it is reachable, and what is left is held by nothing but
itself (`MarkInv`); while the cut goes on only garbage owns garbage, and what
the program uses holds itself up without it (`CutInv`), so the cascade that frees
the garbage ends with the garbage gone (`GarbageGone`) and nothing else
(`UsedAlone`). The sweep at exit needs that the releases of a pass leave no
wrapper for the next (`SweepInv`).

`ChainProofs`: what a walk along the links returns. A sequence of slots without
repetitions, each linked to the next and the last to 0, is the chain (`ListsAre`);
so a proof about a changed link exhibits the new sequences instead of following
the recursion. `Push`, `DropFirst` and `DropLater` say what becomes of every chain
of a table when a slot is put before one, or its head or a later slot leaves it;
`ChainsInLine` that the chains one after the other list every linked slot once. The
library's induction theorems take an operator and cannot be used; `UpTo` proves
the one induction over numbers needed from a set that holds 0 and is closed under
successors, and with it that `Walk`, `Grown` and the community modules'
`FlattenSeq` obey their recursions.

`HashMapProofs`: `SlotsPartitioned`, `HighWaterMark` and `ImplementsDictionary`,
from the inductive invariant `Good`. The array of links serves the chains and the
free list, so `Heads` takes the free list as one more bucket, and `Sound` says of
all of them at once that they end and share no slot. Beside it: together they are
the slots handed out, a live slot lies in the bucket of its key and no key has
two (`Entered`), a vacated one holds nothing (`Vacated`). `SlotsPartitioned` alone
is not inductive: without `Entered` a key could be found in no bucket and be
entered twice. Growth goes by induction over the list of live slots (`Filled`):
after i steps the new table is good, has no free list and stands for the first i
entries. Each operation is mapped to the step of `Dictionary` on `DictOf`, the
function the table stands for.

`HashSetProofs`: `ChainsSound`, `NothingLost` and `ExactBetweenGrowths`. Slots are
not given back, so the invariant `IInv` relates those handed out to those chained:
until a removal they are the same (`~removed => size = currentValueIndex`).
Hence growth resurrects nothing until then (finding 1 is what it does after).
`NothingLost` needs no such condition: an old value re-enters the table beside the
members, and an `add()` that finds no slot (finding 2) changes no chain.

`TaskSchedulerProofs`: `MessagesAreKept` (`MessagesKept`) and
`RunnersStopAfterTasks` (`StoppedAfterTasks`), for any workers, categories and
number of messages. That what a thread has started and what waits in its mailbox
are together what was submitted to it, in that order (`OrderInv`), is inductive
with the types. `StoppedAfterTasks` follows from it only if a runner that ends
leaves no task behind: its stop message is the last it ever gets (`StopOf`), since
a runner belongs to the thread that made it, in one place of one list (`RunnerInv`),
whoever executes application code sends main tasks to the main thread and no
other (`MainInv`), and the main thread has stopped executing it by then. For the
other messages, `RawInv` gives each one place, in the main thread's mailbox or
among those from `i` on that are still to be put back; each step of the drain
moves one place and shares none. `TaskNumbers` is a recursive function, so
that what an append or a take does to it can be proved (`NumbersAppend`,
`NumbersTail`).

Only model-checked: all liveness properties (the prover handles neither
fairness nor `ENABLED`); the commands.

## 6. Findings

With a run:

1. A removed value comes back (`hashset_resurrection`). `HashSet` grows by
   entering every slot it ever handed out, those of removed values included
   (`HashSet.aml:121`). `HashMap.aml:152-156` describes the same defect as fixed
   there.
2. A set that runs out of slots (`hashset_churn`). Each `add` of a new value
   spends a slot (`HashSet.aml:149`) and `remove` gives none back, but growth is
   decided by the number of values (106): with adds and removes in turn the
   slots end before the set grows, and `add()` throws. `HashSet.aml:8-10` and
   188-189 say that such churn makes the arrays grow.
3. A capture that stops waiting (`morphos_capture_cut`). On MorphOS
   `runAndCapture` looks 600 times, two ticks apart, for a task by the name it
   gave its child (`Process.c:439-451`, 669-681). When the looks are used up, or
   at the first look when the child has renamed its task, it closes the error
   handle under a child that still runs (454, 683), reads the files and returns
   what is there, unmarked. `Process.aml:26` says it waits for the command to
   finish. The AmigaOS port gives up too, but says so in the text it returns; it
   goes by the address, because names do not identify a child (its
   `Process.c:229-230`, 267-268), and its tests run one that renames itself
   (`tests/amigaos-process-capture/child.c:50-63`).

Seen while modelling, without a run of their own; the models follow the code:

* `join()` after a failed `pthread_create` polls `done` for ever
  (`libc Thread.c:217-224`); the comment there says the wait is for another
  joiner or a detached worker.
* At end of file the reader closes the pty master and clears its own slot; the
  writer slot keeps the number, which `close()` closes again
  (`libc RunningProcess.c:309` against the comment at 92-93).
* The loop of the class comment, `while (p.isAlive() || p.tryReadOutput().length()
  > 0)` around a `sleep` (`RunningProcess.aml:10-13`), reads only when `isAlive()`
  says no. On libc `isAlive()` says yes while there is something to read
  (`RunningProcess.c:443-444`, in binary mode also at the end of file), so when
  the child leaves bytes behind, or in binary mode when it just ends, this loop
  goes round for ever; the comment of `isAlive()` (71-75) has it true "once more".
  On the Amiga family the same holds while there is output in the ring. A
  loop that reads in its body, as the tests' does, ends (`LoopEnds`).
* `handleMainTasks()` runs tasks scheduled while it drains
  (`TaskScheduler.aml:76-87`), where the comment says on the next call.
* amigaos `RunningProcess.c`: `rp_handler_die` reads `handler_port` twice (1656,
  1673), between which the handler may clear it, against the comment at 1032
  (`mpc = "crashed"`); `close()` closes pool locks outside `Forbid` (2733);
  `rp_startnative_teardown` is never called, though the comment at 507-513 says
  it is called at every failure of `startNative`.
* Locks that a failed spawn keeps (`Kept`): on both ports the path list minted for the
  child, which the comments of the blocking calls give a reason for (amigaos
  `Process.c:66-67`, 883-884, morphos 74-76: whether ownership went over is not
  known, "leaking a lock beats a double free") and the captures and `startNative`
  do without one (morphos `Process.c:385` and 428-436, 618 and 657-667, morphos
  `RunningProcess.c:1518`); on amigaos `startNative` also those of the drawer and the
  directory (2401-2409), which the morphos one gives back (1584-1587).
* morphos `Process.c` replaces `cli_CommandName` of the child by a static buffer
  (416-423, 645-652), of which the amigaos port says "DOS frees it on exit"
  (1074-1075); what the system does with it is outside the model.
* amigaos and morphos `RunningProcess.c`: a second WAIT_CHAR or poll in the same
  batch collects the finished timer of a parked one (amigaos 1222-1226, morphos
  790-794) before the handler loop answers it, and the parked one then waits for
  input or the end, against the comment at amigaos 207-210 (the timer firing
  replies DOSFALSE); `ParkedAndServed` excepts programs in which both clients
  wait.
* aros `RunningProcess.c`: the exit callback uses an `rp_state` it holds no
  reference to (884) and does not answer a parked READ (889-890); the close of
  the last handle wakes nobody, so an event loop learns of it only at the exit.
* morphos `RunningProcess.c`: `isAlive` closes the input without answering what
  is parked (1846-1847), which `ParkedAndServed` excepts.
* amigaos `Process.c`: captures pass no path to the child, though the comment
  of `setSpawnSearchPath` says that each child gets it as a real path list; the
  static buffers are shared by all threads (`mixed`); a capture that gives up
  leaves its error file open.
* When the captured file cannot be read back, or memory runs out, the text comes
  back short without a word (`blind`); on libc the rest of a line
  behind a NUL byte is dropped.

## 7. Not modelled

Files, sockets and terminals are thin layers over the operating system; the
formatting and parsing of strings, numbers and dates, lists, trees and memory
streams are sequential code that keeps no state across threads and is within
reach of unit tests. Reflection reads tables the compiler writes; the compiler
and the code it generates are not in the repository, and their retains and
releases are modelled as the runtime functions they must call. Continuations
resume frames only the compiler can describe. `Weak.c` belongs to no AmLang
class and calls functions the repository does not define. The arenas are an
allocator.

Of the components that are modelled: copying a graph into a message is one step
that yields a message with handles (its failure half way and the identity table
are hazards without a property), array copies and immortal objects are left out
of the heap, and in the commands and consoles the values of exit codes, the text
of failure reports, `canonicalPath`, `getCwd`, window and stack sizes and the
trace log. The path list that a program without one borrows from another process is
held constant while it is walked; the code walks it after `Permit()`
(`amiga.c:262-275`, 326-341), when its owner may change it. The Amiga-family threads, mutexes, files and sockets repeat the
operations of libc over other system calls.
