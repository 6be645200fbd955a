------------------------------ MODULE Console ------------------------------
(***************************************************************************)
(* What the three Amiga-family ports of Am.Lang.RunningProcess share: a     *)
(* child behind a console handler, a process of the program that answers    *)
(* the child's DOS packets out of an rp_state it shares with the program's  *)
(* main task.  A Forbid() section is one step; what lies between two of     *)
(* them interleaves with everybody else, and a wait that Delay() bounds may *)
(* end at any time.  Packets are synchronous: a sender waits for its reply. *)
(***************************************************************************)
EXTENDS Integers, Sequences, FiniteSets

CONSTANTS
  Ring,      \* RP_RING_SIZE, in writes
  Handles,   \* standard handles the child is given (3 in the code)
  Slot,      \* the slots of cached_locks
  Rounds,    \* RP_SHUTDOWN_REDIE_ROUNDS
  Asks       \* programs: the packets each client may send

Child  == "child"
Other  == "other"     \* a process the child started on the same console
Client == {Child, Other}
None   == "none"
Packet == {"READ", "WRITE", "PROBE", "WAIT", "POLL", "OPEN", "END", "RAW", "COOKED", "LOCK", "QUERY"}
Die    == [type |-> "DIE", from |-> None]     \* the ACTION_DIE of the program itself

ASSUME ConsoleAssumption ==
  /\ Ring \in Nat \ {0} /\ Handles \in Nat \ {0} /\ Rounds \in Nat
  /\ Slot \subseteq Nat /\ IsFiniteSet(Slot)
  /\ Asks \subseteq [Client -> SUBSET Packet]

VARIABLES
  st,      \* the rp_state
  queue,   \* the handler's pr_MsgPort
  hpc,     \* where the handler process stands
  cpc,     \* where each client stands
  held,    \* handles each client still has to close
  mpc,     \* where the main task stands
  back,    \* where it goes on after rp_handler_die or a free
  prog,    \* what else the program keeps, see ConsoleInit
  locks    \* what became of the locks of the pool

consoleVars == <<st, queue, hpc, cpc, held, mpc, back, prog, locks>>

ConsoleInit ==
  /\ st = [mem |-> "none", refs |-> 0, listed |-> FALSE, port |-> FALSE,
           in |-> 0, out |-> 0, closed |-> FALSE, opens |-> 0, any |-> FALSE,
           read |-> None, wait |-> None, timer |-> "none", raw |-> FALSE, pool |-> {},
           exited |-> FALSE, task |-> FALSE, shutdown |-> FALSE, force |-> FALSE]
  /\ queue = <<>> /\ hpc = "off"
  /\ cpc = [c \in Client |-> "off"] /\ held = [c \in Client |-> 0]
  /\ mpc = "new" /\ back = "new"
  /\ \E a \in Asks :
       prog = [asks   |-> a,       \* what the clients' programs send
               state  |-> FALSE,   \* d->state is set
               wake   |-> FALSE,   \* g_wake_task is set
               sig    |-> FALSE,   \* and its signal pending
               live   |-> 0,       \* g_live_handler_count
               pins   |-> {},      \* references shutdownAllNative holds
               rounds |-> 0]       \* its rounds so far
  /\ locks = [client   |-> {},     \* given to who asked for them
              unlocked |-> {},     \* unlocked by close()
              slot     |-> {}]     \* the one close() is about to unlock

-----------------------------------------------------------------------------
(* Effects of one Forbid() section: the rp_state it leaves, the clients     *)
(* whose packets it replies to, and whether it signals the main task.       *)

Now == [st |-> st, replies |-> {}, wake |-> FALSE]

Reply(w, c) == [w EXCEPT !.replies = @ \cup {c}]

rp_push(n) == IF n < Ring THEN n + 1 ELSE n
rp_pop(n)  == IF n > 0 THEN n - 1 ELSE n

\* Mutant of Unparks: what has been typed does not end a parked packet.
UnparksAtEnd(s) == s.closed \/ s.shutdown

\* Input, end of input or a shutdown ends a parked read or wait.
Unparks(s) == s.in > 0 \/ s.closed \/ s.shutdown

\* Mutant of FulfilRead: the packet that was answered stays parked.
FulfilReadKeeps(w) ==
  IF w.st.read = None \/ ~Unparks(w.st) THEN w
  ELSE [Reply(w, w.st.read) EXCEPT !.st.in = rp_pop(@)]

FulfilRead(w) ==
  IF w.st.read = None \/ ~Unparks(w.st) THEN w
  ELSE [Reply(w, w.st.read) EXCEPT !.st.read = None, !.st.in = rp_pop(@)]

FulfilWait(w) ==
  IF w.st.wait = None \/ ~Unparks(w.st) THEN w
  ELSE [Reply(w, w.st.wait) EXCEPT !.st.wait = None, !.st.timer = IF @ = "running" THEN "done" ELSE @]

Read(w, c) ==
  IF w.st.in > 0 THEN [Reply(w, c) EXCEPT !.st.in = rp_pop(@)]
  ELSE IF w.st.closed \/ w.st.raw THEN Reply(w, c)
  ELSE IF w.st.read = None THEN [w EXCEPT !.st.read = c]
  ELSE [Reply(w, w.st.read) EXCEPT !.st.read = c]

\* Mutant of Write: the main task is not told of the output.
WriteSilent(w, c) == [Reply(w, c) EXCEPT !.st.out = rp_push(@)]

Write(w, c) == [Reply(w, c) EXCEPT !.st.out = rp_push(@), !.wake = TRUE]

\* A finished timer request is reclaimed first, so that this wait can have it.
WaitChar(w, c, long) ==
  LET s == IF w.st.timer = "done" THEN [w EXCEPT !.st.timer = "idle"] ELSE w
  IN IF s.st.in = 0 /\ ~s.st.closed /\ s.st.timer = "idle" /\ s.st.wait = None /\ long
     THEN [s EXCEPT !.st.wait = c, !.st.timer = "running"]
     ELSE Reply(s, c)

EndReads(w) == IF w.st.read = None THEN w ELSE [Reply(w, w.st.read) EXCEPT !.st.read = None]
EndWaits(w) == IF w.st.wait = None THEN w ELSE [Reply(w, w.st.wait) EXCEPT !.st.wait = None]

Resumed(pc) == IF pc = "wait" THEN "run" ELSE IF pc = "cwait" THEN "closing" ELSE pc

\* A signal reaches the main task when a wake target is set.
Signalled(p) == IF p.wake THEN [p EXCEPT !.sig = TRUE] ELSE p

Commit(w) ==
  /\ st' = w.st
  /\ cpc' = [c \in Client |-> IF c \in w.replies THEN Resumed(cpc[c]) ELSE cpc[c]]
  /\ prog' = IF w.wake THEN Signalled(prog) ELSE prog

Freed(s)    == [s EXCEPT !.mem = "freed", !.listed = FALSE]
Released(s) == [s EXCEPT !.refs = @ - 1]
Pinned(s)   == [s EXCEPT !.refs = @ + 1]

-----------------------------------------------------------------------------
(* The clients.                                                             *)

PortExists == hpc \notin {"off", "gone", "removed"}
TaskExists(c) == cpc[c] \notin {"off", "gone"}

\* A packet for a handler that is gone lands in freed memory: its sender is lost.
Post(c, t, pc) ==
  /\ cpc' = [cpc EXCEPT ![c] = IF PortExists THEN pc ELSE "lost"]
  /\ queue' = IF PortExists THEN Append(queue, [type |-> t, from |-> c]) ELSE queue

Ask(c, t) ==
  /\ cpc[c] = "run" /\ t \in prog.asks[c] \ {"END"}
  /\ t = "OPEN" => held[c] < Handles
  /\ Post(c, t, "wait")
  /\ UNCHANGED <<st, hpc, held, mpc, back, prog, locks>>

CloseHandle(c) ==
  /\ held[c] > 0
  /\ \/ cpc[c] = "run" /\ "END" \in prog.asks[c] /\ Post(c, "END", "wait")
     \/ cpc[c] = "closing" /\ Post(c, "END", "cwait")
  /\ held' = [held EXCEPT ![c] = @ - 1]
  /\ UNCHANGED <<st, hpc, mpc, back, prog, locks>>

Spawn ==
  /\ cpc[Child] = "run" /\ cpc[Other] = "off" /\ prog.asks[Other] # {}
  /\ cpc' = [cpc EXCEPT ![Other] = "run"]
  /\ UNCHANGED <<st, queue, hpc, held, mpc, back, prog, locks>>

\* DOS closes what handles are left and removes the process.
Go(c, from, to) ==
  /\ cpc[c] = from /\ cpc' = [cpc EXCEPT ![c] = to]
  /\ UNCHANGED <<queue, hpc, held, mpc, back, locks>>

Leave(c) ==
  /\ \/ c = Child /\ Go(c, "run", "exit")
     \/ c = Other /\ Go(c, "run", "closing")
     \/ held[c] = 0 /\ Go(c, "closing", "gone")
  /\ UNCHANGED <<st, prog>>

TimerExpires ==
  /\ st.timer = "running"
  /\ st' = [st EXCEPT !.timer = "done"]
  /\ UNCHANGED <<queue, hpc, cpc, held, mpc, back, prog, locks>>

Clients ==
  \/ \E c \in Client : CloseHandle(c) \/ Leave(c) \/ \E t \in Packet : Ask(c, t)
  \/ Spawn
  \/ TimerExpires

-----------------------------------------------------------------------------
(* The handler process.                                                     *)

Asker == Head(queue).from

Handler(from, to) == hpc = from /\ hpc' = to /\ UNCHANGED <<held, mpc, back, locks>>

Entry(timers) ==
  /\ Handler("entry", "wait")
  /\ \E t \in timers : st' = [st EXCEPT !.timer = t]
  /\ UNCHANGED <<queue, cpc, prog>>

WakeByTimer ==
  /\ st.timer = "done" /\ Handler("wait", "tick")
  /\ st' = [st EXCEPT !.timer = "idle"]
  /\ UNCHANGED <<queue, cpc, prog>>

Tick == Handler("tick", "serve") /\ Commit(EndWaits(Now)) /\ UNCHANGED queue

WakeByPacket ==
  /\ st.timer # "done" /\ queue # <<>> /\ Handler("wait", "serve")
  /\ UNCHANGED <<st, queue, cpc, prog>>

SleepAgain ==
  /\ queue = <<>> /\ Handler("serve", "wait")
  /\ UNCHANGED <<st, queue, cpc, prog>>

Serving(t) == hpc = "serve" /\ queue # <<>> /\ Head(queue).type = t /\ ~st.shutdown
Stopping   == hpc = "serve" /\ queue # <<>> /\ st.shutdown

Served(w) == Commit(w) /\ queue' = Tail(queue) /\ UNCHANGED <<hpc, held, mpc, back, locks>>

OpenHandle ==
  /\ Serving("OPEN")
  /\ Commit([Reply(Now, Asker) EXCEPT !.st.opens = @ + 1, !.st.any = TRUE])
  /\ queue' = Tail(queue)
  /\ held' = [held EXCEPT ![Asker] = @ + 1]
  /\ UNCHANGED <<hpc, mpc, back, locks>>

\* The first lock left in the pool becomes the requester's.
First(S) == CHOOSE s \in S : \A t \in S : s <= t

GrantLock ==
  /\ Serving("LOCK")
  /\ LET p == IF st.exited THEN {} ELSE st.pool
     IN IF p = {} THEN Commit(Reply(Now, Asker)) /\ UNCHANGED locks
        ELSE /\ Commit([Reply(Now, Asker) EXCEPT !.st.pool = @ \ {First(p)}])
             /\ locks' = [locks EXCEPT !.client = @ \cup {First(p)}]
  /\ queue' = Tail(queue)
  /\ UNCHANGED <<hpc, held, mpc, back>>

Senders == {queue[i].from : i \in DOMAIN queue} \ {None}

\* The packets the program sent itself.
OwnPackets == [i \in 1 .. Cardinality({j \in DOMAIN queue : queue[j] = Die}) |-> Die]

\* All that is queued is answered, and the handler goes.
Drain(w, left, to) ==
  /\ Commit(w) /\ queue' = left /\ hpc' = to
  /\ UNCHANGED <<held, mpc, back, locks>>

EndTimer ==
  /\ Handler("teardown", "final")
  /\ st' = [st EXCEPT !.timer = "none"]
  /\ UNCHANGED <<queue, cpc, prog>>

\* The last section: parked packets are answered, the port is withdrawn.
HandlerFinal ==
  /\ Handler("final", "release") /\ UNCHANGED queue
  /\ LET w == EndReads(EndWaits(Now))
     IN /\ st' = [w.st EXCEPT !.port = FALSE]
        /\ cpc' = [c \in Client |-> IF c \in w.replies THEN Resumed(cpc[c]) ELSE cpc[c]]
  /\ prog' = [prog EXCEPT !.live = @ - 1]

HandlerRelease ==
  /\ Handler("release", IF st.refs = 1 THEN "free" ELSE "gone")
  /\ st' = Released(st)
  /\ UNCHANGED <<queue, cpc, prog>>

HandlerFree == Handler("free", "gone") /\ st' = Freed(st) /\ UNCHANGED <<queue, cpc, prog>>

-----------------------------------------------------------------------------
(* The main task.                                                           *)

Main(from, to) == mpc = from /\ mpc' = to /\ UNCHANGED <<held, hpc>>

StartState ==
  /\ Main("state", "handler")
  /\ st' = [st EXCEPT !.mem = "live", !.refs = 1]
  /\ prog' = [prog EXCEPT !.state = TRUE]
  /\ UNCHANGED <<queue, cpc, back, locks>>

\* Mutant of StartHandler: the handler's reference is not counted.
StartHandlerUncounted ==
  /\ mpc = "handler" /\ mpc' = "handles" /\ hpc' = "entry"
  /\ st' = [st EXCEPT !.listed = TRUE, !.port = TRUE]
  /\ prog' = [prog EXCEPT !.live = @ + 1]
  /\ UNCHANGED <<queue, cpc, held, back, locks>>

StartHandler ==
  /\ mpc = "handler" /\ mpc' = "handles" /\ hpc' = "entry"
  /\ st' = [Pinned(st) EXCEPT !.listed = TRUE, !.port = TRUE]
  /\ prog' = [prog EXCEPT !.live = @ + 1]
  /\ UNCHANGED <<queue, cpc, held, back, locks>>

StartHandles(next) ==
  /\ Main("handles", next)
  /\ st' = [st EXCEPT !.opens = Handles, !.any = TRUE]
  /\ UNCHANGED <<queue, cpc, back, prog, locks>>

StartPool ==
  /\ Main("pool", "load")
  /\ \E p \in {{}, Slot} : st' = [st EXCEPT !.pool = p]
  /\ UNCHANGED <<queue, cpc, back, prog, locks>>

StartLoad == Main("load", "child") /\ UNCHANGED <<st, queue, cpc, back, prog, locks>>

\* child_task is recorded where the port keeps one.
StartChild(task) ==
  /\ mpc = "child" /\ mpc' = "idle"
  /\ cpc' = [cpc EXCEPT ![Child] = "run"]
  /\ held' = [held EXCEPT ![Child] = Handles]
  /\ st' = [st EXCEPT !.task = task]
  /\ UNCHANGED <<queue, hpc, back, prog, locks>>

\* An exception: what was built so far stays until the handle is released.
StartFails ==
  /\ \E s \in {"state", "handler", "handles", "load", "child"} : Main(s, "failed")
  /\ UNCHANGED <<st, queue, cpc, back, prog, locks>>

\* The event loop reads until there is nothing, asks isAlive(), and waits.
ReadOutput ==
  /\ Main("idle", IF st.out = 0 THEN "polled" ELSE "idle")
  /\ st' = [st EXCEPT !.out = rp_pop(@)]
  /\ UNCHANGED <<queue, cpc, back, prog, locks>>

Polled == IF prog.wake THEN "asleep" ELSE "idle"

\* isAlive() says no once the child has exited and no output is left.
Alive(s) == ~s.exited \/ s.out > 0

EventArrives ==
  /\ Main("asleep", "idle")
  /\ prog' \in {prog, [prog EXCEPT !.sig = FALSE]}
  /\ UNCHANGED <<st, queue, cpc, back, locks>>

CheckInput == ~st.exited /\ Main("idle", "input") /\ UNCHANGED <<st, queue, cpc, back, prog, locks>>

\* The bytes go into the input ring; w is what the port makes of that.
Typed == [Now EXCEPT !.st.in = rp_push(@)]

PushInput(w) ==
  /\ Main("input", "idle")
  /\ Commit(w)
  /\ UNCHANGED <<queue, back, locks>>

\* Ctrl-C: a child that runs may stop for it, one that waits sees it later.
Interrupt ==
  cpc' \in IF cpc[Child] = "run" THEN {cpc, [cpc EXCEPT ![Child] = "exit"]} ELSE {cpc}

Terminate ==
  /\ ~st.exited /\ st.task /\ Main("idle", "idle") /\ Interrupt
  /\ UNCHANGED <<st, queue, back, prog, locks>>

\* Called by the program before it starts its child.
setGlobalWake ==
  /\ Main("new", "new")
  /\ prog' = [prog EXCEPT !.wake = TRUE]
  /\ UNCHANGED <<st, queue, cpc, back, locks>>

\* rp_handler_die: look at handler_port, ask for the shutdown, post an ACTION_DIE.
HandlerDie(from, to) == mpc = from /\ mpc' = "die" /\ back' = to /\ UNCHANGED <<queue, hpc, cpc, held, locks>>

DieCheck ==
  /\ Main("die", IF st.port THEN "put" ELSE back)
  /\ st' = [st EXCEPT !.shutdown = st.port \/ @]
  /\ UNCHANGED <<queue, cpc, back, prog, locks>>

\* Without memory for the packet the handler is left to find out for itself.
DiePut ==
  /\ \/ Main("put", back) /\ UNCHANGED queue
     \/ /\ Main("put", IF st.port THEN back ELSE "crashed")
        /\ queue' = IF st.port THEN Append(queue, Die) ELSE queue
  /\ UNCHANGED <<st, cpc, back, prog, locks>>

\* The handle gives up its reference, and frees the state when it was the last.
ReleaseState(from, to) ==
  /\ mpc = from /\ mpc' = (IF st.refs = 1 THEN "free" ELSE to) /\ back' = to
  /\ st' = Released(st)
  /\ UNCHANGED <<queue, hpc, cpc, held, locks>>

ReleaseHandle ==
  /\ ReleaseState("closing", "closed") \/ ReleaseState("dropping", "dropped")
  /\ prog' = [prog EXCEPT !.state = FALSE]

MainFree == Main("free", back) /\ st' = Freed(st) /\ UNCHANGED <<queue, cpc, back, prog, locks>>

\* Locks nobody asked for, one slot at a time and not under Forbid().
UnlockLook(to) ==
  /\ mpc = "unlock"
  /\ IF st.pool = {} THEN mpc' = to /\ UNCHANGED locks
     ELSE mpc' = "unlock2" /\ locks' = [locks EXCEPT !.slot = {First(st.pool)}]
  /\ UNCHANGED <<st, queue, hpc, cpc, held, back, prog>>

UnlockSlot ==
  /\ Main("unlock2", "unlock")
  /\ st' = [st EXCEPT !.pool = @ \ locks.slot]
  /\ locks' = [locks EXCEPT !.unlocked = @ \cup locks.slot, !.slot = {}]
  /\ UNCHANGED <<queue, cpc, back, prog>>

AtRest == {"idle", "asleep", "failed", "closed", "dropped"}

\* What rp_handler_die and the list walk of the ports without pins come to.
SweepOnce ==
  /\ prog.live > 0 /\ \E pc \in AtRest :
       IF st.listed /\ st.port THEN HandlerDie(pc, "exit")
       ELSE Main(pc, "exit") /\ UNCHANGED <<queue, cpc, back, locks>>
  /\ st' = [st EXCEPT !.shutdown = st.listed \/ @]
  /\ UNCHANGED prog

\* shutdownAllNative has nobody to stop.
NoneToStop ==
  /\ prog.live = 0 /\ \E pc \in AtRest : Main(pc, "exit")
  /\ UNCHANGED <<st, queue, cpc, back, prog, locks>>

-----------------------------------------------------------------------------
HandlerPc == {"off", "entry", "wait", "tick", "serve", "teardown", "final", "release", "free", "gone", "removed"}
ClientPc  == {"off", "run", "wait", "exit", "mark", "wake", "unpin", "free", "closing", "cwait", "gone", "lost"}
MainPc    == {"new", "state", "handler", "handles", "pool", "load", "child", "failed", "idle", "polled", "asleep",
              "input", "unlock", "unlock2", "interrupt", "signal", "grace", "stop", "drop", "die", "put", "crashed", "free",
              "closing", "closed", "dropping", "dropped", "swept", "round", "reap", "exit"}
State == [mem : {"none", "live", "freed"}, refs : Nat, listed : BOOLEAN, port : BOOLEAN,
          in : 0..Ring, out : 0..Ring, closed : BOOLEAN, opens : Nat, any : BOOLEAN,
          read : Client \cup {None}, wait : Client \cup {None},
          timer : {"none", "idle", "running", "done"}, raw : BOOLEAN, pool : SUBSET Slot,
          exited : BOOLEAN, task : BOOLEAN, shutdown : BOOLEAN, force : BOOLEAN]
Message == [type : Packet, from : Client] \cup {Die}
Program == [asks : [Client -> SUBSET Packet], state : BOOLEAN, wake : BOOLEAN, sig : BOOLEAN,
            live : 0..1, pins : SUBSET {"all", "round"}, rounds : 0..Rounds]
Locks   == [client : SUBSET Slot, unlocked : SUBSET Slot, slot : SUBSET Slot]

\* The type invariant: the rings stay within their size, what is parked is a
\* client's packet, a reference count is a number.
ConsoleOK ==
  /\ st \in State /\ queue \in Seq(Message)
  /\ hpc \in HandlerPc /\ mpc \in MainPc /\ back \in MainPc
  /\ cpc \in [Client -> ClientPc] /\ held \in [Client -> 0..Handles]
  /\ prog \in Program /\ locks \in Locks
=============================================================================
