------------------------ MODULE RunningProcessProofs ------------------------
(***************************************************************************)
(* Am.Lang.RunningProcess, proved.                                         *)
(*                                                                         *)
(* The libc handle, for any descriptor and process numbers: the reader     *)
(* slot is the handle's own descriptor, close() signals nobody but the     *)
(* child, and a caller whose loop has ended has read everything.  For the  *)
(* last of them the numbers must be known to name what they named: while   *)
(* the handle thinks its child is there, no other process has its number,  *)
(* and no process but that one is the child.                               *)
(*                                                                         *)
(* The consoles of the Amiga-family ports, for any ring, number of         *)
(* handles, lock slots and rounds of the shutdown, and whatever the child  *)
(* and a process it starts ask: the six invariants of Tty, on each port.   *)
(* They follow from ConsoleInv, which says of every place of the program,  *)
(* the handler, the child and the shutdown what each of them still holds.  *)
(* A step is looked at once, in Console, for all ports that take it; the   *)
(* equivalences AmigaOps, MorphosOps and ArosOps and those after them say  *)
(* that the instances of a port are the steps of Console.                  *)
(***************************************************************************)
EXTENDS RunningProcess, Tty, FiniteSetTheorems, WellFoundedInduction, TLAPS

\* Before the start there is nothing: no descriptor and no number.
IdleInv ==
  loop = "idle" =>
    stdout_reader_fd = Nil /\ stdin_writer_fd = Nil /\ child_pid = Nil /\ ~child_exited

\* A child that was not reaped has the number in the handle, unless the handle
\* was closed; a number that may still be signalled is that of the child.
ChildInv ==
  /\ child_pid # Nil /\ ~child_exited => proc[child_pid] \in {"child", "zombie"}
  /\ ~closed => \A p \in Pid : proc[p] \in {"child", "zombie"} => p = child_pid /\ ~child_exited

\* Without a reader nobody can write and nothing is left to read, and the loop
\* is over only when no child is there and nothing is left.
OutputInv ==
  ~closed /\ loop # "idle" =>
    /\ stdout_reader_fd = Nil => ~peer /\ output = 0
    /\ loop = "done" => Ended /\ output = 0

\* What is unread was written.
BytesInv == output <= written

IInv ==
  ReaderOwned /\ IdleInv /\ ChildInv /\ OutputInv /\ BytesInv /\ CloseKillsOnlyChild

USE RunningProcessAssumption DEF RunningProcessAssumption

-----------------------------------------------------------------------------
\* The kernel gives out a free number: a set of numbers has a lowest.
LEMMA LowestFree == ASSUME FreeFd # {} PROVE Lowest(FreeFd) \in FreeFd
<1>1. FreeFd \subseteq Nat
  BY DEF FreeFd
<1>2. PICK f \in FreeFd : \A g \in FreeFd : <<g, f>> \notin OpToRel(<, Nat)
  BY <1>1, NatLessThanWellFounded, WFMin
<1>3. \A g \in FreeFd : ~(g < f)
  BY <1>1, <1>2 DEF OpToRel
<1>4. \A g \in FreeFd : f <= g
  BY <1>1, <1>3
<1> QED BY <1>4 DEF Lowest

\* The invariant holds at first.
LEMMA InitIInv == Init => IInv
<1> SUFFICES ASSUME Init PROVE IInv
  OBVIOUS
<1>1. TypeOK
  <2>1. /\ fd \in [Fd -> {"free", "ours", "other"}]
        /\ proc \in [Pid -> {"free", "child", "zombie", "stranger"}]
    BY DEF Init
  <2>2. output \in 0 .. MaxOutput /\ written \in 0 .. MaxOutput
    BY DEF Init
  <2> QED BY <2>1, <2>2 DEF Init, TypeOK
<1>2. \A f \in Fd : fd[f] = "free"
  BY DEF Init
<1>3. ReaderOwned
  BY <1>1, <1>2 DEF Init, ReaderOwned, Ours
<1>4. IdleInv /\ ChildInv /\ OutputInv /\ BytesInv /\ CloseKillsOnlyChild
  BY DEF Init, IdleInv, ChildInv, OutputInv, BytesInv, CloseKillsOnlyChild
<1> QED BY <1>3, <1>4 DEF IInv

-----------------------------------------------------------------------------
(* The rest of the machine: it takes free numbers only, and gives back what *)
(* is its own; a child that ends stays until it is reaped.                  *)

\* The child and the rest of the system.
LEMMA WorldStep == IInv /\ World => IInv'
<1> SUFFICES ASSUME IInv, World PROVE IInv'
  OBVIOUS
<1> USE DEF IInv, ReaderOwned, TypeOK, Ours, IdleInv, ChildInv, OutputInv, BytesInv,
            CloseKillsOnlyChild, fdVars, childVars, Ended
<1>1. CASE OtherOpens
  <2>1. Lowest(FreeFd) \in Fd /\ fd[Lowest(FreeFd)] = "free"
    BY <1>1, LowestFree DEF OtherOpens, FreeFd
  <2> QED BY <1>1, <2>1 DEF OtherOpens
<1>2. ASSUME NEW f \in Fd, OtherCloses(f) PROVE IInv'
  BY <1>2 DEF OtherCloses
<1>3. ASSUME NEW p \in Pid, ChildWrites(p) PROVE IInv'
  <2>1. ~closed /\ loop # "idle" => stdout_reader_fd # Nil /\ loop # "done"
    BY <1>3 DEF ChildWrites
  <2> QED BY <1>3, <2>1 DEF ChildWrites
<1>4. ASSUME NEW p \in Pid, ChildExits(p) PROVE IInv'
  <2>1. /\ proc[p] = "child" /\ proc' = [proc EXCEPT ![p] = "zombie"] /\ peer' \in {FALSE, peer}
        /\ UNCHANGED <<fdVars, childVars, fd, output, written, loop, closed, harm>>
    BY <1>4 DEF ChildExits
  <2>2. CloseKillsOnlyChild' /\ IdleInv' /\ BytesInv'
    BY <2>1
  <2>6. proc' \in [Pid -> {"free", "child", "zombie", "stranger"}]
    BY <2>1
  <2>7. ReaderOwned'
    BY <2>1, <2>6
  <2>3. ChildInv'
    BY <2>1
  <2>4. Ended => Ended'
    BY <2>1
  <2>5. OutputInv'
    BY <2>1, <2>4
  <2> QED BY <2>2, <2>3, <2>5, <2>7
<1>5. ASSUME NEW p \in Pid, Stranger(p) PROVE IInv'
  BY <1>5 DEF Stranger
<1>6. CASE PeerCloses
  BY <1>6 DEF PeerCloses
<1> QED BY <1>1, <1>2, <1>3, <1>4, <1>5, <1>6 DEF World

-----------------------------------------------------------------------------
(* The operations of the handle.                                            *)

\* startNative.
LEMMA StartStep == ASSUME NEW p \in Pid, IInv, startNative(p) PROVE IInv'
<1> USE DEF IInv, ReaderOwned, TypeOK, Ours, IdleInv, ChildInv, OutputInv, BytesInv,
            CloseKillsOnlyChild, Ended
<1>1. Lowest(FreeFd) \in Fd
  BY LowestFree DEF startNative, FreeFd
<1> QED BY <1>1 DEF startNative

\* tryReadOutput.
LEMMA ReadStep == IInv /\ tryReadOutput => IInv'
<1> SUFFICES ASSUME IInv, tryReadOutput PROVE IInv'
  OBVIOUS
<1> USE DEF IInv, ReaderOwned, TypeOK, Ours, IdleInv, ChildInv, OutputInv, BytesInv,
            CloseKillsOnlyChild, fdVars, childVars, Ended, tryReadOutput
<1>1. CASE ReadSome /\ loop' = "got"
  BY <1>1 DEF ReadSome
<1>2. CASE ReadNothing /\ loop' = "none"
  BY <1>2 DEF ReadNothing, Readable, CloseReader
<1> QED BY <1>1, <1>2

\* isAlive.
LEMMA PollStep == IInv /\ isAlive => IInv'
<1> SUFFICES ASSUME IInv, isAlive PROVE IInv'
  OBVIOUS
<1> USE DEF IInv, ReaderOwned, TypeOK, Ours, IdleInv, ChildInv, OutputInv, BytesInv,
            CloseKillsOnlyChild, fdVars, Ended, isAlive, Running, Reaps
<1>1. CASE Running
  BY <1>1
<1>2. CASE ~Running
  <2>1. /\ child_exited' = (child_exited \/ Reaps)
        /\ proc' = (IF Reaps THEN [proc EXCEPT ![child_pid] = "free"] ELSE proc)
        /\ UNCHANGED <<child_pid, peer, output, written, closed, binary>>
    OBVIOUS
  <2>2. /\ PollFd(TRUE) \/ PollFd(FALSE)
        /\ loop \in {"got", "none"} /\ loop' \in {"read", "done"}
        /\ loop' = "done" => PollFd(FALSE)
    BY <1>2
  <2>3. CloseReader /\ stdout_reader_fd # Nil =>
          /\ harm' = harm /\ stdin_writer_fd' = stdin_writer_fd /\ stdout_reader_fd' = Nil
          /\ fd' = [fd EXCEPT ![stdout_reader_fd] = "free"]
    BY DEF CloseReader
  <2>4. /\ harm' = harm /\ stdin_writer_fd' = stdin_writer_fd
        /\ \/ fd' = fd /\ stdout_reader_fd' = stdout_reader_fd
           \/ /\ stdout_reader_fd # Nil /\ output = 0 /\ ~peer /\ stdout_reader_fd' = Nil
              /\ fd' = [fd EXCEPT ![stdout_reader_fd] = "free"]
        /\ loop' = "done" => stdout_reader_fd = Nil \/ output = 0
    <3>1. PollFd(TRUE) => UNCHANGED <<fdVars, fd, harm>>
      BY DEF PollFd
    <3>2. PollFd(FALSE) =>
            /\ stdout_reader_fd = Nil \/ output = 0
            /\ \/ UNCHANGED <<fdVars, fd, harm>>
               \/ stdout_reader_fd # Nil /\ ~peer /\ CloseReader
      BY DEF PollFd, Readable
    <3> QED BY <2>2, <2>3, <3>1, <3>2
  <2>5. ~closed => Ended'
    BY <1>2, <2>1
  <2>6. ReaderOwned' /\ CloseKillsOnlyChild'
    BY <2>1, <2>2, <2>4
  <2>7. IdleInv' /\ BytesInv'
    BY <2>1, <2>2
  <2>8. ChildInv'
    <3>1. CASE Reaps
      <4>1. child_exited' /\ child_pid' = child_pid /\ closed' = closed
        BY <3>1, <2>1
      <4>2. \A p \in Pid : p # child_pid => proc'[p] = proc[p]
        BY <3>1, <2>1
      <4>3. child_pid \in Pid => proc'[child_pid] = "free"
        BY <3>1, <2>1
      <4> QED BY <4>1, <4>2, <4>3
    <3>2. CASE ~Reaps
      <4>1. (child_exited' <=> child_exited) /\ UNCHANGED <<proc, child_pid, closed>>
        BY <3>2, <2>1
      <4> QED BY <4>1
    <3> QED BY <3>1, <3>2
  <2>9. OutputInv'
    BY <2>1, <2>2, <2>4, <2>5
  <2> QED BY <2>6, <2>7, <2>8, <2>9
<1> QED BY <1>1, <1>2

\* close().
LEMMA CloseStep == IInv /\ rp_close_internal => IInv'
<1> SUFFICES ASSUME IInv, rp_close_internal PROVE IInv'
  OBVIOUS
<1> USE DEF IInv, ReaderOwned, TypeOK, Ours, IdleInv, ChildInv, OutputInv, BytesInv,
            CloseKillsOnlyChild, rp_close_internal, Running, Reaps
<1> QED OBVIOUS

\* Every step keeps the invariant.
LEMMA NextIInv == IInv /\ [Next]_vars => IInv'
<1> SUFFICES ASSUME IInv, [Next]_vars PROVE IInv'
  OBVIOUS
<1>1. CASE writeInput \/ terminateChild \/ UNCHANGED vars
  <2> USE DEF fdVars, childVars, kernelVars
  <2>1. /\ UNCHANGED <<fdVars, childVars, kernelVars, loop, closed>>
        /\ harm' \in {harm, harm \cup {"write"}, harm \cup {"interrupt"},
                       harm \cup {"write"} \cup {"interrupt"}}
    BY <1>1 DEF writeInput, terminateChild, vars
  <2>2. ReaderOwned' /\ CloseKillsOnlyChild'
    BY <2>1 DEF IInv, ReaderOwned, TypeOK, Ours, CloseKillsOnlyChild
  <2>3. IdleInv' /\ ChildInv' /\ OutputInv' /\ BytesInv'
    BY <2>1 DEF IInv, IdleInv, ChildInv, OutputInv, BytesInv, Ended
  <2> QED BY <2>2, <2>3 DEF IInv
<1> QED BY <1>1, WorldStep, StartStep, ReadStep, PollStep, CloseStep DEF Next, Polls

\* The invariant holds in every reachable state, whatever the rest of the
\* machine does with its descriptors and processes.
THEOREM Invariance == Spec => []IInv
<1> QED BY InitIInv, NextIInv, PTL DEF Spec

\* The reader slot names the handle's own descriptor or none, and the handle
\* owns no other: nothing is read from a stranger and nothing leaks.
THEOREM ReaderIsOwned == Spec => []ReaderOwned
<1>1. IInv => ReaderOwned
  BY DEF IInv
<1> QED BY <1>1, Invariance, PTL

\* close() and the release of the handle never signal a process that got the
\* number of a child which was reaped.
THEOREM ClosesOnlyChild == Spec => []CloseKillsOnlyChild
<1>1. IInv => CloseKillsOnlyChild
  BY DEF IInv
<1> QED BY <1>1, Invariance, PTL

\* A loop that ends at an empty read with no child alive leaves nothing unread,
\* unless the caller closed the handle.
THEOREM OutputIsRead == Spec => []AllOutputRead
<1>1. IInv => AllOutputRead
  BY DEF IInv, OutputInv, AllOutputRead
<1> QED BY <1>1, Invariance, PTL

-----------------------------------------------------------------------------
(* The consoles: the invariant.                                             *)

\* The places of the program before its child runs; the places of the handler
\* while it is counted as alive, and from the decision to leave on; and the
\* two steps of an ACTION_DIE on its way.
Starting == {"new", "state", "handler", "handles", "pool", "load", "child"}
Active   == {"entry", "wait", "tick", "serve", "teardown", "final"}
Leaving  == {"teardown", "final", "release", "free", "gone"}
Dying    == mpc \in {"die", "put"}

\* The handle's reference is there while the program still has to give it up.
HandleInv ==
  /\ mpc \in {"handler", "unlock", "unlock2", "interrupt", "signal", "grace", "stop", "drop", "closing", "dropping"} => prog.state
  /\ Dying /\ back \in {"closing", "dropping"} => prog.state

\* The shutdown holds pins only on its way through the list; a step of it comes back
\* to where the pins are given up.
PinsInv ==
  /\ mpc \notin {"die", "put", "free", "crashed", "swept", "round"} => prog.pins = {}
  /\ mpc = "swept" => prog.pins \subseteq {"all"}
  /\ Dying => back \in {"closing", "dropping", "exit", "swept", "round"}
  /\ Dying /\ back \in {"closing", "dropping", "exit"} => prog.pins = {}
  /\ mpc \in {"die", "put", "free"} /\ back = "swept" => prog.pins \subseteq {"all"}
  /\ mpc = "free" => back \in {"closed", "dropped", "swept", "reap"}
  /\ mpc = "free" /\ back # "swept" => prog.pins = {}
  /\ port = "amigaos" /\ Dying =>
       /\ back # "exit"
       /\ back = "swept" => "all" \in prog.pins
       /\ back = "round" => "round" \in prog.pins

\* What exists when: no handler before the rp_state, no child before the handler, and
\* the handler is counted as alive (g_live_handler_count) until it withdraws.
LifeInv ==
  /\ mpc \in {"new", "state"} => st.mem = "none"
  /\ st.mem = "none" => mpc \in {"new", "state", "failed", "exit"} /\ st.refs = 0 /\ ~prog.state /\ prog.pins = {} /\ hpc = "off"
  /\ mpc \in {"new", "state", "handler"} => hpc = "off"
  /\ mpc \in {"handles", "pool", "load", "child"} => hpc # "off"
  /\ hpc = "off" => cpc[Child] = "off"
  /\ mpc \in Starting => cpc[Child] = "off" /\ ~st.shutdown
  /\ cpc[Child] = "off" => cpc[Other] = "off"
  /\ st.port => hpc \in Active
  /\ prog.live = Count(hpc \in Active)
  /\ port # "amigaos" => cpc[Child] \notin {"mark", "unpin", "free"}

\* Who saw the last reference go and is about to free the state.
Freers == Count(hpc = "free") + Count(mpc = "free") + Count(cpc[Child] = "free")

\* RefsExact with the pins told apart, and as many on the way to free the state as
\* there must be: one while it is live without a reference, none otherwise.
RefsInv ==
  /\ st.mem # "none" => st.refs = Count(prog.state) + Count(hpc \notin {"off", "free", "gone"})
              + Count("all" \in prog.pins) + Count("round" \in prog.pins) + Count(InExit)
  /\ Freers = Count(st.mem = "live" /\ st.refs = 0)
  /\ st.mem = "freed" => st.refs = 0

\* A packet of c is in the handler's port.
Queued(c) == \E i \in DOMAIN queue : queue[i].from = c

\* A client has at most one packet in the port; one that waits has it there or in a
\* parking slot, and only one of the three.
QueueInv ==
  /\ \A i, j \in DOMAIN queue : queue[i].from \in Client /\ queue[i].from = queue[j].from => i = j
  /\ \A c \in Client :
       /\ Waiting(c) <=> Queued(c) \/ st.read = c \/ st.wait = c
       /\ ~(Queued(c) /\ st.read = c) /\ ~(Queued(c) /\ st.wait = c) /\ ~(st.read = c /\ st.wait = c)

\* What is in the port was asked for, with a handle left for each OPEN.
AsksInv ==
  /\ \A i \in DOMAIN queue : queue[i].from \in Client =>
       /\ queue[i].type \in prog.asks[queue[i].from] \cup {"END"}
       /\ queue[i].type = "OPEN" => held[queue[i].from] < Handles
  /\ st.wait # None => "WAIT" \in prog.asks[st.wait]

\* ParkedAndServed, with the places where nothing is parked or no timer runs.
ParkInv ==
  /\ ParkedAndServed
  /\ hpc \in {"off", "entry", "release", "free", "gone"} => st.read = None /\ st.wait = None
  /\ hpc \in {"off", "entry", "final"} => st.timer = "none"
  /\ hpc = "tick" => st.timer = "idle"
  /\ port = "aros" => st.timer = "none" /\ st.wait = None

\* A handler leaves only when told to; on amigaos, while close() has not given up, only
\* when no child is left that could ask it.
EndInv ==
  /\ hpc \in Leaving => st.shutdown
  /\ port # "amigaos" /\ mpc \in {"idle", "polled", "asleep", "input"} => ~st.shutdown
  /\ port = "amigaos" /\ mpc \in Starting \cup {"idle", "polled", "asleep", "input", "failed", "unlock", "unlock2", "interrupt", "signal", "grace"} => ~st.force
  /\ port = "amigaos" /\ ~st.force /\ hpc \in Leaving => cpc[Child] \in {"off", "gone"}
  /\ cpc[Child] = "lost" => hpc \in {"gone", "removed"}
  /\ hpc = "removed" => port = "amigaos"

\* NoLostWake, with the step before it: a loop that polled everything and was not
\* signalled since has left nothing in the ring.
WakeInv ==
  /\ mpc \in {"polled", "asleep"} /\ prog.wake /\ ~prog.sig => st.out = 0
  /\ mpc = "asleep" => prog.wake
  /\ NoLostWake
  /\ port = "aros" /\ cpc[Child] \in {"wake", "closing", "cwait", "gone"} => st.exited

ConsoleInv == ConsoleOK /\ HandleInv /\ PinsInv /\ LifeInv /\ RefsInv /\ QueueInv /\ AsksInv /\ ParkInv /\ EndInv /\ WakeInv

HIDE RunningProcessAssumption DEF RunningProcessAssumption
USE DEF Client, Child, Other, None

-----------------------------------------------------------------------------
(* The parts of the invariant a step leaves alone.                          *)

\* What is assumed of the constants.
LEMMA Sizes == Ring \in Nat /\ Ring # 0 /\ Handles \in Nat /\ Handles # 0 /\ Rounds \in Nat
BY ConsoleAssumption DEF ConsoleAssumption

\* A step that leaves the port, the parking slots and who waits alone.
LEMMA QueueFrame ==
  ASSUME QueueInv, UNCHANGED queue, st'.read = st.read, st'.wait = st.wait,
         \A c \in Client : Waiting(c)' <=> Waiting(c)
  PROVE  QueueInv'
BY DEF QueueInv, Queued

\* The ring never holds more than fits, and never less than nothing.
LEMMA RingBounds ==
  ASSUME NEW n \in 0..Ring
  PROVE  rp_pop(n) \in 0..Ring /\ rp_push(n) \in 1..Ring
BY Sizes DEF rp_pop, rp_push

\* A step that leaves the packets, the clients and the handler alone.
LEMMA ConsoleFrame ==
  ASSUME QueueInv, AsksInv, ParkInv, UNCHANGED <<queue, cpc, hpc, held, port>>, prog'.asks = prog.asks,
         st'.read = st.read, st'.wait = st.wait, st'.in = st.in, st'.closed = st.closed, st'.timer = st.timer
  PROVE  QueueInv' /\ AsksInv' /\ ParkInv'
<1>1. QueueInv'
  BY QueueFrame DEF Waiting
<1>2. AsksInv'
  BY DEF AsksInv
<1>3. ParkInv'
  BY DEF ParkInv, ParkedAndServed
<1> QED BY <1>1, <1>2, <1>3

\* Fields of the rp_state that are set, by name.
LEMMA StateFields ==
  ASSUME NEW s \in State
  PROVE  /\ \A n \in Nat : [s EXCEPT !.refs = n] \in State
         /\ \A n \in Nat : [s EXCEPT !.mem = "live", !.refs = n] \in State
         /\ \A n \in Nat : [s EXCEPT !.opens = n, !.any = TRUE] \in State
         /\ \A p \in SUBSET Slot : [s EXCEPT !.pool = p] \in State
         /\ [s EXCEPT !.mem = "freed", !.listed = FALSE] \in State
         /\ \A c \in Client \cup {None}, t \in {"none", "idle", "running", "done"} :
              [s EXCEPT !.wait = c, !.timer = t] \in State
<1>1. ASSUME NEW n \in Nat PROVE [s EXCEPT !.refs = n] \in State
  BY <1>1 DEF State
<1>2. ASSUME NEW n \in Nat PROVE [s EXCEPT !.mem = "live", !.refs = n] \in State
  BY <1>2 DEF State
<1>3. ASSUME NEW n \in Nat PROVE [s EXCEPT !.opens = n, !.any = TRUE] \in State
  BY <1>3 DEF State
<1>4. ASSUME NEW p \in SUBSET Slot PROVE [s EXCEPT !.pool = p] \in State
  BY <1>4 DEF State
<1>5. [s EXCEPT !.mem = "freed", !.listed = FALSE] \in State
  BY DEF State
<1>6. ASSUME NEW c \in Client \cup {None}, NEW t \in {"none", "idle", "running", "done"}
      PROVE  [s EXCEPT !.wait = c, !.timer = t] \in State
  BY <1>6 DEF State
<1> QED BY <1>1, <1>2, <1>3, <1>4, <1>5, <1>6

-----------------------------------------------------------------------------
(* The program: starting a child, reading and writing, letting go.          *)

\* startNative allocates the rp_state.
LEMMA StartStateStep ==
  ASSUME ConsoleInv, StartState, UNCHANGED port
  PROVE  ConsoleInv'
<1> USE DEF ConsoleInv, ConsoleOK, Program, MainPc, StartState, Main
<1>1. ConsoleOK'
  <2>1. st' \in State
    BY StateFields
  <2>2. prog' \in Program
    OBVIOUS
  <2> QED BY <2>1, <2>2
<1> USE DEF State
<1>2. HandleInv' /\ PinsInv'
  BY DEF HandleInv, PinsInv, Dying, LifeInv
<1>3. LifeInv' /\ RefsInv'
  BY DEF LifeInv, RefsInv, Freers, Count, InExit, Starting, Active, HandleInv, PinsInv, HandlerPc
<1>4. QueueInv' /\ AsksInv' /\ ParkInv'
  BY ConsoleFrame
<1>5. EndInv' /\ WakeInv'
  BY DEF EndInv, WakeInv, NoLostWake, WakeToCome, LifeInv, Leaving, Starting, Polled
<1> QED BY <1>1, <1>2, <1>3, <1>4, <1>5

\* startNative makes the child's three handles.
LEMMA StartHandlesStep ==
  ASSUME ConsoleInv, NEW next \in {"pool", "load"}, StartHandles(next), UNCHANGED port
  PROVE  ConsoleInv'
<1> USE DEF ConsoleInv, ConsoleOK, Program, MainPc, StartHandles, Main
<1>1. ConsoleOK'
  <2>1. st' \in State
    BY Sizes, StateFields
  <2> QED BY <2>1
<1> USE DEF State
<1>2. HandleInv' /\ PinsInv'
  BY DEF HandleInv, PinsInv, Dying, LifeInv
<1>3. LifeInv' /\ RefsInv'
  BY DEF LifeInv, RefsInv, Freers, Count, InExit, Starting, Active, HandleInv, PinsInv, HandlerPc
<1>4. QueueInv' /\ AsksInv' /\ ParkInv'
  BY ConsoleFrame
<1>5. EndInv' /\ WakeInv'
  BY DEF EndInv, WakeInv, NoLostWake, WakeToCome, LifeInv, Leaving, Starting, Polled
<1> QED BY <1>1, <1>2, <1>3, <1>4, <1>5

\* startNative fills the pool of locks, where the current directory can be locked.
LEMMA StartPoolStep ==
  ASSUME ConsoleInv, StartPool, UNCHANGED port
  PROVE  ConsoleInv'
<1> USE DEF ConsoleInv, ConsoleOK, Program, MainPc, StartPool, Main
<1>1. ConsoleOK'
  <2>1. PICK p \in SUBSET Slot : st' = [st EXCEPT !.pool = p]
    OBVIOUS
  <2>2. st' \in State
    BY <2>1, StateFields
  <2> QED BY <2>2
<1> USE DEF State
<1>2. HandleInv' /\ PinsInv'
  BY DEF HandleInv, PinsInv, Dying, LifeInv
<1>3. LifeInv' /\ RefsInv'
  BY DEF LifeInv, RefsInv, Freers, Count, InExit, Starting, Active, HandleInv, PinsInv, HandlerPc
<1>4. QueueInv' /\ AsksInv' /\ ParkInv'
  BY ConsoleFrame
<1>5. EndInv' /\ WakeInv'
  BY DEF EndInv, WakeInv, NoLostWake, WakeToCome, LifeInv, Leaving, Starting, Polled
<1> QED BY <1>1, <1>2, <1>3, <1>4, <1>5

\* startNative loads the program, or does not.
LEMMA StartLoadStep ==
  ASSUME ConsoleInv, StartLoad, UNCHANGED port
  PROVE  ConsoleInv'
<1> USE DEF ConsoleInv, ConsoleOK, State, Program, MainPc, StartLoad, Main
<1>1. ConsoleOK'
  BY Sizes DEF LifeInv, Locks
<1>2. HandleInv' /\ PinsInv'
  BY DEF HandleInv, PinsInv, Dying, LifeInv
<1>3. LifeInv' /\ RefsInv'
  BY DEF LifeInv, RefsInv, Freers, Count, InExit, Starting, Active, HandleInv, PinsInv, HandlerPc
<1>4. QueueInv' /\ AsksInv' /\ ParkInv'
  BY ConsoleFrame
<1>5. EndInv' /\ WakeInv'
  BY DEF EndInv, WakeInv, NoLostWake, WakeToCome, LifeInv, Leaving, Starting, Polled
<1> QED BY <1>1, <1>2, <1>3, <1>4, <1>5

\* A failed start leaves what was built until the handle is released.
LEMMA StartFailsStep ==
  ASSUME ConsoleInv, StartFails, UNCHANGED port
  PROVE  ConsoleInv'
<1> USE DEF ConsoleInv, ConsoleOK, State, Program, MainPc, StartFails, Main
<1>1. ConsoleOK'
  BY Sizes DEF LifeInv, Locks
<1>2. HandleInv' /\ PinsInv'
  BY DEF HandleInv, PinsInv, Dying, LifeInv
<1>3. LifeInv' /\ RefsInv'
  BY DEF LifeInv, RefsInv, Freers, Count, InExit, Starting, Active, HandleInv, PinsInv, HandlerPc
<1>4. QueueInv' /\ AsksInv' /\ ParkInv'
  BY ConsoleFrame
<1>5. EndInv' /\ WakeInv'
  BY DEF EndInv, WakeInv, NoLostWake, WakeToCome, LifeInv, Leaving, Starting, Polled
<1> QED BY <1>1, <1>2, <1>3, <1>4, <1>5

\* writeInput looks whether the child ended before it pushes.
LEMMA CheckInputStep ==
  ASSUME ConsoleInv, CheckInput, UNCHANGED port
  PROVE  ConsoleInv'
<1> USE DEF ConsoleInv, ConsoleOK, State, Program, MainPc, CheckInput, Main
<1>1. ConsoleOK'
  BY Sizes DEF LifeInv, Locks
<1>2. HandleInv' /\ PinsInv'
  BY DEF HandleInv, PinsInv, Dying, LifeInv
<1>3. LifeInv' /\ RefsInv'
  BY DEF LifeInv, RefsInv, Freers, Count, InExit, Starting, Active, HandleInv, PinsInv, HandlerPc
<1>4. QueueInv' /\ AsksInv' /\ ParkInv'
  BY ConsoleFrame
<1>5. EndInv' /\ WakeInv'
  BY DEF EndInv, WakeInv, NoLostWake, WakeToCome, LifeInv, Leaving, Starting, Polled
<1> QED BY <1>1, <1>2, <1>3, <1>4, <1>5

\* close() unlocks the slot it looked at.
LEMMA UnlockSlotStep ==
  ASSUME ConsoleInv, UnlockSlot, UNCHANGED port
  PROVE  ConsoleInv'
<1> USE DEF ConsoleInv, ConsoleOK, Program, MainPc, UnlockSlot, Main
<1>1. ConsoleOK'
  <2>1. st.pool \ locks.slot \in SUBSET Slot
    BY DEF State
  <2>2. st' \in State
    BY <2>1, StateFields
  <2>3. locks' \in Locks
    BY DEF Locks
  <2> QED BY <2>2, <2>3
<1> USE DEF State
<1>2. HandleInv' /\ PinsInv'
  BY DEF HandleInv, PinsInv, Dying, LifeInv
<1>3. LifeInv' /\ RefsInv'
  BY DEF LifeInv, RefsInv, Freers, Count, InExit, Starting, Active, HandleInv, PinsInv, HandlerPc
<1>4. QueueInv' /\ AsksInv' /\ ParkInv'
  BY ConsoleFrame
<1>5. EndInv' /\ WakeInv'
  BY DEF EndInv, WakeInv, NoLostWake, WakeToCome, LifeInv, Leaving, Starting, Polled
<1> QED BY <1>1, <1>2, <1>3, <1>4, <1>5

\* A shutdown that finds no state listed.
LEMMA NoneToStopStep ==
  ASSUME ConsoleInv, NoneToStop, UNCHANGED port
  PROVE  ConsoleInv'
<1> USE DEF ConsoleInv, ConsoleOK, State, Program, MainPc, NoneToStop, Main, AtRest
<1>1. ConsoleOK'
  BY Sizes DEF LifeInv, Locks
<1>2. HandleInv' /\ PinsInv'
  BY DEF HandleInv, PinsInv, Dying, LifeInv
<1>3. LifeInv' /\ RefsInv'
  BY DEF LifeInv, RefsInv, Freers, Count, InExit, Starting, Active, HandleInv, PinsInv, HandlerPc
<1>4. QueueInv' /\ AsksInv' /\ ParkInv'
  BY ConsoleFrame
<1>5. EndInv' /\ WakeInv'
  BY DEF EndInv, WakeInv, NoLostWake, WakeToCome, LifeInv, Leaving, Starting, Polled
<1> QED BY <1>1, <1>2, <1>3, <1>4, <1>5

\* The handler process starts with a reference of its own.
LEMMA StartHandlerStep ==
  ASSUME ConsoleInv, StartHandler, UNCHANGED port
  PROVE  ConsoleInv'
<1> USE DEF ConsoleInv, ConsoleOK, StartHandler, Pinned
<1>1. ConsoleOK'
  <2>1. st.refs + 1 \in Nat
    BY DEF State
  <2>2. st' \in State
    BY <2>1 DEF State
  <2>3. prog.live + 1 \in 0..1
    BY DEF Program, LifeInv, Count, Active
  <2>4. prog' \in Program
    BY <2>3 DEF Program
  <2> QED BY <2>2, <2>4 DEF MainPc, HandlerPc
<1> USE DEF State, Program, LifeInv
<1>2. HandleInv' /\ PinsInv'
  BY DEF HandleInv, PinsInv, Dying
<1>3. LifeInv' /\ RefsInv'
  <2>1. LifeInv'
    BY DEF Count, Starting, Active, HandleInv
  <2>2. RefsInv'
    BY DEF RefsInv, Freers, Count, InExit, HandleInv
  <2> QED BY <2>1, <2>2
<1>4. QueueInv' /\ AsksInv' /\ ParkInv'
  BY QueueFrame DEF Waiting, AsksInv, ParkInv, ParkedAndServed
<1>5. EndInv' /\ WakeInv'
  BY DEF EndInv, WakeInv, NoLostWake, WakeToCome, Leaving, Starting
<1> QED BY <1>1, <1>2, <1>3, <1>4, <1>5

\* tryReadOutput empties the output ring.
LEMMA ReadOutputStep ==
  ASSUME ConsoleInv, ReadOutput, UNCHANGED port
  PROVE  ConsoleInv'
<1> USE DEF ConsoleInv, ConsoleOK, ReadOutput, Main
<1>1. ConsoleOK'
  <2>1. st.out \in 0..Ring
    BY DEF State
  <2>2. rp_pop(st.out) \in 0..Ring
    BY <2>1, RingBounds
  <2>3. [st EXCEPT !.out = rp_pop(st.out)] \in State
    BY <2>2 DEF State
  <2> QED BY <2>3 DEF MainPc
<1> USE DEF State, Program, LifeInv
<1>2. HandleInv' /\ PinsInv'
  BY DEF HandleInv, PinsInv, Dying
<1>3. LifeInv' /\ RefsInv'
  BY DEF RefsInv, Freers, Count, InExit, Starting
<1>4. QueueInv' /\ AsksInv' /\ ParkInv'
  BY ConsoleFrame
<1>5. EndInv' /\ WakeInv'
  BY DEF EndInv, WakeInv, NoLostWake, WakeToCome, Leaving, Starting, rp_pop
<1> QED BY <1>1, <1>2, <1>3, <1>4, <1>5

\* The event loop wakes, with the signal of the console or another.
LEMMA EventArrivesStep ==
  ASSUME ConsoleInv, EventArrives, UNCHANGED port
  PROVE  ConsoleInv'
<1> USE DEF ConsoleInv, ConsoleOK, EventArrives, Main
<1>1. prog' \in Program /\ \A f \in {"asks", "state", "live", "pins"} : prog'[f] = prog[f]
  <2>1. CASE prog' = prog
    BY <2>1
  <2>2. CASE prog' = [prog EXCEPT !.sig = FALSE]
    BY <2>2 DEF Program
  <2> QED BY <2>1, <2>2
<1>2. ConsoleOK'
  BY <1>1 DEF MainPc
<1>3. UNCHANGED <<prog.asks, prog.state, prog.live, prog.pins>>
  BY <1>1
<1> HIDE DEF EventArrives
<1>4. mpc = "asleep" /\ mpc' = "idle" /\ UNCHANGED <<st, queue, hpc, cpc, held, back, locks>>
  BY DEF EventArrives
<1>5. HandleInv' /\ PinsInv'
  BY <1>3, <1>4 DEF HandleInv, PinsInv, Dying
<1>6. LifeInv' /\ RefsInv'
  BY <1>3, <1>4 DEF LifeInv, RefsInv, Freers, Count, InExit, Starting
<1>7. QueueInv' /\ AsksInv' /\ ParkInv'
  BY <1>3, <1>4, ConsoleFrame
<1>8. EndInv' /\ WakeInv'
  BY <1>4 DEF EndInv, WakeInv, NoLostWake, WakeToCome, Leaving, Starting
<1> QED BY <1>2, <1>5, <1>6, <1>7, <1>8

\* The program asks to be woken, before it starts its child.
LEMMA setGlobalWakeStep ==
  ASSUME ConsoleInv, setGlobalWake, UNCHANGED port
  PROVE  ConsoleInv'
<1> USE DEF ConsoleInv, ConsoleOK, setGlobalWake, Main
<1>1. ConsoleOK'
  <2>1. prog' \in Program
    BY DEF Program
  <2> QED BY <2>1
<1> USE DEF Program
<1>2. HandleInv' /\ PinsInv'
  BY DEF HandleInv, PinsInv, Dying
<1>3. LifeInv' /\ RefsInv'
  BY DEF LifeInv, RefsInv, Freers, Count, InExit, Starting
<1>4. QueueInv' /\ AsksInv' /\ ParkInv'
  BY ConsoleFrame
<1>5. EndInv' /\ WakeInv'
  BY DEF EndInv, WakeInv, NoLostWake, WakeToCome
<1> QED BY <1>1, <1>2, <1>3, <1>4, <1>5

\* rp_handler_die tests the port of the handler.
LEMMA DieCheckStep ==
  ASSUME ConsoleInv, DieCheck, UNCHANGED port
  PROVE  ConsoleInv'
<1> USE DEF ConsoleInv, ConsoleOK, DieCheck, Main
<1>1. ConsoleOK'
  <2>1. (st.port \/ st.shutdown) \in BOOLEAN
    BY DEF State
  <2>2. st' \in State
    BY <2>1 DEF State
  <2> QED BY <2>2 DEF MainPc
<1> USE DEF State, Program
<1>2. HandleInv' /\ PinsInv'
  BY DEF HandleInv, PinsInv, Dying
<1>3. LifeInv'
  BY DEF LifeInv, Starting, Active, PinsInv, Dying, Count, HandlerPc
<1>4. RefsInv'
  BY DEF RefsInv, Freers, Count, InExit, PinsInv, Dying
<1>5. QueueInv' /\ AsksInv' /\ ParkInv'
  BY ConsoleFrame
<1>6. EndInv' /\ WakeInv'
  <2>1. mpc' \notin Starting \cup {"idle", "polled", "asleep", "input", "failed", "unlock", "unlock2", "interrupt", "signal", "grace"}
    BY DEF Starting, PinsInv, Dying
  <2> QED BY <2>1 DEF EndInv, WakeInv, NoLostWake, WakeToCome, Leaving, Starting
<1> QED BY <1>1, <1>2, <1>3, <1>4, <1>5, <1>6

\* The handle gives up its reference, the last one or not.
LEMMA ReleaseStep ==
  ASSUME ConsoleInv, ReleaseHandle, UNCHANGED port
  PROVE  ConsoleInv'
<1> USE DEF ConsoleInv, ConsoleOK, ReleaseHandle, ReleaseState, Released
<1>0. prog.state /\ st.mem # "none" /\ st.refs \in Nat /\ st.refs >= 1
  BY DEF State, HandleInv, LifeInv, RefsInv, Count
<1>1. ConsoleOK'
  <2>1. st.refs - 1 \in Nat
    BY <1>0
  <2>2. st' \in State
    BY <2>1, StateFields
  <2>3. prog' \in Program
    BY DEF Program
  <2> QED BY <2>2, <2>3 DEF MainPc
<1> USE DEF State, Program
<1>2. HandleInv' /\ PinsInv'
  BY DEF HandleInv, PinsInv, Dying
<1>3. LifeInv'
  BY <1>0 DEF LifeInv, Starting, Count
<1>4. RefsInv'
  BY <1>0 DEF RefsInv, Freers, Count, InExit
<1>5. QueueInv' /\ AsksInv' /\ ParkInv'
  BY ConsoleFrame
<1>6. EndInv'
  <2>1. /\ mpc' \in {"free", "closed", "dropped"}
        /\ st'.shutdown = st.shutdown /\ st'.force = st.force /\ UNCHANGED <<hpc, cpc, port>>
    OBVIOUS
  <2> QED BY <2>1 DEF EndInv, Leaving, Starting
<1>7. WakeInv'
  BY DEF WakeInv, NoLostWake, WakeToCome
<1> QED BY <1>1, <1>2, <1>3, <1>4, <1>5, <1>6, <1>7

\* The program frees the state it let go of last.
LEMMA MainFreeStep ==
  ASSUME ConsoleInv, MainFree, UNCHANGED port
  PROVE  ConsoleInv'
<1> USE DEF ConsoleInv, ConsoleOK, MainFree, Main, Freed
<1>0. back \in {"closed", "dropped", "swept", "reap"}
  BY DEF PinsInv
<1>1. ConsoleOK'
  <2>1. st' \in State
    BY DEF State
  <2> QED BY <2>1
<1> USE DEF State, Program
<1>2. HandleInv' /\ PinsInv'
  BY <1>0 DEF HandleInv, PinsInv, Dying
<1>3. LifeInv' /\ RefsInv'
  BY <1>0 DEF LifeInv, RefsInv, Freers, Count, InExit, Starting
<1>4. QueueInv' /\ AsksInv' /\ ParkInv'
  BY ConsoleFrame
<1>5. EndInv' /\ WakeInv'
  BY <1>0 DEF EndInv, WakeInv, NoLostWake, WakeToCome, Leaving, Starting
<1> QED BY <1>1, <1>2, <1>3, <1>4, <1>5

\* A set of slots has a first one.
LEMMA FirstSlot == ASSUME NEW S \in SUBSET Slot, S # {} PROVE First(S) \in S
<1>1. S \subseteq Nat
  BY ConsoleAssumption DEF ConsoleAssumption
<1>2. PICK s \in S : \A t \in S : <<t, s>> \notin OpToRel(<, Nat)
  BY <1>1, NatLessThanWellFounded, WFMin
<1>3. \A t \in S : ~(t < s)
  BY <1>1, <1>2 DEF OpToRel
<1>4. \A t \in S : s <= t
  BY <1>1, <1>3
<1> QED BY <1>4 DEF First

\* close() looks at the next slot of the pool.
LEMMA UnlockLookStep ==
  ASSUME ConsoleInv, NEW to \in {"interrupt", "drop"}, UnlockLook(to), UNCHANGED port
  PROVE  ConsoleInv'
<1> USE DEF ConsoleInv, ConsoleOK, UnlockLook
<1>1. ConsoleOK'
  <2>1. st.pool \in SUBSET Slot
    BY DEF State
  <2>2. CASE st.pool = {}
    BY <2>2 DEF MainPc
  <2>3. CASE st.pool # {}
    <3>1. First(st.pool) \in Slot
      BY <2>1, <2>3, FirstSlot
    <3>2. locks' \in Locks
      BY <2>3, <3>1 DEF Locks
    <3> QED BY <2>3, <3>2 DEF MainPc
  <2> QED BY <2>2, <2>3
<1>2. HandleInv' /\ PinsInv'
  BY DEF HandleInv, PinsInv, Dying
<1>3. LifeInv' /\ RefsInv'
  BY DEF LifeInv, RefsInv, Freers, Count, InExit, Starting
<1>4. QueueInv' /\ AsksInv' /\ ParkInv'
  BY ConsoleFrame
<1>5. EndInv' /\ WakeInv'
  BY DEF EndInv, WakeInv, NoLostWake, WakeToCome, Leaving, Starting
<1> QED BY <1>1, <1>2, <1>3, <1>4, <1>5

\* The shutdown of morphos and aros marks the states and sends each an ACTION_DIE.
LEMMA SweepOnceStep ==
  ASSUME ConsoleInv, SweepOnce, port # "amigaos", UNCHANGED port
  PROVE  ConsoleInv'
<1> USE DEF ConsoleInv, ConsoleOK
<1>1. /\ st' = [st EXCEPT !.shutdown = st.listed \/ @]
      /\ UNCHANGED <<queue, hpc, cpc, held, prog, locks>>
      /\ mpc \in AtRest
      /\ (mpc' = "exit" /\ back' = back) \/ (mpc' = "die" /\ back' = "exit")
  <2>1. PICK pc \in AtRest :
          IF st.listed /\ st.port THEN HandlerDie(pc, "exit")
          ELSE Main(pc, "exit") /\ UNCHANGED <<queue, cpc, back, locks>>
    BY DEF SweepOnce
  <2>2. mpc = pc /\ UNCHANGED <<queue, hpc, cpc, held, locks>>
    BY <2>1 DEF HandlerDie, Main
  <2>3. (mpc' = "exit" /\ back' = back) \/ (mpc' = "die" /\ back' = "exit")
    <3>1. CASE st.listed /\ st.port
      BY <2>1, <3>1 DEF HandlerDie
    <3>2. CASE ~(st.listed /\ st.port)
      BY <2>1, <3>2 DEF Main
    <3> QED BY <3>1, <3>2
  <2> QED BY <2>2, <2>3 DEF SweepOnce
<1>2. ConsoleOK'
  <2>1. (st.listed \/ st.shutdown) \in BOOLEAN
    BY DEF State
  <2>2. st' \in State
    BY <1>1, <2>1 DEF State
  <2> QED BY <1>1, <2>2 DEF MainPc
<1> USE DEF State, Program, AtRest
<1>3. HandleInv' /\ PinsInv'
  BY <1>1 DEF HandleInv, PinsInv, Dying
<1>4. LifeInv'
  <2>1. st.mem # "none" \/ mpc' = "exit"
    BY DEF SweepOnce, LifeInv, Count, Active
  <2> QED BY <1>1, <2>1 DEF LifeInv, Starting, Count
<1>5. RefsInv'
  BY <1>1 DEF RefsInv, Freers, Count, InExit
<1>6. QueueInv' /\ AsksInv' /\ ParkInv'
  BY <1>1, ConsoleFrame
<1>7. EndInv' /\ WakeInv'
  BY <1>1 DEF EndInv, WakeInv, NoLostWake, WakeToCome, Leaving, Starting
<1> QED BY <1>2, <1>3, <1>4, <1>5, <1>6, <1>7

\* CreateNewProc makes the child, or fails.
LEMMA StartChildStep ==
  ASSUME ConsoleInv, NEW b \in BOOLEAN, StartChild(b), UNCHANGED port
  PROVE  ConsoleInv'
<1> USE DEF ConsoleInv, ConsoleOK, StartChild
<1>1. ConsoleOK'
  <2>1. st' \in State
    BY DEF State
  <2>2. cpc' \in [Client -> ClientPc]
    BY DEF ClientPc
  <2>3. held' \in [Client -> 0..Handles]
    BY Sizes
  <2> QED BY <2>1, <2>2, <2>3 DEF MainPc
<1>2. cpc[Child] = "off" /\ cpc[Other] = "off"
  BY DEF LifeInv, Starting
<1>3. cpc' = [cpc EXCEPT ![Child] = "run"] /\ cpc'[Other] = cpc[Other] /\ cpc'[Child] = "run"
  OBVIOUS
<1> USE DEF State, Program
<1>4. HandleInv' /\ PinsInv'
  BY DEF HandleInv, PinsInv, Dying
<1>5. LifeInv'
  BY <1>2, <1>3 DEF LifeInv, Starting
<1>6. RefsInv'
  BY <1>2, <1>3 DEF RefsInv, Freers, Count, InExit
<1>7. QueueInv' /\ AsksInv' /\ ParkInv'
  <2>1. \A c \in Client : Waiting(c)' <=> Waiting(c)
    BY <1>2, <1>3 DEF Waiting
  <2>2. QueueInv'
    BY <2>1, QueueFrame
  <2>3. ~Queued(Child)
    BY <1>2 DEF QueueInv, Waiting
  <2>4. AsksInv'
    BY <2>3 DEF AsksInv, Queued
  <2> QED BY <2>2, <2>4 DEF ParkInv, ParkedAndServed
<1>8. EndInv' /\ WakeInv'
  BY <1>2, <1>3 DEF EndInv, WakeInv, NoLostWake, WakeToCome, Leaving, Starting, LifeInv
<1> QED BY <1>1, <1>4, <1>5, <1>6, <1>7, <1>8

\* Nothing changes.
LEMMA Stutter == ASSUME ConsoleInv, UNCHANGED ttyVars PROVE ConsoleInv'
<1> USE DEF ConsoleInv, ttyVars, consoleVars
<1>1. ConsoleOK' /\ HandleInv' /\ PinsInv' /\ LifeInv' /\ RefsInv'
  BY DEF ConsoleOK, HandleInv, PinsInv, Dying, LifeInv, RefsInv, Freers, InExit
<1>2. QueueInv' /\ AsksInv' /\ ParkInv'
  BY ConsoleFrame
<1>3. EndInv' /\ WakeInv'
  BY DEF EndInv, WakeInv, NoLostWake, WakeToCome
<1> QED BY <1>1, <1>2, <1>3

\* A client goes from one place to another, at neither of which it waits.
LEMMA ClientMoves ==
  ASSUME ConsoleInv, NEW c \in Client, NEW to \in {"run", "exit", "closing", "gone"},
         cpc' = [cpc EXCEPT ![c] = to], UNCHANGED <<st, queue, hpc, held, mpc, back, prog, locks, port>>,
         c = Child => cpc[c] \in {"run", "exit", "closing"},
         c = Other => cpc[c] \in {"off", "run", "closing"} /\ cpc[Child] # "off",
         port = "aros" /\ c = Child => to = "exit" \/ cpc[c] = "closing"
  PROVE  ConsoleInv'
<1> USE DEF ConsoleInv, ConsoleOK
<1>1. cpc' \in [Client -> ClientPc] /\ \A d \in Client : cpc'[d] = IF d = c THEN to ELSE cpc[d]
  BY DEF ClientPc
<1>2. ConsoleOK'
  BY <1>1
<1>3. HandleInv' /\ PinsInv'
  BY DEF HandleInv, PinsInv, Dying
<1>4. LifeInv' /\ RefsInv'
  BY <1>1 DEF LifeInv, RefsInv, Freers, InExit, Starting
<1>5. QueueInv' /\ AsksInv' /\ ParkInv'
  <2>1. \A d \in Client : Waiting(d)' <=> Waiting(d)
    BY <1>1 DEF Waiting
  <2>2. QueueInv'
    BY <2>1, QueueFrame
  <2> QED BY <2>2 DEF AsksInv, ParkInv, ParkedAndServed
<1>6. EndInv' /\ WakeInv'
  BY <1>1 DEF EndInv, WakeInv, NoLostWake, WakeToCome
<1> QED BY <1>2, <1>3, <1>4, <1>5, <1>6

-----------------------------------------------------------------------------
(* The child and the process it starts.                                     *)

\* A client's task ends, or goes on to close its handles.
LEMMA LeaveStep ==
  ASSUME ConsoleInv, NEW c \in Client, Leave(c), UNCHANGED port
  PROVE  ConsoleInv'
<1>1. PICK from \in {"run", "closing"}, to \in {"exit", "closing", "gone"} :
        /\ cpc[c] = from /\ cpc' = [cpc EXCEPT ![c] = to]
        /\ c = Child => <<from, to>> \in {<<"run", "exit">>, <<"closing", "gone">>}
  BY DEF Leave, Go
<1>2. UNCHANGED <<st, queue, hpc, held, mpc, back, prog, locks, port>>
  BY DEF Leave, Go
<1>3. cpc[c] # "off" => cpc[Child] # "off"
  BY DEF ConsoleInv, LifeInv
<1> QED BY <1>1, <1>2, <1>3, ClientMoves

\* The child starts a process that shares its console.
LEMMA SpawnStep ==
  ASSUME ConsoleInv, Spawn, UNCHANGED port
  PROVE  ConsoleInv'
<1> QED BY ClientMoves DEF Spawn

\* terminateChild sends Ctrl-C to the child that runs.
LEMMA TerminateStep ==
  ASSUME ConsoleInv, Terminate, UNCHANGED port
  PROVE  ConsoleInv'
<1>1. mpc' = mpc /\ UNCHANGED <<st, queue, hpc, held, back, prog, locks, port>>
  BY DEF Terminate, Main
<1>2. cpc' = cpc \/ (cpc[Child] = "run" /\ cpc' = [cpc EXCEPT ![Child] = "exit"])
  <2>1. Interrupt
    BY DEF Terminate
  <2>2. CASE cpc[Child] = "run"
    BY <2>1, <2>2 DEF Interrupt
  <2>3. CASE cpc[Child] # "run"
    BY <2>1, <2>3 DEF Interrupt
  <2> QED BY <2>2, <2>3
<1>3. CASE cpc' = cpc
  BY <1>1, <1>3, Stutter DEF ttyVars, consoleVars
<1>4. CASE cpc[Child] = "run" /\ cpc' = [cpc EXCEPT ![Child] = "exit"]
  BY <1>1, <1>4, ClientMoves
<1> QED BY <1>2, <1>3, <1>4

\* timer.device completes the request of a parked WAIT_CHAR.
LEMMA TimerExpiresStep ==
  ASSUME ConsoleInv, TimerExpires, UNCHANGED port
  PROVE  ConsoleInv'
<1> USE DEF ConsoleInv, ConsoleOK, TimerExpires
<1>1. ConsoleOK'
  BY DEF State
<1> USE DEF State
<1>2. HandleInv' /\ PinsInv'
  BY DEF HandleInv, PinsInv, Dying
<1>3. LifeInv' /\ RefsInv'
  BY DEF LifeInv, RefsInv, Freers, InExit
<1>4. QueueInv' /\ AsksInv' /\ ParkInv'
  BY QueueFrame DEF Waiting, AsksInv, ParkInv, ParkedAndServed
<1>5. EndInv' /\ WakeInv'
  BY DEF EndInv, WakeInv, NoLostWake, WakeToCome
<1> QED BY <1>1, <1>2, <1>3, <1>4, <1>5

-----------------------------------------------------------------------------
\* What Append and Tail make of the packets in the port.
-----------------------------------------------------------------------------
(* A packet sent to the port of the handler.                                *)

LEMMA AppendQueued ==
  ASSUME queue \in Seq(Message), NEW m \in Message, queue' = Append(queue, m)
  PROVE  /\ queue' \in Seq(Message)
         /\ \A i \in DOMAIN queue' : (i \in DOMAIN queue /\ queue'[i] = queue[i]) \/ (i = Len(queue) + 1 /\ queue'[i] = m)
         /\ \A i \in DOMAIN queue : i \in DOMAIN queue' /\ queue'[i] = queue[i]
         /\ Len(queue) + 1 \in DOMAIN queue' /\ Len(queue) + 1 \notin DOMAIN queue /\ queue'[Len(queue) + 1] = m
<1>1. /\ queue' \in Seq(Message) /\ Len(queue') = Len(queue) + 1 /\ Len(queue) \in Nat
      /\ \A i \in 1 .. Len(queue) : queue'[i] = queue[i]
      /\ queue'[Len(queue) + 1] = m
  OBVIOUS
<1>2. DOMAIN queue = 1 .. Len(queue) /\ DOMAIN queue' = 1 .. Len(queue')
  BY <1>1
<1> QED BY <1>1, <1>2

\* What is in the port is a client's packet or the program's own.
LEMMA MessageFields ==
  ASSUME NEW m \in Message
  PROVE  \/ m.from \in Client /\ m.type \in Packet
         \/ m.from = None /\ m = Die
BY DEF Message, Die

\* A client posts a packet and waits, or finds nobody there and is lost.
LEMMA PostStep ==
  ASSUME ConsoleInv, NEW c \in Client, NEW t \in Packet, NEW pc \in {"wait", "cwait"}, Post(c, t, pc),
         cpc[c] \in {"run", "closing"}, cpc[c] = "closing" <=> pc = "cwait",
         t \in prog.asks[c] \cup {"END"}, t = "OPEN" => held[c] < Handles,
         held' \in [Client -> 0..Handles], \A d \in Client : held'[d] <= held[d], 
         UNCHANGED <<st, hpc, mpc, back, prog, locks, port>>
  PROVE  ConsoleInv'
<1> USE DEF ConsoleInv, ConsoleOK
<1> DEFINE to == IF PortExists THEN pc ELSE "lost"
           m  == [type |-> t, from |-> c]
<1>1. cpc' \in [Client -> ClientPc] /\ \A d \in Client : cpc'[d] = IF d = c THEN to ELSE cpc[d]
  BY DEF Post, ClientPc
<1>2. m \in Message
  BY DEF Message
<1>3. IF PortExists THEN queue' = Append(queue, m) ELSE queue' = queue
  BY DEF Post
<1>4. ConsoleOK'
  BY <1>1, <1>2, <1>3, AppendQueued
<1>5. HandleInv' /\ PinsInv'
  BY DEF HandleInv, PinsInv, Dying
<1>6. LifeInv' /\ RefsInv'
  BY <1>1 DEF LifeInv, RefsInv, Freers, InExit, Starting
<1>7. QueueInv'
  <2>1. ~Queued(c) /\ st.read # c /\ st.wait # c
    BY DEF QueueInv, Waiting
  <2>2. CASE PortExists
    <3>1. \A d \in Client : Queued(d)' <=> Queued(d) \/ d = c
      BY <1>2, <1>3, <2>2, AppendQueued DEF Queued
    <3>2. \A d \in Client : Waiting(d)' <=> Waiting(d) \/ d = c
      BY <1>1, <2>2 DEF Waiting
    <3>3. \A i, j \in DOMAIN queue' : queue'[i].from \in Client /\ queue'[i].from = queue'[j].from => i = j
      <4>1. SUFFICES ASSUME NEW i \in DOMAIN queue', NEW j \in DOMAIN queue',
                             queue'[i].from \in Client, queue'[i].from = queue'[j].from
                      PROVE  i = j
        OBVIOUS
      <4>2. \A k \in DOMAIN queue' : \/ k \in DOMAIN queue /\ queue'[k] = queue[k]
                                     \/ k = Len(queue) + 1 /\ queue'[k].from = c
        BY <1>2, <1>3, <2>2, AppendQueued
      <4>3. CASE i \in DOMAIN queue /\ queue'[i] = queue[i] /\ j \in DOMAIN queue /\ queue'[j] = queue[j]
        BY <4>1, <4>3 DEF QueueInv
      <4>4. CASE queue'[i].from = c \/ queue'[j].from = c
        <5>1. i = Len(queue) + 1 /\ j = Len(queue) + 1
          BY <2>1, <4>1, <4>2, <4>4 DEF Queued
        <5> QED BY <5>1
      <4> QED BY <4>2, <4>3, <4>4
    <3> QED BY <2>1, <3>1, <3>2, <3>3 DEF QueueInv
  <2>3. CASE ~PortExists
    <3>1. \A d \in Client : Waiting(d)' <=> Waiting(d)
      BY <1>1, <2>3 DEF Waiting
    <3> QED BY <1>3, <2>3, <3>1, QueueFrame
  <2> QED BY <2>2, <2>3
<1>8. AsksInv'
  <2>1. \A d \in Client : held[d] < Handles => held'[d] < Handles
    BY Sizes
  <2>2. st.wait # None => "WAIT" \in prog.asks[st.wait]
    BY DEF AsksInv
  <2>3. \A i \in DOMAIN queue : queue[i].from \in Client =>
          /\ queue[i].type \in prog.asks[queue[i].from] \cup {"END"}
          /\ queue[i].type = "OPEN" => held'[queue[i].from] < Handles
    BY <2>1 DEF AsksInv
  <2>4. t = "OPEN" => held'[c] < Handles
    BY <2>1
  <2>5. CASE PortExists
    BY <1>2, <1>3, <2>2, <2>3, <2>4, <2>5, AppendQueued DEF AsksInv
  <2>6. CASE ~PortExists
    BY <1>3, <2>2, <2>3, <2>6 DEF AsksInv
  <2> QED BY <2>5, <2>6
<1>9. ParkInv'
  BY DEF ParkInv, ParkedAndServed
<1>10. EndInv' /\ WakeInv'
  <2>1. cpc'[Child] = "lost" => hpc \in {"gone", "removed"}
    BY <1>1 DEF EndInv, PortExists, LifeInv
  <2>2. EndInv'
    BY <1>1, <2>1 DEF EndInv
  <2>3. WakeInv'
    BY <1>1, <2>1 DEF WakeInv, NoLostWake, WakeToCome, EndInv, Leaving
  <2> QED BY <2>2, <2>3
<1> QED BY <1>4, <1>5, <1>6, <1>7, <1>8, <1>9, <1>10

\* A client sends a packet and waits for the reply.
LEMMA AskStep ==
  ASSUME ConsoleInv, NEW c \in Client, NEW t \in Packet, Ask(c, t), UNCHANGED port
  PROVE  ConsoleInv'
<1>1. held' = held /\ held \in [Client -> 0..Handles] /\ \A d \in Client : held[d] <= held[d]
  BY Sizes DEF Ask, ConsoleInv, ConsoleOK
<1>2. cpc[c] = "run" /\ t \in prog.asks[c] /\ Post(c, t, "wait") /\ (t = "OPEN" => held[c] < Handles)
      /\ UNCHANGED <<st, hpc, mpc, back, prog, locks>>
  BY DEF Ask
<1> QED BY <1>1, <1>2, PostStep

\* A client closes a handle: an ACTION_END it waits for.
LEMMA CloseHandleStep ==
  ASSUME ConsoleInv, NEW c \in Client, CloseHandle(c), UNCHANGED port
  PROVE  ConsoleInv'
<1>1. held' = [held EXCEPT ![c] = @ - 1] /\ held[c] > 0 /\ held \in [Client -> 0..Handles]
  BY DEF CloseHandle, ConsoleInv, ConsoleOK
<1>2. held' \in [Client -> 0..Handles] /\ \A d \in Client : held'[d] <= held[d]
  BY <1>1, Sizes
<1>3. UNCHANGED <<st, hpc, mpc, back, prog, locks>> /\ "END" \in Packet
  BY DEF CloseHandle, Packet
<1>4. CASE cpc[c] = "run" /\ Post(c, "END", "wait")
  BY <1>2, <1>3, <1>4, PostStep
<1>5. CASE cpc[c] = "closing" /\ Post(c, "END", "cwait")
  BY <1>2, <1>3, <1>5, PostStep
<1> QED BY <1>4, <1>5 DEF CloseHandle

\* What the clients do by themselves.
LEMMA ClientsStep ==
  ASSUME ConsoleInv, Clients, UNCHANGED port
  PROVE  ConsoleInv'
<1> QED BY AskStep, CloseHandleStep, LeaveStep, SpawnStep, TimerExpiresStep DEF Clients

\* rp_handler_die puts an ACTION_DIE in the port, if it is still there.
LEMMA DiePutStep ==
  ASSUME ConsoleInv, DiePut, UNCHANGED port
  PROVE  ConsoleInv'
<1> USE DEF ConsoleInv, ConsoleOK
<1>1. Die \in Message /\ Die.from = None
  BY DEF Message, Die
<1>2. /\ queue' = queue \/ (st.port /\ queue' = Append(queue, Die))
      /\ mpc = "put" /\ mpc' \in {back, "crashed"} /\ UNCHANGED <<st, hpc, cpc, held, back, prog, locks>>
  BY DEF DiePut, Main
<1>3. ConsoleOK'
  BY <1>1, <1>2, AppendQueued DEF MainPc
<1>4. mpc' \in {"closing", "dropping", "exit", "swept", "round", "crashed"}
  BY <1>2 DEF PinsInv, Dying
<1>5. HandleInv' /\ PinsInv'
  BY <1>2 DEF HandleInv, PinsInv, Dying
<1>6. LifeInv'
  BY <1>2, <1>4 DEF LifeInv, Starting, Active
<1>7. RefsInv'
  BY <1>2, <1>4 DEF RefsInv, Freers, InExit
<1>8. QueueInv'
  <2>1. \A d \in Client : Waiting(d)' <=> Waiting(d)
    BY <1>2 DEF Waiting
  <2>2. CASE queue' = Append(queue, Die)
    <3>1. \A d \in Client : Queued(d)' <=> Queued(d)
      BY <1>1, <1>2, <2>2, AppendQueued DEF Queued
    <3>2. \A i, j \in DOMAIN queue' : queue'[i].from \in Client /\ queue'[i].from = queue'[j].from => i = j
      BY <1>1, <1>2, <2>2, AppendQueued DEF QueueInv
    <3> QED BY <1>2, <2>1, <3>1, <3>2 DEF QueueInv
  <2>3. CASE queue' = queue
    BY <1>2, <2>1, <2>3, QueueFrame
  <2> QED BY <1>2, <2>2, <2>3
<1>9. AsksInv'
  <2>1. CASE queue' = Append(queue, Die)
    BY <1>1, <1>2, <2>1, AppendQueued DEF AsksInv
  <2>2. CASE queue' = queue
    BY <1>2, <2>2 DEF AsksInv
  <2> QED BY <1>2, <2>1, <2>2
<1>10. ParkInv'
  BY <1>2 DEF ParkInv, ParkedAndServed
<1>11. EndInv' /\ WakeInv'
  BY <1>2, <1>4 DEF EndInv, WakeInv, NoLostWake, WakeToCome, Starting
<1> QED BY <1>3, <1>5, <1>6, <1>7, <1>8, <1>9, <1>10, <1>11

-----------------------------------------------------------------------------
(* One Forbid() section: what it makes of the rp_state and whom it answers. *)

\* A section at work: the state, whom it answers and whether it signals.
Work == [st : State, replies : SUBSET (Client \cup {None}), wake : BOOLEAN]

\* The clients of R go on.
Answered(R) == cpc' = [c \in Client |-> IF c \in R THEN Resumed(cpc[c]) ELSE cpc[c]]

\* What no section of the handler changes.
Kept(s) ==
  /\ s.mem = st.mem /\ s.refs = st.refs /\ s.listed = st.listed /\ s.port = st.port
  /\ s.shutdown = st.shutdown /\ s.force = st.force

\* Who had a packet taken from the port (A) or parked is answered or parked.
Balanced(A, w) ==
  \A c \in Client :
    /\ c \in A \/ st.read = c \/ st.wait = c <=> c \in w.replies \/ w.st.read = c \/ w.st.wait = c
    /\ ~(c \in w.replies /\ w.st.read = c) /\ ~(c \in w.replies /\ w.st.wait = c) /\ ~(w.st.read = c /\ w.st.wait = c)

\* The packets of A, and no other client's, are taken from the port.
Takes(A) ==
  /\ queue' \in Seq(Message)
  /\ \A i \in DOMAIN queue' : \E j \in DOMAIN queue : queue'[i] = queue[j]
  /\ \A i, j \in DOMAIN queue' : queue'[i].from \in Client /\ queue'[i].from = queue'[j].from => i = j
  /\ \A c \in Client : Queued(c)' <=> Queued(c) /\ c \notin A
  /\ \A c \in A : Queued(c)

\* Output and an exit are signalled; the exit on aros by who reports it later.
Tells(w) ==
  /\ w.st.out = st.out \/ w.wake
  /\ \/ w.st.exited = st.exited
     \/ w.st.exited /\ w.wake
     \/ w.st.exited /\ port = "aros" /\ cpc[Child] \in {"run", "wait", "exit"}

\* What is parked after a section.
Parks(s) ==
  /\ s.read # None \/ s.wait # None => s.in = 0 /\ (s.closed => port = "morphos")
  /\ s.timer = "running" => s.wait # None
  /\ s.wait # None => s.timer \in {"running", "done"} \/ \A c \in Client : prog.asks[c] \cap {"WAIT", "POLL"} # {}
  /\ s.wait # None => "WAIT" \in prog.asks[s.wait]
  /\ port = "aros" => s.timer = "none" /\ s.wait = None

\* A reply sends its client on, and nobody else.
LEMMA AnsweredFacts ==
  ASSUME ConsoleOK, NEW R, Answered(R)
  PROVE  /\ cpc' \in [Client -> ClientPc]
         /\ \A c \in Client : cpc'[c] = IF c \in R THEN Resumed(cpc[c]) ELSE cpc[c]
         /\ \A c \in Client : \/ cpc'[c] = cpc[c] /\ ~(c \in R /\ Waiting(c))
                              \/ c \in R /\ cpc[c] = "wait" /\ cpc'[c] = "run"
                              \/ c \in R /\ cpc[c] = "cwait" /\ cpc'[c] = "closing"
         /\ \A c \in Client : Waiting(c)' <=> Waiting(c) /\ c \notin R
<1>1. \A c \in Client : cpc'[c] = IF c \in R THEN Resumed(cpc[c]) ELSE cpc[c]
  BY DEF Answered
<1>2. \A c \in Client : Resumed(cpc[c]) \in ClientPc /\ cpc[c] \in ClientPc
  BY DEF Resumed, ConsoleOK, ClientPc
<1>3. cpc' \in [Client -> ClientPc]
  BY <1>2 DEF Answered
<1>4. \A c \in Client : \/ cpc'[c] = cpc[c] /\ ~(c \in R /\ Waiting(c))
                        \/ c \in R /\ cpc[c] = "wait" /\ cpc'[c] = "run"
                        \/ c \in R /\ cpc[c] = "cwait" /\ cpc'[c] = "closing"
  BY <1>1 DEF Resumed, Waiting
<1>5. \A c \in Client : Waiting(c)' <=> Waiting(c) /\ c \notin R
  BY <1>4 DEF Waiting
<1> QED BY <1>1, <1>3, <1>4, <1>5

\* A signal to the main task changes nothing else.
LEMMA SignalledFacts ==
  ASSUME ConsoleOK, NEW b \in BOOLEAN, prog' = IF b THEN Signalled(prog) ELSE prog
  PROVE  /\ prog' \in Program
         /\ UNCHANGED <<prog.asks, prog.state, prog.wake, prog.live, prog.pins, prog.rounds>>
         /\ prog'.sig = (prog.sig \/ (b /\ prog.wake))
<1> USE DEF ConsoleOK, Program
<1>1. CASE b /\ prog.wake
  BY <1>1 DEF Signalled
<1>2. CASE ~(b /\ prog.wake)
  <2>1. prog' = prog
    BY <1>2 DEF Signalled
  <2> QED BY <1>2, <2>1
<1> QED BY <1>1, <1>2

\* What a section does to all that is not its packet: if it keeps the state, balances
\* the packets and tells the main task, every part of the invariant but three is kept.
LEMMA SectionStep ==
  ASSUME ConsoleInv, NEW w \in Work, NEW A \in SUBSET Client,
         st' = w.st, Answered(w.replies), prog' = IF w.wake THEN Signalled(prog) ELSE prog,
         Kept(w.st), Balanced(A, w), Takes(A), Tells(w),
         mpc' = mpc \/ (mpc = "input" /\ mpc' = "idle"),
         hpc' = hpc \/ (hpc \in Active /\ hpc' \in Active),
         UNCHANGED <<back, port>>
  PROVE  /\ st' \in State /\ queue' \in Seq(Message) /\ mpc' \in MainPc /\ hpc' \in HandlerPc
         /\ cpc' \in [Client -> ClientPc] /\ prog' \in Program
         /\ HandleInv' /\ PinsInv' /\ LifeInv' /\ RefsInv' /\ QueueInv' /\ WakeInv'
<1> USE DEF ConsoleInv
<1>1. /\ cpc' \in [Client -> ClientPc]
      /\ \A c \in Client : \/ cpc'[c] = cpc[c]
                           \/ cpc[c] = "wait" /\ cpc'[c] = "run"
                           \/ cpc[c] = "cwait" /\ cpc'[c] = "closing"
      /\ \A c \in Client : Waiting(c)' <=> Waiting(c) /\ c \notin w.replies
  BY AnsweredFacts
<1>2. w.wake \in BOOLEAN /\ w.st \in State
  BY DEF Work
<1>3. /\ prog' \in Program
      /\ UNCHANGED <<prog.asks, prog.state, prog.wake, prog.live, prog.pins, prog.rounds>>
      /\ prog'.sig = (prog.sig \/ (w.wake /\ prog.wake))
  BY <1>2, SignalledFacts
<1>4. st' \in State /\ queue' \in Seq(Message) /\ mpc' \in MainPc /\ hpc' \in HandlerPc
  BY <1>2 DEF ConsoleOK, MainPc, HandlerPc, Active, Takes
<1>5. st'.mem = st.mem /\ st'.refs = st.refs /\ st'.port = st.port /\ st'.shutdown = st.shutdown
  BY DEF Kept
<1>6. HandleInv' /\ PinsInv'
  BY <1>3 DEF HandleInv, PinsInv, Dying
<1>7. LifeInv'
  BY <1>1, <1>3, <1>5 DEF LifeInv, Starting, Active
<1>8. RefsInv'
  <2>1. (hpc = "free" <=> hpc' = "free") /\ (hpc \in {"off", "free", "gone"} <=> hpc' \in {"off", "free", "gone"})
    BY DEF Active
  <2>2. (mpc = "free" <=> mpc' = "free") /\ (cpc[Child] = "free" <=> cpc'[Child] = "free") /\ (InExit <=> InExit')
    BY <1>1 DEF InExit
  <2> QED BY <1>3, <1>5, <2>1, <2>2 DEF RefsInv, Freers, Count
<1>9. QueueInv'
  <2>1. \A c \in Client : Queued(c)' <=> Queued(c) /\ c \notin A
    BY DEF Takes
  <2>2. \A c \in Client :
          /\ Waiting(c)' <=> Queued(c)' \/ w.st.read = c \/ w.st.wait = c
          /\ ~(Queued(c)' /\ w.st.read = c) /\ ~(Queued(c)' /\ w.st.wait = c) /\ ~(w.st.read = c /\ w.st.wait = c)
    <3> SUFFICES ASSUME NEW c \in Client
                 PROVE  /\ Waiting(c)' <=> Queued(c)' \/ w.st.read = c \/ w.st.wait = c
                        /\ ~(Queued(c)' /\ w.st.read = c) /\ ~(Queued(c)' /\ w.st.wait = c) /\ ~(w.st.read = c /\ w.st.wait = c)
      OBVIOUS
    <3>1. /\ Waiting(c) <=> Queued(c) \/ st.read = c \/ st.wait = c
          /\ ~(Queued(c) /\ st.read = c) /\ ~(Queued(c) /\ st.wait = c) /\ ~(st.read = c /\ st.wait = c)
      BY DEF QueueInv
    <3>2. /\ c \in A \/ st.read = c \/ st.wait = c <=> c \in w.replies \/ w.st.read = c \/ w.st.wait = c
          /\ ~(c \in w.replies /\ w.st.read = c) /\ ~(c \in w.replies /\ w.st.wait = c) /\ ~(w.st.read = c /\ w.st.wait = c)
      BY DEF Balanced
    <3>3. (Queued(c)' <=> Queued(c) /\ c \notin A) /\ (c \in A => Queued(c))
      BY DEF Takes
    <3> QED BY <1>1, <3>1, <3>2, <3>3
  <2>3. \A i, j \in DOMAIN queue' : queue'[i].from \in Client /\ queue'[i].from = queue'[j].from => i = j
    BY DEF Takes
  <2> QED BY <2>2, <2>3 DEF QueueInv
<1>10. WakeInv'
  BY <1>1, <1>3 DEF WakeInv, NoLostWake, WakeToCome, Tells
<1> QED BY <1>1, <1>3, <1>4, <1>6, <1>7, <1>8, <1>9, <1>10

\* The first packet is taken from the port.
LEMMA TakeHead ==
  ASSUME ConsoleInv, queue # <<>>, queue' = Tail(queue)
  PROVE  /\ Takes({Asker} \cap Client)
         /\ Head(queue) \in Message /\ 1 \in DOMAIN queue /\ queue[1] = Head(queue)
<1> USE DEF ConsoleInv, ConsoleOK
<1>1. /\ queue \in Seq(Message) /\ Len(queue) \in Nat /\ Len(queue) >= 1 /\ Head(queue) = queue[1]
      /\ queue' \in Seq(Message) /\ Len(queue') = Len(queue) - 1
      /\ \A i \in 1 .. Len(queue) - 1 : queue'[i] = queue[i + 1]
  OBVIOUS
<1>2. DOMAIN queue = 1 .. Len(queue) /\ DOMAIN queue' = 1 .. Len(queue) - 1
  BY <1>1
<1>3. \A i \in DOMAIN queue' : i + 1 \in DOMAIN queue /\ i + 1 # 1 /\ queue'[i] = queue[i + 1]
  BY <1>1, <1>2
<1>4. \A j \in DOMAIN queue : j # 1 => j - 1 \in DOMAIN queue' /\ queue'[j - 1] = queue[j]
  BY <1>1, <1>2
<1>5. 1 \in DOMAIN queue
  BY <1>1, <1>2
<1>6. \A i, j \in DOMAIN queue : queue[i].from \in Client /\ queue[i].from = queue[j].from => i = j
  BY DEF QueueInv
<1>7. \A i, j \in DOMAIN queue' : queue'[i].from \in Client /\ queue'[i].from = queue'[j].from => i = j
  <2> SUFFICES ASSUME NEW i \in DOMAIN queue', NEW j \in DOMAIN queue',
                      queue'[i].from \in Client, queue'[i].from = queue'[j].from
               PROVE  i = j
    OBVIOUS
  <2>1. i + 1 = j + 1
    BY <1>3, <1>6
  <2> QED BY <1>1, <1>2, <2>1
<1>8. \A c \in Client : Queued(c)' <=> Queued(c) /\ c \notin {Asker} \cap Client
  <2> SUFFICES ASSUME NEW c \in Client PROVE Queued(c)' <=> Queued(c) /\ c # Asker
    OBVIOUS
  <2>1. Asker = queue[1].from
    BY <1>1 DEF Asker
  <2>2. Queued(c)' => Queued(c) /\ c # Asker
    BY <1>3, <1>5, <1>6, <2>1 DEF Queued
  <2>3. Queued(c) /\ c # Asker => Queued(c)'
    BY <1>4, <2>1 DEF Queued
  <2> QED BY <2>2, <2>3
<1>9. \A c \in {Asker} \cap Client : Queued(c)
  BY <1>1, <1>5 DEF Queued, Asker
<1>10. Head(queue) \in Message
  BY <1>1
<1> QED BY <1>1, <1>3, <1>5, <1>7, <1>8, <1>9, <1>10 DEF Takes

\* The first packet is served; its sender's handles may change, and the locks.
Answers(w) ==
  /\ Commit(w) /\ queue' = Tail(queue) /\ UNCHANGED <<hpc, mpc, back>> /\ locks' \in Locks
  /\ held' \in [Client -> 0..Handles] /\ \A c \in Client \ {Asker} : held'[c] = held[c]

\* The same for a section that serves the first packet, and the three: the handler
\* goes on serving, and what it leaves parked is rightly so.
LEMMA ServedStep ==
  ASSUME ConsoleInv, NEW w \in Work, hpc = "serve", queue # <<>>, Answers(w), UNCHANGED port,
         Kept(w.st), Balanced({Asker} \cap Client, w), Parks(w.st), Tells(w)
  PROVE  ConsoleInv'
<1>1. /\ Takes({Asker} \cap Client) /\ st' = w.st /\ Answered(w.replies)
      /\ prog' = (IF w.wake THEN Signalled(prog) ELSE prog) /\ UNCHANGED <<hpc, mpc, back, port>>
  BY TakeHead DEF Answers, Commit, Answered
<1>2. /\ st' \in State /\ queue' \in Seq(Message) /\ mpc' \in MainPc /\ hpc' \in HandlerPc
      /\ cpc' \in [Client -> ClientPc] /\ prog' \in Program
      /\ HandleInv' /\ PinsInv' /\ LifeInv' /\ RefsInv' /\ QueueInv' /\ WakeInv'
  BY <1>1, SectionStep
<1>3. ConsoleOK'
  BY <1>1, <1>2 DEF ConsoleInv, ConsoleOK, Answers
<1>4. /\ \A c \in Client : \/ cpc'[c] = cpc[c]
                           \/ cpc[c] = "wait" /\ cpc'[c] = "run"
                           \/ cpc[c] = "cwait" /\ cpc'[c] = "closing"
      /\ prog'.asks = prog.asks
  BY <1>1, AnsweredFacts, SignalledFacts DEF ConsoleInv, Work
<1>5. AsksInv'
  <2>1. \A i \in DOMAIN queue' : \E j \in DOMAIN queue : queue'[i] = queue[j]
    BY <1>1 DEF Takes
  <2>2. \A i \in DOMAIN queue' : queue'[i].from \in Client => queue'[i].from # Asker
    BY <1>1 DEF Takes, Queued
  <2>3. \A i \in DOMAIN queue' : queue'[i].from \in Client =>
          /\ queue'[i].type \in prog.asks[queue'[i].from] \cup {"END"}
          /\ queue'[i].type = "OPEN" => held'[queue'[i].from] < Handles
    BY <2>1, <2>2 DEF ConsoleInv, AsksInv, Answers
  <2> QED BY <1>1, <1>4, <2>3 DEF AsksInv, Parks
<1>6. ParkInv'
  BY <1>1, <1>4 DEF ParkInv, ParkedAndServed, Parks
<1>7. EndInv'
  BY <1>1, <1>4 DEF ConsoleInv, EndInv, Leaving, Kept
<1> QED BY <1>2, <1>3, <1>5, <1>6, <1>7 DEF ConsoleInv

-----------------------------------------------------------------------------
(* What the operators of a section make of it.                              *)

\* A section begins with the state as it is and nobody to answer.
LEMMA NowFacts ==
  ASSUME ConsoleOK
  PROVE  Now \in Work /\ Now.st = st /\ Now.replies = {} /\ Now.wake = FALSE
BY DEF ConsoleOK, Now, Work

\* One more to answer.
LEMMA ReplyFacts ==
  ASSUME NEW w \in Work, NEW c \in Client \cup {None}
  PROVE  /\ Reply(w, c) \in Work
         /\ Reply(w, c).st = w.st /\ Reply(w, c).wake = w.wake
         /\ Reply(w, c).replies = w.replies \cup {c}
BY DEF Reply, Work

\* A parked READ is answered with what the ring holds.
LEMMA FulfilReadFacts ==
  ASSUME NEW w \in Work, Unparks(w.st)
  PROVE  LET f == FulfilRead(w)
         IN /\ f \in Work /\ f.wake = w.wake
            /\ \A c \in Client : c \in f.replies <=> c \in w.replies \/ w.st.read = c
            /\ \E n \in 0..Ring : f.st = [w.st EXCEPT !.read = None, !.in = n]
<1>1. w.st \in State /\ w.st.in \in 0..Ring /\ w.st.read \in Client \cup {None}
  BY DEF Work, State
<1>2. CASE w.st.read = None
  <2>1. FulfilRead(w) = w
    BY <1>2 DEF FulfilRead
  <2>2. w.st = [w.st EXCEPT !.read = None, !.in = w.st.in]
    BY <1>1, <1>2 DEF State
  <2> QED BY <1>1, <1>2, <2>1, <2>2
<1>3. CASE w.st.read # None
  <2> DEFINE r == Reply(w, w.st.read)
             f == [r EXCEPT !.st.read = None, !.st.in = rp_pop(@)]
  <2>1. r \in Work /\ r.st = w.st /\ r.wake = w.wake /\ r.replies = w.replies \cup {w.st.read}
    BY <1>1, ReplyFacts
  <2>2. FulfilRead(w) = f
    BY <1>3 DEF FulfilRead
  <2> HIDE DEF r
  <2>3. f.st = [w.st EXCEPT !.read = None, !.in = rp_pop(w.st.in)]
        /\ f.replies = r.replies /\ f.wake = r.wake
    BY <2>1 DEF Work
  <2>4. rp_pop(w.st.in) \in 0..Ring
    BY <1>1, RingBounds
  <2>5. [w.st EXCEPT !.read = None, !.in = rp_pop(w.st.in)] \in State
    BY <1>1, <2>4 DEF State
  <2>6. f \in Work
    BY <2>1, <2>3, <2>5 DEF Work
  <2> HIDE DEF f
  <2>7. \A c \in Client : c \in f.replies <=> c \in w.replies \/ w.st.read = c
    BY <2>1, <2>3
  <2> QED BY <2>1, <2>2, <2>3, <2>4, <2>6, <2>7
<1> QED BY <1>2, <1>3

\* A parked WAIT_CHAR is answered and its timer stopped.
LEMMA FulfilWaitFacts ==
  ASSUME NEW w \in Work, Unparks(w.st)
  PROVE  LET f == FulfilWait(w)
         IN /\ f \in Work /\ f.wake = w.wake
            /\ \A c \in Client : c \in f.replies <=> c \in w.replies \/ w.st.wait = c
            /\ f.st = [w.st EXCEPT !.wait = None,
                                   !.timer = IF w.st.wait # None /\ @ = "running" THEN "done" ELSE @]
<1>1. w.st \in State /\ w.st.wait \in Client \cup {None} /\ w.st.timer \in {"none", "idle", "running", "done"}
  BY DEF Work, State
<1>2. CASE w.st.wait = None
  <2>1. FulfilWait(w) = w
    BY <1>2 DEF FulfilWait
  <2>2. w.st = [w.st EXCEPT !.wait = None, !.timer = IF w.st.wait # None /\ @ = "running" THEN "done" ELSE @]
    BY <1>1, <1>2 DEF State
  <2> QED BY <1>1, <1>2, <2>1, <2>2
<1>3. CASE w.st.wait # None
  <2> DEFINE r == Reply(w, w.st.wait)
             f == [r EXCEPT !.st.wait = None, !.st.timer = IF @ = "running" THEN "done" ELSE @]
             t == IF w.st.timer = "running" THEN "done" ELSE w.st.timer
  <2>1. r \in Work /\ r.st = w.st /\ r.wake = w.wake /\ r.replies = w.replies \cup {w.st.wait}
    BY <1>1, ReplyFacts
  <2>2. FulfilWait(w) = f
    BY <1>3 DEF FulfilWait
  <2> HIDE DEF r
  <2>3. f.st = [w.st EXCEPT !.wait = None, !.timer = t]
        /\ f.replies = r.replies /\ f.wake = r.wake
    BY <2>1 DEF Work
  <2>4. t \in {"none", "idle", "running", "done"}
    BY <1>1
  <2>5. [w.st EXCEPT !.wait = None, !.timer = t] \in State
    BY <1>1, <2>4, StateFields
  <2>6. f \in Work
    BY <2>1, <2>3, <2>5 DEF Work
  <2>7. f.st = [w.st EXCEPT !.wait = None,
                            !.timer = IF w.st.wait # None /\ @ = "running" THEN "done" ELSE @]
    BY <1>3, <2>3
  <2> HIDE DEF f
  <2>8. \A c \in Client : c \in f.replies <=> c \in w.replies \/ w.st.wait = c
    BY <2>1, <2>3
  <2> QED BY <2>1, <2>2, <2>3, <2>6, <2>7, <2>8
<1> QED BY <1>2, <1>3

\* Input, the end of it or a shutdown: nothing stays parked.
Fulfilled(w) == FulfilRead(FulfilWait(w))

\* Both, and nothing else but the ring changes.
LEMMA FulfilledFacts ==
  ASSUME NEW w \in Work, Unparks(w.st)
  PROVE  LET f == Fulfilled(w)
         IN /\ f \in Work /\ f.wake = w.wake
            /\ \A c \in Client : c \in f.replies <=> c \in w.replies \/ w.st.read = c \/ w.st.wait = c
            /\ f.st.read = None /\ f.st.wait = None
            /\ f.st.timer = IF w.st.wait # None /\ w.st.timer = "running" THEN "done" ELSE w.st.timer
            /\ f.st.mem = w.st.mem /\ f.st.refs = w.st.refs /\ f.st.listed = w.st.listed /\ f.st.port = w.st.port
            /\ f.st.shutdown = w.st.shutdown /\ f.st.force = w.st.force /\ f.st.out = w.st.out
            /\ f.st.exited = w.st.exited /\ f.st.task = w.st.task /\ f.st.closed = w.st.closed
<1> DEFINE v == FulfilWait(w)
<1>1. w.st \in State
  BY DEF Work
<1>2. /\ v \in Work /\ v.wake = w.wake
      /\ \A c \in Client : c \in v.replies <=> c \in w.replies \/ w.st.wait = c
      /\ v.st = [w.st EXCEPT !.wait = None,
                             !.timer = IF w.st.wait # None /\ @ = "running" THEN "done" ELSE @]
  BY FulfilWaitFacts
<1>3. Unparks(v.st) /\ v.st.read = w.st.read
  BY <1>1, <1>2 DEF Unparks, State
<1> HIDE DEF v
<1> DEFINE f == FulfilRead(v)
<1>4. /\ f \in Work /\ f.wake = v.wake
      /\ \A c \in Client : c \in f.replies <=> c \in v.replies \/ v.st.read = c
      /\ \E n \in 0..Ring : f.st = [v.st EXCEPT !.read = None, !.in = n]
  BY <1>2, <1>3, FulfilReadFacts
<1>5. Fulfilled(w) = f
  BY DEF Fulfilled, v
<1> HIDE DEF f
<1>6. PICK n \in 0..Ring : f.st = [v.st EXCEPT !.read = None, !.in = n]
  BY <1>4
<1>7. \A c \in Client : c \in f.replies <=> c \in w.replies \/ w.st.read = c \/ w.st.wait = c
  BY <1>2, <1>3, <1>4
<1> DEFINE t == IF w.st.wait # None /\ w.st.timer = "running" THEN "done" ELSE w.st.timer
<1>8. v.st = [w.st EXCEPT !.wait = None, !.timer = t]
  BY <1>2
<1> HIDE DEF t
<1>9. /\ v.st.wait = None /\ v.st.timer = t
      /\ v.st.mem = w.st.mem /\ v.st.refs = w.st.refs /\ v.st.listed = w.st.listed /\ v.st.port = w.st.port
      /\ v.st.shutdown = w.st.shutdown /\ v.st.force = w.st.force /\ v.st.out = w.st.out
      /\ v.st.exited = w.st.exited /\ v.st.task = w.st.task /\ v.st.closed = w.st.closed
  BY <1>1, <1>8 DEF State
<1>10. v.st \in State
  BY <1>2 DEF Work
<1>11. /\ f.st.read = None /\ f.st.wait = None /\ f.st.timer = t
       /\ f.st.mem = w.st.mem /\ f.st.refs = w.st.refs /\ f.st.listed = w.st.listed /\ f.st.port = w.st.port
       /\ f.st.shutdown = w.st.shutdown /\ f.st.force = w.st.force /\ f.st.out = w.st.out
       /\ f.st.exited = w.st.exited /\ f.st.task = w.st.task /\ f.st.closed = w.st.closed
  BY <1>6, <1>9, <1>10 DEF State
<1> QED BY <1>2, <1>4, <1>5, <1>7, <1>11 DEF t

-----------------------------------------------------------------------------
(* The packets the handler serves.                                          *)

\* The first packet is of type t and is answered by w.
Serves(t, w) == Serving(t) /\ Answers(w)

\* A served packet leaves the port.
LEMMA ServedAnswers == ASSUME ConsoleInv, NEW w, Served(w) PROVE Answers(w)
BY DEF ConsoleInv, ConsoleOK, Served, Answers

\* The packets are in the port because a client waits for the answer.
LEMMA AskerWaits ==
  ASSUME ConsoleInv, NEW t \in Packet, Serving(t)
  PROVE  /\ Asker \in Client /\ Waiting(Asker) /\ st.read # Asker /\ st.wait # Asker
         /\ t \in prog.asks[Asker] \cup {"END"} /\ (t = "OPEN" => held[Asker] < Handles)
         /\ hpc = "serve" /\ queue # <<>> /\ ~st.shutdown
<1> USE DEF ConsoleInv, ConsoleOK
<1>1. hpc = "serve" /\ queue # <<>> /\ ~st.shutdown /\ Head(queue).type = t
  BY DEF Serving
<1>2. Head(queue) = queue[1] /\ 1 \in DOMAIN queue /\ queue[1] \in Message
  BY <1>1
<1>3. queue[1] # Die
  BY <1>1, <1>2 DEF Die, Packet
<1>4. Asker \in Client /\ Asker = queue[1].from
  BY <1>2, <1>3, MessageFields DEF Asker
<1>5. Queued(Asker)
  BY <1>2, <1>4 DEF Queued
<1>6. Waiting(Asker) /\ st.read # Asker /\ st.wait # Asker
  BY <1>4, <1>5 DEF QueueInv
<1>7. t \in prog.asks[Asker] \cup {"END"} /\ (t = "OPEN" => held[Asker] < Handles)
  BY <1>1, <1>2, <1>4 DEF AsksInv
<1> QED BY <1>1, <1>4, <1>6, <1>7

\* The asker is answered and nothing changes that a parked packet depends on.
LEMMA AnswerStep ==
  ASSUME ConsoleInv, NEW t \in Packet, NEW w \in Work, Serves(t, w), UNCHANGED port,
         w.replies = {Asker}, w.st.out = st.out \/ w.wake, Kept(w.st),
         w.st.in = st.in, w.st.closed = st.closed, w.st.read = st.read, w.st.wait = st.wait,
         w.st.timer = st.timer \/ (st.timer = "done" /\ w.st.timer = "idle" /\ st.wait = None),
         w.st.exited = st.exited
  PROVE  ConsoleInv'
<1>1. /\ Asker \in Client /\ Waiting(Asker) /\ st.read # Asker /\ st.wait # Asker
      /\ hpc = "serve" /\ queue # <<>>
  BY AskerWaits DEF Serves
<1>2. Balanced({Asker} \cap Client, w)
  BY <1>1 DEF Balanced, ConsoleInv, QueueInv
<1>3. Parks(w.st)
  BY <1>1 DEF Parks, ConsoleInv, ParkInv, ParkedAndServed, AsksInv
<1>4. Tells(w)
  BY DEF Tells
<1> QED BY <1>1, <1>2, <1>3, <1>4, ServedStep DEF Serves

\* A packet that is answered and changes nothing.
LEMMA ReplyStep ==
  ASSUME ConsoleInv, NEW t \in Packet, Serves(t, Reply(Now, Asker)), UNCHANGED port
  PROVE  ConsoleInv'
<1>1. Asker \in Client
  BY AskerWaits DEF Serves
<1>2. /\ Reply(Now, Asker) \in Work /\ Reply(Now, Asker).st = st /\ Reply(Now, Asker).wake = FALSE
      /\ Reply(Now, Asker).replies = {Asker}
  BY <1>1, NowFacts, ReplyFacts DEF ConsoleInv
<1> HIDE DEF ConsoleInv
<1> QED BY <1>2, AnswerStep DEF Kept

\* A field that no parked packet depends on changes with the answer.
LEMMA ModeStep ==
  ASSUME ConsoleInv, NEW m \in {"RAW", "COOKED"}, Serves(m, [Reply(Now, Asker) EXCEPT !.st.raw = (m = "RAW")]), UNCHANGED port
  PROVE  ConsoleInv'
<1> DEFINE r == Reply(Now, Asker)
           w == [r EXCEPT !.st.raw = (m = "RAW")]
<1>1. m \in Packet
  BY DEF Packet
<1>2. Asker \in Client
  BY <1>1, AskerWaits DEF Serves
<1>3. r \in Work /\ r.st = st /\ r.wake = FALSE /\ r.replies = {Asker}
  BY <1>2, NowFacts, ReplyFacts DEF ConsoleInv
<1> HIDE DEF r
<1>4. st \in State
  BY DEF ConsoleInv, ConsoleOK
<1>5. w.st = [st EXCEPT !.raw = (m = "RAW")] /\ w.wake = FALSE /\ w.replies = {Asker}
  BY <1>3 DEF Work
<1>6. (m = "RAW") \in BOOLEAN
  OBVIOUS
<1>7. [st EXCEPT !.raw = (m = "RAW")] \in State
  BY <1>4, <1>6 DEF State
<1>8. w \in Work
  BY <1>3, <1>5, <1>7 DEF Work
<1>9. Serves(m, w)
  BY DEF r
<1> HIDE DEF w
<1>10. /\ Kept(w.st) /\ w.st.out = st.out /\ w.st.in = st.in /\ w.st.closed = st.closed /\ w.st.read = st.read
       /\ w.st.wait = st.wait /\ w.st.timer = st.timer /\ w.st.exited = st.exited
  BY <1>4, <1>5 DEF Kept, State
<1> QED BY <1>1, <1>5, <1>8, <1>9, <1>10, AnswerStep

\* WRITE: the output ring takes it and the main task is signalled.
LEMMA WriteStep ==
  ASSUME ConsoleInv, Serves("WRITE", Write(Now, Asker)), UNCHANGED port
  PROVE  ConsoleInv'
<1> DEFINE r == Reply(Now, Asker)
           w == [r EXCEPT !.st.out = rp_push(@), !.wake = TRUE]
<1>1. "WRITE" \in Packet
  BY DEF Packet
<1>2. Asker \in Client
  BY <1>1, AskerWaits DEF Serves
<1>3. r \in Work /\ r.st = st /\ r.wake = FALSE /\ r.replies = {Asker}
  BY <1>2, NowFacts, ReplyFacts DEF ConsoleInv
<1>4. Serves("WRITE", w)
  BY DEF Write
<1> HIDE DEF r
<1>5. st \in State
  BY DEF ConsoleInv, ConsoleOK
<1>6. w.st = [st EXCEPT !.out = rp_push(st.out)] /\ w.wake = TRUE /\ w.replies = {Asker}
  BY <1>3 DEF Work
<1>7. st.out \in 0..Ring
  BY <1>5 DEF State
<1>8. rp_push(st.out) \in 0..Ring
  BY <1>7, RingBounds
<1>9. [st EXCEPT !.out = rp_push(st.out)] \in State
  BY <1>5, <1>8 DEF State
<1>10. w \in Work
  BY <1>3, <1>6, <1>9 DEF Work
<1> HIDE DEF w
<1>11. /\ Kept(w.st) /\ w.st.in = st.in /\ w.st.closed = st.closed /\ w.st.read = st.read
       /\ w.st.wait = st.wait /\ w.st.timer = st.timer /\ w.st.exited = st.exited
  BY <1>5, <1>6 DEF Kept, State
<1> QED BY <1>1, <1>4, <1>6, <1>10, <1>11, AnswerStep

\* The count of open handles follows.
LEMMA OpensStep ==
  ASSUME ConsoleInv, NEW t \in Packet, NEW n \in Nat, NEW b \in BOOLEAN,
         Serves(t, [Reply(Now, Asker) EXCEPT !.st.opens = n, !.st.any = b]), UNCHANGED port
  PROVE  ConsoleInv'
<1> DEFINE r == Reply(Now, Asker)
           w == [r EXCEPT !.st.opens = n, !.st.any = b]
<1>1. Asker \in Client
  BY AskerWaits DEF Serves
<1>2. r \in Work /\ r.st = st /\ r.wake = FALSE /\ r.replies = {Asker}
  BY <1>1, NowFacts, ReplyFacts DEF ConsoleInv
<1>3. Serves(t, w)
  OBVIOUS
<1> HIDE DEF r
<1>4. st \in State
  BY DEF ConsoleInv, ConsoleOK
<1>5. w.st = [st EXCEPT !.opens = n, !.any = b] /\ w.wake = FALSE /\ w.replies = {Asker}
  BY <1>2 DEF Work
<1>6. [st EXCEPT !.opens = n, !.any = b] \in State
  BY <1>4 DEF State
<1>7. w \in Work
  BY <1>2, <1>5, <1>6 DEF Work
<1> HIDE DEF w
<1>8. /\ Kept(w.st) /\ w.st.out = st.out /\ w.st.in = st.in /\ w.st.closed = st.closed /\ w.st.read = st.read
      /\ w.st.wait = st.wait /\ w.st.timer = st.timer /\ w.st.exited = st.exited
  BY <1>4, <1>5 DEF Kept, State
<1> QED BY <1>3, <1>5, <1>7, <1>8, AnswerStep

\* FINDINPUT and its like: one more open handle.
LEMMA OpenHandleStep ==
  ASSUME ConsoleInv, OpenHandle, UNCHANGED port
  PROVE  ConsoleInv'
<1> DEFINE r == Reply(Now, Asker)
<1>1. "OPEN" \in Packet
  BY DEF Packet
<1>2. Asker \in Client /\ held[Asker] < Handles
  BY <1>1, AskerWaits DEF OpenHandle
<1>3. r \in Work /\ r.st = st
  BY <1>2, NowFacts, ReplyFacts DEF ConsoleInv
<1>4. st.opens + 1 \in Nat
  BY DEF ConsoleInv, ConsoleOK, State
<1>5. [r EXCEPT !.st.opens = @ + 1, !.st.any = TRUE] = [r EXCEPT !.st.opens = st.opens + 1, !.st.any = TRUE]
  BY <1>3 DEF Work
<1>6. held' \in [Client -> 0..Handles] /\ \A c \in Client \ {Asker} : held'[c] = held[c]
  <2>1. held' = [held EXCEPT ![Asker] = @ + 1] /\ held \in [Client -> 0..Handles]
    BY DEF OpenHandle, ConsoleInv, ConsoleOK
  <2>2. held[Asker] + 1 \in 0..Handles
    BY <1>2, <2>1, Sizes
  <2> QED BY <1>2, <2>1, <2>2
<1>7. locks' \in Locks
  BY DEF OpenHandle, ConsoleInv, ConsoleOK
<1>8. Serves("OPEN", [r EXCEPT !.st.opens = st.opens + 1, !.st.any = TRUE])
  BY <1>5, <1>6, <1>7 DEF OpenHandle, Serves, Answers
<1> QED BY <1>1, <1>4, <1>8, OpensStep

\* END: one open handle less.
LEMMA EndStep ==
  ASSUME ConsoleInv, Serves("END", [Reply(Now, Asker) EXCEPT !.st.opens = rp_pop(@)]), UNCHANGED port
  PROVE  ConsoleInv'
<1> DEFINE r == Reply(Now, Asker)
<1>1. "END" \in Packet
  BY DEF Packet
<1>2. Asker \in Client
  BY <1>1, AskerWaits DEF Serves
<1>3. r \in Work /\ r.st = st
  BY <1>2, NowFacts, ReplyFacts DEF ConsoleInv
<1>4. rp_pop(st.opens) \in Nat /\ st.any \in BOOLEAN
  BY DEF ConsoleInv, ConsoleOK, State, rp_pop
<1>5. [r EXCEPT !.st.opens = rp_pop(@)] = [r EXCEPT !.st.opens = rp_pop(st.opens), !.st.any = st.any]
  BY <1>3 DEF Work, State
<1> QED BY <1>1, <1>4, <1>5, OpensStep

\* The packet that takes a lock from the pool.
LEMMA GrantLockStep ==
  ASSUME ConsoleInv, GrantLock, UNCHANGED port
  PROVE  ConsoleInv'
<1> DEFINE p == IF st.exited THEN {} ELSE st.pool
           r == Reply(Now, Asker)
           w == [r EXCEPT !.st.pool = @ \ {First(p)}]
<1>1. "LOCK" \in Packet
  BY DEF Packet
<1>2. Asker \in Client
  BY <1>1, AskerWaits DEF GrantLock
<1>3. r \in Work /\ r.st = st /\ r.wake = FALSE /\ r.replies = {Asker}
  BY <1>2, NowFacts, ReplyFacts DEF ConsoleInv
<1>4. st \in State /\ st.pool \in SUBSET Slot /\ locks \in Locks /\ held \in [Client -> 0..Handles]
  BY DEF ConsoleInv, ConsoleOK, State
<1>5. CASE p = {}
  <2>1. Serves("LOCK", r)
    BY <1>4, <1>5 DEF GrantLock, Serves, Answers
  <2> QED BY <1>1, <2>1, ReplyStep
<1>6. CASE p # {}
  <2>1. p \in SUBSET Slot
    BY <1>4
  <2>2. First(p) \in Slot
    BY <1>6, <2>1, FirstSlot
  <2> HIDE DEF p, r
  <2>3. locks' = [locks EXCEPT !.client = @ \cup {First(p)}]
    BY <1>6 DEF GrantLock, p
  <2>4. locks' \in Locks
    BY <1>4, <2>2, <2>3 DEF Locks
  <2>5. Serves("LOCK", w)
    BY <1>4, <1>6, <2>4 DEF GrantLock, Serves, Answers, p, r
  <2>6. w.st = [st EXCEPT !.pool = st.pool \ {First(p)}] /\ w.wake = FALSE /\ w.replies = {Asker}
    BY <1>3 DEF Work
  <2>7. [st EXCEPT !.pool = st.pool \ {First(p)}] \in State
    BY <1>4 DEF State
  <2>8. w \in Work
    BY <1>3, <2>6, <2>7 DEF Work
  <2> HIDE DEF w
  <2>9. /\ Kept(w.st) /\ w.st.out = st.out /\ w.st.in = st.in /\ w.st.closed = st.closed /\ w.st.read = st.read
        /\ w.st.wait = st.wait /\ w.st.timer = st.timer /\ w.st.exited = st.exited
    BY <1>4, <2>6 DEF Kept, State
  <2> QED BY <1>1, <2>5, <2>6, <2>8, <2>9, AnswerStep
<1> QED BY <1>5, <1>6

\* A READ takes what is there, or parks, or takes the place of one that did.
LEMMA ServeReadStep ==
  ASSUME ConsoleInv, Serves("READ", Read(Now, Asker)), UNCHANGED port
  PROVE  ConsoleInv'
<1> DEFINE r == Reply(Now, Asker)
<1>1. "READ" \in Packet
  BY DEF Packet
<1>2. /\ Asker \in Client /\ Waiting(Asker) /\ st.read # Asker /\ st.wait # Asker
      /\ hpc = "serve" /\ queue # <<>>
  BY <1>1, AskerWaits DEF Serves
<1>3. r \in Work /\ r.st = st /\ r.wake = FALSE /\ r.replies = {Asker}
  BY <1>2, NowFacts, ReplyFacts DEF ConsoleInv
<1>4. st \in State /\ st.in \in 0..Ring /\ st.read \in Client \cup {None} /\ st.wait \in Client \cup {None}
  BY DEF ConsoleInv, ConsoleOK, State
<1>5. Now \in Work /\ Now.st = st /\ Now.replies = {} /\ Now.wake = FALSE
  BY NowFacts DEF ConsoleInv
<1>6. st.in > 0 => st.read = None /\ st.wait = None
  BY <1>4 DEF ConsoleInv, ParkInv, ParkedAndServed
<1>7. CASE st.in > 0
  <2> DEFINE w == [r EXCEPT !.st.in = rp_pop(@)]
  <2>1. Serves("READ", w)
    BY <1>5, <1>7 DEF Read
  <2> HIDE DEF r
  <2>2. w.st = [st EXCEPT !.in = rp_pop(st.in)] /\ w.wake = FALSE /\ w.replies = {Asker}
    BY <1>3 DEF Work
  <2>3. rp_pop(st.in) \in 0..Ring
    BY <1>4, RingBounds
  <2>4. [st EXCEPT !.in = rp_pop(st.in)] \in State
    BY <1>4, <2>3 DEF State
  <2>5. w \in Work
    BY <1>3, <2>2, <2>4 DEF Work
  <2> HIDE DEF w
  <2>6. /\ Kept(w.st) /\ w.st.out = st.out /\ w.st.closed = st.closed /\ w.st.read = None
        /\ w.st.wait = None /\ w.st.timer = st.timer /\ w.st.exited = st.exited
    BY <1>4, <1>6, <1>7, <2>2 DEF Kept, State
  <2>7. Balanced({Asker} \cap Client, w)
    BY <1>2, <1>6, <1>7, <2>2, <2>6 DEF Balanced
  <2>8. Parks(w.st)
    BY <1>6, <1>7, <2>6 DEF Parks, ConsoleInv, ParkInv, ParkedAndServed
  <2>9. Tells(w)
    BY <2>6 DEF Tells
  <2> QED BY <1>2, <2>1, <2>5, <2>6, <2>7, <2>8, <2>9, ServedStep DEF Serves
<1>8. CASE ~(st.in > 0) /\ (st.closed \/ st.raw)
  <2>1. Serves("READ", r)
    BY <1>5, <1>8 DEF Read
  <2> QED BY <1>1, <2>1, ReplyStep
<1>9. CASE ~(st.in > 0) /\ ~(st.closed \/ st.raw) /\ st.read = None
  <2> DEFINE n == Now
             w == [n EXCEPT !.st.read = Asker]
  <2>1. Serves("READ", w)
    BY <1>5, <1>9 DEF Read
  <2>2. n \in Work /\ n.st = st /\ n.replies = {} /\ n.wake = FALSE
    BY <1>5
  <2> HIDE DEF n
  <2>3. w.st = [st EXCEPT !.read = Asker] /\ w.wake = FALSE /\ w.replies = {}
    BY <2>2 DEF Work
  <2>4. [st EXCEPT !.read = Asker] \in State
    BY <1>2, <1>4 DEF State
  <2>5. w \in Work
    BY <2>2, <2>3, <2>4 DEF Work
  <2> HIDE DEF w
  <2>6. /\ Kept(w.st) /\ w.st.out = st.out /\ w.st.closed = st.closed /\ w.st.read = Asker /\ w.st.in = st.in
        /\ w.st.wait = st.wait /\ w.st.timer = st.timer /\ w.st.exited = st.exited
    BY <1>4, <2>3 DEF Kept, State
  <2>7. Balanced({Asker} \cap Client, w)
    BY <1>2, <1>9, <2>3, <2>6 DEF Balanced, ConsoleInv, QueueInv
  <2>8. Parks(w.st)
    BY <1>2, <1>4, <1>9, <2>6 DEF Parks, ConsoleInv, ParkInv, ParkedAndServed, AsksInv
  <2>9. Tells(w)
    BY <2>6 DEF Tells
  <2> QED BY <1>2, <2>1, <2>5, <2>6, <2>7, <2>8, <2>9, ServedStep DEF Serves
<1>10. CASE ~(st.in > 0) /\ ~(st.closed \/ st.raw) /\ st.read # None
  <2> DEFINE q == Reply(Now, st.read)
             w == [q EXCEPT !.st.read = Asker]
  <2>1. Serves("READ", w)
    BY <1>5, <1>10 DEF Read
  <2>2. q \in Work /\ q.st = st /\ q.wake = FALSE /\ q.replies = {st.read}
    BY <1>4, <1>5, ReplyFacts
  <2> HIDE DEF q
  <2>3. w.st = [st EXCEPT !.read = Asker] /\ w.wake = FALSE /\ w.replies = {st.read}
    BY <2>2 DEF Work
  <2>4. [st EXCEPT !.read = Asker] \in State
    BY <1>2, <1>4 DEF State
  <2>5. w \in Work
    BY <2>2, <2>3, <2>4 DEF Work
  <2> HIDE DEF w
  <2>6. /\ Kept(w.st) /\ w.st.out = st.out /\ w.st.closed = st.closed /\ w.st.read = Asker /\ w.st.in = st.in
        /\ w.st.wait = st.wait /\ w.st.timer = st.timer /\ w.st.exited = st.exited
    BY <1>4, <2>3 DEF Kept, State
  <2>7. Balanced({Asker} \cap Client, w)
    BY <1>2, <1>10, <2>3, <2>6 DEF Balanced, ConsoleInv, QueueInv
  <2>8. Parks(w.st)
    BY <1>2, <1>4, <1>10, <2>6 DEF Parks, ConsoleInv, ParkInv, ParkedAndServed, AsksInv
  <2>9. Tells(w)
    BY <2>6 DEF Tells
  <2> QED BY <1>2, <2>1, <2>5, <2>6, <2>7, <2>8, <2>9, ServedStep DEF Serves
<1> QED BY <1>7, <1>8, <1>9, <1>10

\* A WAIT_CHAR parks when it has the timer, and is answered otherwise.
LEMMA WaitStep ==
  ASSUME ConsoleInv, port # "aros", NEW t \in {"WAIT", "POLL"}, Serves(t, WaitChar(Now, Asker, t = "WAIT")), UNCHANGED port
  PROVE  ConsoleInv'
<1> DEFINE s == IF Now.st.timer = "done" THEN [Now EXCEPT !.st.timer = "idle"] ELSE Now
           tm == IF st.timer = "done" THEN "idle" ELSE st.timer
<1>1. t \in Packet
  BY DEF Packet
<1>2. /\ Asker \in Client /\ Waiting(Asker) /\ st.read # Asker /\ st.wait # Asker
      /\ t \in prog.asks[Asker] /\ hpc = "serve" /\ queue # <<>>
  BY <1>1, AskerWaits DEF Serves
<1>3. st \in State /\ st.timer \in {"none", "idle", "running", "done"} /\ st.wait \in Client \cup {None}
      /\ st.in \in 0..Ring
  BY DEF ConsoleInv, ConsoleOK, State
<1>4. Now \in Work /\ Now.st = st /\ Now.replies = {} /\ Now.wake = FALSE
  BY NowFacts DEF ConsoleInv
<1>5. tm \in {"none", "idle", "running"} /\ [st EXCEPT !.timer = tm] \in State
  BY <1>3 DEF State
<1>6. s.st = [st EXCEPT !.timer = tm] /\ s.replies = {} /\ s.wake = FALSE /\ s \in Work
  <2> DEFINE n == Now
  <2>1. n \in Work /\ n.st = st /\ n.replies = {} /\ n.wake = FALSE
    BY <1>4
  <2>2. s = IF st.timer = "done" THEN [n EXCEPT !.st.timer = "idle"] ELSE n
    BY <1>4
  <2> HIDE DEF n, s
  <2>3. CASE st.timer = "done"
    <3>1. s.st = [st EXCEPT !.timer = tm] /\ s.replies = {} /\ s.wake = FALSE
      BY <2>1, <2>2, <2>3 DEF Work
    <3> QED BY <1>5, <2>1, <2>2, <2>3, <3>1 DEF Work
  <2>4. CASE st.timer # "done"
    <3>1. [st EXCEPT !.timer = tm] = st
      BY <1>3, <2>4 DEF State
    <3> QED BY <2>1, <2>2, <2>4, <3>1
  <2> QED BY <2>3, <2>4
<1>7. WaitChar(Now, Asker, t = "WAIT") =
        IF s.st.in = 0 /\ ~s.st.closed /\ s.st.timer = "idle" /\ s.st.wait = None /\ t = "WAIT"
        THEN [s EXCEPT !.st.wait = Asker, !.st.timer = "running"]
        ELSE Reply(s, Asker)
  BY DEF WaitChar
<1> HIDE DEF s
<1>8. /\ Kept(s.st) /\ s.st.out = st.out /\ s.st.closed = st.closed /\ s.st.read = st.read /\ s.st.in = st.in
      /\ s.st.wait = st.wait /\ s.st.timer = tm /\ s.st.exited = st.exited
  BY <1>3, <1>6 DEF Kept, State
<1>9. CASE s.st.in = 0 /\ ~s.st.closed /\ s.st.timer = "idle" /\ s.st.wait = None /\ t = "WAIT"
  <2> DEFINE w == [s EXCEPT !.st.wait = Asker, !.st.timer = "running"]
  <2>1. Serves("WAIT", w)
    BY <1>7, <1>9
  <2>2. s.st \in State
    BY <1>6 DEF Work
  <2>3. w.st = [s.st EXCEPT !.wait = Asker, !.timer = "running"] /\ w.wake = FALSE /\ w.replies = {}
    BY <1>6 DEF Work
  <2>4. [s.st EXCEPT !.wait = Asker, !.timer = "running"] \in State
    BY <1>2, <2>2, StateFields
  <2>5. w \in Work
    BY <1>6, <2>3, <2>4 DEF Work
  <2> HIDE DEF w
  <2>6. /\ w.st.mem = s.st.mem /\ w.st.refs = s.st.refs /\ w.st.listed = s.st.listed /\ w.st.port = s.st.port
        /\ w.st.shutdown = s.st.shutdown /\ w.st.force = s.st.force
        /\ w.st.out = s.st.out /\ w.st.closed = s.st.closed /\ w.st.read = s.st.read /\ w.st.in = s.st.in
        /\ w.st.wait = Asker /\ w.st.timer = "running" /\ w.st.exited = s.st.exited
    BY <2>2, <2>3 DEF State
  <2>7. Kept(w.st)
    BY <1>8, <2>6 DEF Kept
  <2>8. Balanced({Asker} \cap Client, w)
    <3>1. Asker \in Client /\ st.read # Asker /\ st.wait = None /\ w.replies = {}
      BY <1>2, <1>8, <1>9, <2>3 DEF ConsoleInv, QueueInv
    <3>2. w.st.read = st.read /\ w.st.wait = Asker
      BY <1>8, <2>6
    <3> QED BY <3>1, <3>2 DEF Balanced
  <2>9. Parks(w.st)
    BY <1>2, <1>8, <1>9, <2>6 DEF Parks, ConsoleInv, ParkInv, ParkedAndServed
  <2>10. Tells(w)
    BY <1>8, <2>6 DEF Tells
  <2> QED BY <1>2, <2>1, <2>5, <2>7, <2>8, <2>9, <2>10, ServedStep DEF Serves
<1>10. CASE ~(s.st.in = 0 /\ ~s.st.closed /\ s.st.timer = "idle" /\ s.st.wait = None /\ t = "WAIT")
  <2> DEFINE w == Reply(s, Asker)
  <2>1. Serves(t, w)
    BY <1>7, <1>10
  <2>2. w \in Work /\ w.st = s.st /\ w.wake = FALSE /\ w.replies = {Asker}
    BY <1>2, <1>6, ReplyFacts
  <2> HIDE DEF w
  <2>3. Kept(w.st)
    BY <1>8, <2>2 DEF Kept
  <2>4. Balanced({Asker} \cap Client, w)
    BY <1>2, <1>8, <2>2 DEF Balanced, ConsoleInv, QueueInv
  <2>5. tm # "running" => st.timer # "running"
    BY <1>3
  <2>6. st.wait # None => tm \in {"running", "done"} \/ \A c \in Client : prog.asks[c] \cap {"WAIT", "POLL"} # {}
    <3>1. st.wait # None => st.wait \in Client /\ st.wait # Asker /\ "WAIT" \in prog.asks[st.wait]
      BY <1>2, <1>3 DEF ConsoleInv, AsksInv
    <3>2. st.wait # None => \A c \in Client : c = Asker \/ c = st.wait
      BY <1>2, <3>1
    <3> QED BY <1>2, <3>1, <3>2
  <2>7. Parks(w.st)
    BY <1>3, <1>8, <2>2, <2>6 DEF Parks, ConsoleInv, ParkInv, ParkedAndServed, AsksInv
  <2>8. Tells(w)
    BY <1>8, <2>2 DEF Tells
  <2> QED BY <1>2, <2>1, <2>2, <2>3, <2>4, <2>7, <2>8, ServedStep DEF Serves
<1> QED BY <1>9, <1>10

-----------------------------------------------------------------------------
(* Sections that end what is parked.                                        *)

\* What Fulfilled makes of the present state with some fields changed, where
\* this ends a parked packet.
LEMMA EndsParked ==
  ASSUME ConsoleInv, NEW w \in Work, Unparks(w.st), w.replies = {},
         w.st.read = st.read, w.st.wait = st.wait, w.st.timer = st.timer
  PROVE  LET f == Fulfilled(w)
         IN /\ f \in Work /\ f.wake = w.wake /\ Balanced({}, f) /\ Parks(f.st)
            /\ f.st.read = None /\ f.st.wait = None
            /\ f.st.timer = st.timer \/ (st.timer = "running" /\ f.st.timer = "done")
            /\ \A c \in Client : c \in f.replies <=> st.read = c \/ st.wait = c
            /\ f.st.mem = w.st.mem /\ f.st.refs = w.st.refs /\ f.st.listed = w.st.listed /\ f.st.port = w.st.port
            /\ f.st.shutdown = w.st.shutdown /\ f.st.force = w.st.force /\ f.st.out = w.st.out
            /\ f.st.exited = w.st.exited /\ f.st.task = w.st.task /\ f.st.closed = w.st.closed
<1> DEFINE f == Fulfilled(w)
<1>1. /\ f \in Work /\ f.wake = w.wake
      /\ \A c \in Client : c \in f.replies <=> c \in w.replies \/ w.st.read = c \/ w.st.wait = c
      /\ f.st.read = None /\ f.st.wait = None
      /\ f.st.timer = IF w.st.wait # None /\ w.st.timer = "running" THEN "done" ELSE w.st.timer
      /\ f.st.mem = w.st.mem /\ f.st.refs = w.st.refs /\ f.st.listed = w.st.listed /\ f.st.port = w.st.port
      /\ f.st.shutdown = w.st.shutdown /\ f.st.force = w.st.force /\ f.st.out = w.st.out
      /\ f.st.exited = w.st.exited /\ f.st.task = w.st.task /\ f.st.closed = w.st.closed
  BY FulfilledFacts
<1> HIDE DEF f
<1>2. \A c \in Client : c \in f.replies <=> st.read = c \/ st.wait = c
  BY <1>1
<1>3. st.timer = "running" => st.wait # None
  BY DEF ConsoleInv, ParkInv, ParkedAndServed
<1>4. f.st.timer = IF st.timer = "running" THEN "done" ELSE st.timer
  BY <1>1, <1>3
<1>5. Balanced({}, f)
  BY <1>1, <1>2 DEF Balanced
<1>6. Parks(f.st)
  BY <1>1, <1>4 DEF Parks, ConsoleInv, ParkInv
<1> QED BY <1>1, <1>2, <1>4, <1>5, <1>6 DEF f

\* Bytes go into the input ring.
LEMMA TypedFacts ==
  ASSUME ConsoleInv
  PROVE  /\ Typed \in Work /\ Typed.st = [st EXCEPT !.in = rp_push(st.in)]
         /\ Typed.replies = {} /\ Typed.wake = FALSE /\ Unparks(Typed.st)
         /\ Typed.st.read = st.read /\ Typed.st.wait = st.wait /\ Typed.st.timer = st.timer
         /\ Kept(Typed.st) /\ Typed.st.out = st.out /\ Typed.st.exited = st.exited
<1> DEFINE n == Now
           w == [n EXCEPT !.st.in = rp_push(@)]
<1>1. n \in Work /\ n.st = st /\ n.replies = {} /\ n.wake = FALSE
  BY NowFacts DEF ConsoleInv
<1>2. Typed = w
  BY DEF Typed
<1> HIDE DEF n
<1>3. st \in State /\ st.in \in 0..Ring
  BY DEF ConsoleInv, ConsoleOK, State
<1>4. rp_push(st.in) \in 0..Ring /\ rp_push(st.in) > 0
  BY <1>3, RingBounds
<1>5. w.st = [st EXCEPT !.in = rp_push(st.in)] /\ w.replies = {} /\ w.wake = FALSE
  BY <1>1 DEF Work
<1>6. [st EXCEPT !.in = rp_push(st.in)] \in State
  BY <1>3, <1>4 DEF State
<1>7. w \in Work
  BY <1>1, <1>5, <1>6 DEF Work
<1> HIDE DEF w
<1> QED BY <1>2, <1>3, <1>4, <1>5, <1>7 DEF State, Unparks, Kept

\* The asker is answered after what was parked.
LEMMA EndedStep ==
  ASSUME ConsoleInv, NEW t \in Packet, NEW f \in Work, Serves(t, Reply(f, Asker)), UNCHANGED port,
         Kept(f.st), Balanced({}, f), f.st.read = None, f.st.wait = None, Parks(f.st), Tells(f)
  PROVE  ConsoleInv'
<1>1. /\ Asker \in Client /\ Waiting(Asker) /\ st.read # Asker /\ st.wait # Asker
      /\ hpc = "serve" /\ queue # <<>>
  BY AskerWaits DEF Serves
<1> DEFINE w == Reply(f, Asker)
<1>2. w \in Work /\ w.st = f.st /\ w.wake = f.wake /\ w.replies = f.replies \cup {Asker}
  BY <1>1, ReplyFacts
<1>3. Serves(t, w)
  OBVIOUS
<1> HIDE DEF w
<1>4. Balanced({Asker} \cap Client, w)
  BY <1>1, <1>2 DEF Balanced
<1>5. Kept(w.st) /\ Parks(w.st) /\ Tells(w)
  BY <1>2 DEF Tells
<1> QED BY <1>1, <1>2, <1>3, <1>4, <1>5, ServedStep DEF Serves

\* WRITE of a cursor-position request: the answer is typed into the input ring,
\* which may answer what is parked.
LEMMA ProbeStep ==
  ASSUME ConsoleInv, Serves("PROBE", Reply(Fulfilled(Typed), Asker)), UNCHANGED port
  PROVE  ConsoleInv'
<1> DEFINE w == Typed
           f == Fulfilled(w)
<1>1. /\ w \in Work /\ w.replies = {} /\ w.wake = FALSE /\ Unparks(w.st)
      /\ w.st.read = st.read /\ w.st.wait = st.wait /\ w.st.timer = st.timer
      /\ Kept(w.st) /\ w.st.out = st.out /\ w.st.exited = st.exited
  BY TypedFacts
<1>2. Serves("PROBE", Reply(f, Asker))
  OBVIOUS
<1> HIDE DEF w
<1>3. /\ f \in Work /\ f.wake = w.wake /\ Balanced({}, f) /\ Parks(f.st)
      /\ f.st.read = None /\ f.st.wait = None
      /\ f.st.mem = w.st.mem /\ f.st.refs = w.st.refs /\ f.st.listed = w.st.listed /\ f.st.port = w.st.port
      /\ f.st.shutdown = w.st.shutdown /\ f.st.force = w.st.force /\ f.st.out = w.st.out
      /\ f.st.exited = w.st.exited
  BY <1>1, EndsParked
<1> HIDE DEF f
<1>4. Kept(f.st) /\ Tells(f)
  BY <1>1, <1>3 DEF Kept, Tells
<1>5. "PROBE" \in Packet
  BY DEF Packet
<1> QED BY <1>2, <1>3, <1>4, <1>5, EndedStep

\* The close of the last handle is the child's exit (morphos signals it).
LEMMA LastEndStep ==
  ASSUME ConsoleInv, port # "amigaos", NEW b \in BOOLEAN, b \/ port = "aros",
         NEW e, e = [Now EXCEPT !.st.opens = rp_pop(@), !.st.exited = TRUE, !.st.closed = TRUE, !.wake = b],
         Serves("END", Reply(Fulfilled(e), Asker)), UNCHANGED port
  PROVE  ConsoleInv'
<1> DEFINE n == Now
           f == Fulfilled(e)
<1>1. n \in Work /\ n.st = st /\ n.replies = {} /\ n.wake = FALSE
  BY NowFacts DEF ConsoleInv
<1>2. e = [n EXCEPT !.st.opens = rp_pop(@), !.st.exited = TRUE, !.st.closed = TRUE, !.wake = b]
  OBVIOUS
<1> HIDE DEF n
<1>3. st \in State
  BY DEF ConsoleInv, ConsoleOK
<1>4. rp_pop(st.opens) \in Nat
  BY <1>3 DEF State, rp_pop
<1>5. e.st = [st EXCEPT !.opens = rp_pop(st.opens), !.exited = TRUE, !.closed = TRUE] /\ e.replies = {} /\ e.wake = b
  BY <1>1, <1>2 DEF Work
<1>6. [st EXCEPT !.opens = rp_pop(st.opens), !.exited = TRUE, !.closed = TRUE] \in State
  BY <1>3, <1>4 DEF State
<1>7. e \in Work
  BY <1>1, <1>2, <1>5, <1>6 DEF Work
<1> DEFINE s == [st EXCEPT !.opens = rp_pop(st.opens), !.exited = TRUE, !.closed = TRUE]
<1>8. /\ Unparks(e.st) /\ e.st.read = st.read /\ e.st.wait = st.wait /\ e.st.timer = st.timer
      /\ Kept(e.st) /\ e.st.out = st.out /\ e.st.exited = TRUE
  <2>1. /\ s.closed /\ s.read = st.read /\ s.wait = st.wait /\ s.timer = st.timer
        /\ s.out = st.out /\ s.exited = TRUE
    BY <1>3 DEF State
  <2>2. /\ s.mem = st.mem /\ s.refs = st.refs /\ s.listed = st.listed /\ s.port = st.port
        /\ s.shutdown = st.shutdown /\ s.force = st.force
    BY <1>3 DEF State
  <2>3. e.st = s
    BY <1>5
  <2> HIDE DEF s
  <2> QED BY <2>1, <2>2, <2>3 DEF Unparks, Kept
<1>9. /\ f \in Work /\ f.wake = e.wake /\ Balanced({}, f) /\ Parks(f.st)
      /\ f.st.read = None /\ f.st.wait = None
      /\ f.st.mem = e.st.mem /\ f.st.refs = e.st.refs /\ f.st.listed = e.st.listed /\ f.st.port = e.st.port
      /\ f.st.shutdown = e.st.shutdown /\ f.st.force = e.st.force /\ f.st.out = e.st.out
      /\ f.st.exited = e.st.exited
  BY <1>5, <1>7, <1>8, EndsParked
<1>10. Serves("END", Reply(f, Asker))
  OBVIOUS
<1> HIDE DEF f
<1>11. Kept(f.st)
  BY <1>8, <1>9 DEF Kept
<1>12. "END" \in Packet
  BY DEF Packet
<1>13. Asker \in Client /\ Waiting(Asker) /\ hpc = "serve"
  BY <1>12, AskerWaits DEF Serves
<1>14. cpc[Child] # "off" /\ cpc[Child] # "lost"
  BY <1>13 DEF ConsoleInv, LifeInv, EndInv, Waiting
<1>15. port = "aros" /\ ~st.exited => cpc[Child] \in {"run", "wait", "exit"}
  BY <1>14 DEF ConsoleInv, ConsoleOK, ClientPc, LifeInv, WakeInv
<1>16. Tells(f)
  <2>1. st.exited \in BOOLEAN
    BY <1>3 DEF State
  <2> QED BY <1>5, <1>8, <1>9, <1>15, <2>1 DEF Tells
<1> QED BY <1>9, <1>10, <1>11, <1>12, <1>16, EndedStep

-----------------------------------------------------------------------------
(* The handler between two packets.                                         *)

\* A section that serves no packet takes none from the port.
LEMMA NothingTaken == ASSUME ConsoleInv, UNCHANGED queue PROVE Takes({})
BY DEF Takes, ConsoleInv, ConsoleOK, QueueInv, Queued

\* What the handler does by itself while it has a port.
LEMMA HandlerMoves ==
  ASSUME ConsoleInv, hpc \in Active, hpc' \in Active, UNCHANGED <<queue, cpc, held, mpc, back, prog, locks, port>>,
         NEW t \in {"none", "idle", "running", "done"}, st' = [st EXCEPT !.timer = t], ParkInv',
         hpc' \in Leaving => hpc \in Leaving
  PROVE  ConsoleInv'
<1> USE DEF ConsoleInv, ConsoleOK
<1>1. st' \in State
  BY DEF State
<1>2. ConsoleOK'
  BY <1>1 DEF Active, HandlerPc
<1>3. /\ st'.mem = st.mem /\ st'.refs = st.refs /\ st'.port = st.port /\ st'.shutdown = st.shutdown /\ st'.force = st.force
      /\ st'.out = st.out /\ st'.exited = st.exited /\ st'.read = st.read /\ st'.wait = st.wait
  BY DEF State
<1>4. HandleInv' /\ PinsInv'
  BY DEF HandleInv, PinsInv, Dying
<1>5. LifeInv' /\ RefsInv'
  BY <1>3 DEF LifeInv, RefsInv, Freers, InExit, Active, Count
<1>6. QueueInv' /\ AsksInv'
  BY <1>3, QueueFrame DEF Waiting, AsksInv
<1>7. EndInv' /\ WakeInv'
  BY <1>3 DEF EndInv, WakeInv, NoLostWake, WakeToCome, Active
<1> QED BY <1>2, <1>4, <1>5, <1>6, <1>7

\* The handler opens its port.
LEMMA EntryStep ==
  ASSUME ConsoleInv, NEW T \in SUBSET {"none", "idle"}, Entry(T), T = {"none"} \/ port # "aros", UNCHANGED port
  PROVE  ConsoleInv'
<1>1. PICK t \in T : st' = [st EXCEPT !.timer = t]
  BY DEF Entry
<1>2. hpc = "entry" /\ hpc' = "wait" /\ UNCHANGED <<queue, cpc, held, mpc, back, prog, locks, port>>
  BY DEF Entry, Handler
<1>3. ParkInv'
  BY <1>1, <1>2 DEF ConsoleInv, ConsoleOK, State, ParkInv, ParkedAndServed
<1> QED BY <1>1, <1>2, <1>3, HandlerMoves DEF Active, Leaving

\* The handler wakes for the timer.
LEMMA WakeByTimerStep ==
  ASSUME ConsoleInv, WakeByTimer, UNCHANGED port
  PROVE  ConsoleInv'
<1>1. st.timer = "done" /\ st' = [st EXCEPT !.timer = "idle"]
      /\ hpc = "wait" /\ hpc' = "tick" /\ UNCHANGED <<queue, cpc, held, mpc, back, prog, locks, port>>
  BY DEF WakeByTimer, Handler
<1>2. ParkInv'
  BY <1>1 DEF ConsoleInv, ConsoleOK, State, ParkInv, ParkedAndServed
<1> QED BY <1>1, <1>2, HandlerMoves DEF Active, Leaving

\* A handler that leaves waits for the timer it aborts.
LEMMA EndTimerStep ==
  ASSUME ConsoleInv, EndTimer, UNCHANGED port
  PROVE  ConsoleInv'
<1>1. st' = [st EXCEPT !.timer = "none"]
      /\ hpc = "teardown" /\ hpc' = "final" /\ UNCHANGED <<queue, cpc, held, mpc, back, prog, locks, port>>
  BY DEF EndTimer, Handler
<1>2. ParkInv'
  BY <1>1 DEF ConsoleInv, ConsoleOK, State, ParkInv, ParkedAndServed
<1> QED BY <1>1, <1>2, HandlerMoves DEF Active, Leaving

\* The handler sleeps and wakes for a packet.
LEMMA SleepsAndWakes ==
  ASSUME ConsoleInv, WakeByPacket \/ SleepAgain, UNCHANGED port
  PROVE  ConsoleInv'
<1>1. /\ hpc \in {"wait", "serve"} /\ hpc' \in {"wait", "serve"}
      /\ UNCHANGED <<st, queue, cpc, held, mpc, back, prog, locks, port>>
  BY DEF WakeByPacket, SleepAgain, Handler
<1>2. ParkInv'
  BY <1>1 DEF ConsoleInv, ParkInv, ParkedAndServed
<1>3. st' = [st EXCEPT !.timer = st.timer] /\ st.timer \in {"none", "idle", "running", "done"}
  BY <1>1 DEF ConsoleInv, ConsoleOK, State
<1> QED BY <1>1, <1>2, <1>3, HandlerMoves DEF Active, Leaving

\* The last look at the parked WAIT_CHAR.
LEMMA EndWaitsFacts ==
  ASSUME NEW w \in Work
  PROVE  LET f == EndWaits(w)
         IN /\ f \in Work /\ f.wake = w.wake
            /\ \A c \in Client : c \in f.replies <=> c \in w.replies \/ w.st.wait = c
            /\ f.st = [w.st EXCEPT !.wait = None]
<1>1. w.st \in State /\ w.st.wait \in Client \cup {None}
  BY DEF Work, State
<1>2. CASE w.st.wait = None
  <2>1. EndWaits(w) = w
    BY <1>2 DEF EndWaits
  <2>2. w.st = [w.st EXCEPT !.wait = None]
    BY <1>1, <1>2 DEF State
  <2> QED BY <1>1, <1>2, <2>1, <2>2
<1>3. CASE w.st.wait # None
  <2> DEFINE r == Reply(w, w.st.wait)
             f == [r EXCEPT !.st.wait = None]
  <2>1. r \in Work /\ r.st = w.st /\ r.wake = w.wake /\ r.replies = w.replies \cup {w.st.wait}
    BY <1>1, ReplyFacts
  <2>2. EndWaits(w) = f
    BY <1>3 DEF EndWaits
  <2> HIDE DEF r
  <2>3. f.st = [w.st EXCEPT !.wait = None] /\ f.replies = r.replies /\ f.wake = r.wake
    BY <2>1 DEF Work
  <2>4. [w.st EXCEPT !.wait = None] \in State
    BY <1>1 DEF State
  <2>5. f \in Work
    BY <2>1, <2>3, <2>4 DEF Work
  <2> HIDE DEF f
  <2> QED BY <2>1, <2>2, <2>3, <2>5
<1> QED BY <1>2, <1>3

\* The last look at the parked READ.
LEMMA EndReadsFacts ==
  ASSUME NEW w \in Work
  PROVE  LET f == EndReads(w)
         IN /\ f \in Work /\ f.wake = w.wake
            /\ \A c \in Client : c \in f.replies <=> c \in w.replies \/ w.st.read = c
            /\ f.st = [w.st EXCEPT !.read = None]
<1>1. w.st \in State /\ w.st.read \in Client \cup {None}
  BY DEF Work, State
<1>2. CASE w.st.read = None
  <2>1. EndReads(w) = w
    BY <1>2 DEF EndReads
  <2>2. w.st = [w.st EXCEPT !.read = None]
    BY <1>1, <1>2 DEF State
  <2> QED BY <1>1, <1>2, <2>1, <2>2
<1>3. CASE w.st.read # None
  <2> DEFINE r == Reply(w, w.st.read)
             f == [r EXCEPT !.st.read = None]
  <2>1. r \in Work /\ r.st = w.st /\ r.wake = w.wake /\ r.replies = w.replies \cup {w.st.read}
    BY <1>1, ReplyFacts
  <2>2. EndReads(w) = f
    BY <1>3 DEF EndReads
  <2> HIDE DEF r
  <2>3. f.st = [w.st EXCEPT !.read = None] /\ f.replies = r.replies /\ f.wake = r.wake
    BY <2>1 DEF Work
  <2>4. [w.st EXCEPT !.read = None] \in State
    BY <1>1 DEF State
  <2>5. f \in Work
    BY <2>1, <2>3, <2>4 DEF Work
  <2> HIDE DEF f
  <2> QED BY <2>1, <2>2, <2>3, <2>5
<1> QED BY <1>2, <1>3

\* The wait that the timer ends is answered.
LEMMA TickStep ==
  ASSUME ConsoleInv, Tick, UNCHANGED port
  PROVE  ConsoleInv'
<1> DEFINE f == EndWaits(Now)
<1>1. hpc = "tick" /\ hpc' = "serve" /\ UNCHANGED <<queue, held, mpc, back, locks, port>>
      /\ st' = f.st /\ Answered(f.replies) /\ prog' = IF f.wake THEN Signalled(prog) ELSE prog
  BY DEF Tick, Handler, Commit, Answered
<1>2. Now \in Work /\ Now.st = st /\ Now.replies = {} /\ Now.wake = FALSE
  BY NowFacts DEF ConsoleInv
<1>3. /\ f \in Work /\ f.wake = FALSE
      /\ \A c \in Client : c \in f.replies <=> st.wait = c
      /\ f.st = [st EXCEPT !.wait = None]
  BY <1>2, EndWaitsFacts
<1> HIDE DEF f
<1>4. st \in State
  BY DEF ConsoleInv, ConsoleOK
<1>5. /\ Kept(f.st) /\ f.st.out = st.out /\ f.st.closed = st.closed /\ f.st.read = st.read /\ f.st.in = st.in
      /\ f.st.wait = None /\ f.st.timer = st.timer /\ f.st.exited = st.exited
  BY <1>3, <1>4 DEF Kept, State
<1>6. Balanced({}, f)
  BY <1>3, <1>5 DEF Balanced, ConsoleInv, QueueInv
<1>7. Takes({}) /\ Tells(f)
  BY <1>1, <1>5, NothingTaken DEF Tells
<1>8. /\ st' \in State /\ queue' \in Seq(Message) /\ mpc' \in MainPc /\ hpc' \in HandlerPc
      /\ cpc' \in [Client -> ClientPc] /\ prog' \in Program
      /\ HandleInv' /\ PinsInv' /\ LifeInv' /\ RefsInv' /\ QueueInv' /\ WakeInv'
  BY <1>1, <1>3, <1>5, <1>6, <1>7, SectionStep DEF Active
<1>9. ConsoleOK' /\ prog' = prog
  BY <1>1, <1>3, <1>8 DEF ConsoleInv, ConsoleOK
<1>10. AsksInv' /\ ParkInv'
  BY <1>1, <1>5, <1>9 DEF ConsoleInv, AsksInv, ParkInv, ParkedAndServed
<1>11. EndInv'
  <2>1. \A c \in Client : \/ cpc'[c] = cpc[c]
                          \/ cpc[c] = "wait" /\ cpc'[c] = "run"
                          \/ cpc[c] = "cwait" /\ cpc'[c] = "closing"
    BY <1>1, AnsweredFacts DEF ConsoleInv
  <2> QED BY <1>1, <1>5, <2>1 DEF ConsoleInv, EndInv, Leaving, Kept
<1> QED BY <1>8, <1>9, <1>10, <1>11 DEF ConsoleInv

\* The last section of the handler.
LEMMA HandlerFinalStep ==
  ASSUME ConsoleInv, HandlerFinal, UNCHANGED port
  PROVE  ConsoleInv'
<1> DEFINE v == EndWaits(Now)
           w == EndReads(v)
<1>1. /\ hpc = "final" /\ hpc' = "release" /\ UNCHANGED <<queue, held, mpc, back, locks, port>>
      /\ st' = [w.st EXCEPT !.port = FALSE] /\ Answered(w.replies) /\ prog' = [prog EXCEPT !.live = @ - 1]
  BY DEF HandlerFinal, Handler, Answered
<1>2. Now \in Work /\ Now.st = st /\ Now.replies = {} /\ Now.wake = FALSE
  BY NowFacts DEF ConsoleInv
<1>3. /\ v \in Work
      /\ \A c \in Client : c \in v.replies <=> st.wait = c
      /\ v.st = [st EXCEPT !.wait = None]
  BY <1>2, EndWaitsFacts
<1> HIDE DEF v
<1>4. /\ w \in Work
      /\ \A c \in Client : c \in w.replies <=> c \in v.replies \/ v.st.read = c
      /\ w.st = [v.st EXCEPT !.read = None]
  BY <1>3, EndReadsFacts
<1> HIDE DEF w
<1>5. st \in State /\ prog \in Program /\ st.wait \in Client \cup {None}
  BY DEF ConsoleInv, ConsoleOK, State
<1>6. st' = [st EXCEPT !.wait = None, !.read = None, !.port = FALSE]
  BY <1>1, <1>3, <1>4, <1>5 DEF State
<1>7. \A c \in Client : c \in w.replies <=> st.wait = c \/ st.read = c
  BY <1>3, <1>4, <1>5 DEF State
<1>8. /\ cpc' \in [Client -> ClientPc]
      /\ \A c \in Client : \/ cpc'[c] = cpc[c]
                           \/ cpc[c] = "wait" /\ cpc'[c] = "run"
                           \/ cpc[c] = "cwait" /\ cpc'[c] = "closing"
      /\ \A c \in Client : Waiting(c)' <=> Waiting(c) /\ c \notin w.replies
  BY <1>1, AnsweredFacts DEF ConsoleInv
<1>9. prog.live = 1 /\ prog' = [prog EXCEPT !.live = 0]
  BY <1>1, <1>5 DEF ConsoleInv, LifeInv, Active, Count, Program
<1>10. st' \in State
  BY <1>5, <1>6 DEF State
<1>11. prog' \in Program
  BY <1>5, <1>9 DEF Program
<1>12. ConsoleOK'
  BY <1>1, <1>8, <1>10, <1>11 DEF ConsoleInv, ConsoleOK, HandlerPc
<1>13. /\ st'.mem = st.mem /\ st'.refs = st.refs /\ st'.shutdown = st.shutdown /\ st'.force = st.force
       /\ st'.out = st.out /\ st'.exited = st.exited /\ st'.timer = st.timer /\ ~st'.port
       /\ st'.read = None /\ st'.wait = None
  BY <1>5, <1>6 DEF State
<1>14. /\ prog'.state = prog.state /\ prog'.pins = prog.pins /\ prog'.live = 0 /\ prog'.asks = prog.asks
       /\ prog'.wake = prog.wake /\ prog'.sig = prog.sig
  BY <1>5, <1>9 DEF Program
<1>15. HandleInv' /\ PinsInv'
  BY <1>1, <1>14 DEF ConsoleInv, HandleInv, PinsInv, Dying
<1>16. LifeInv'
  BY <1>1, <1>8, <1>13, <1>14 DEF ConsoleInv, LifeInv, Active, Starting, Count
<1>17. RefsInv'
  BY <1>1, <1>8, <1>13, <1>14 DEF ConsoleInv, RefsInv, Freers, InExit, Count
<1>18. QueueInv'
  <2>1. \A c \in Client : Queued(c)' <=> Queued(c)
    BY <1>1 DEF Queued
  <2>2. \A c \in Client : Waiting(c)' <=> Queued(c)'
    BY <1>7, <1>8, <2>1 DEF ConsoleInv, QueueInv
  <2>3. \A i, j \in DOMAIN queue' : queue'[i].from \in Client /\ queue'[i].from = queue'[j].from => i = j
    BY <1>1 DEF ConsoleInv, QueueInv
  <2> QED BY <1>13, <2>2, <2>3 DEF QueueInv
<1>19. AsksInv'
  BY <1>1, <1>13, <1>14 DEF ConsoleInv, AsksInv
<1>20. ParkInv'
  BY <1>1, <1>13 DEF ConsoleInv, ParkInv, ParkedAndServed
<1>21. EndInv'
  BY <1>1, <1>8, <1>13 DEF ConsoleInv, EndInv, Leaving
<1>22. WakeInv'
  BY <1>1, <1>8, <1>13, <1>14 DEF ConsoleInv, WakeInv, NoLostWake, WakeToCome
<1> QED BY <1>12, <1>15, <1>16, <1>17, <1>18, <1>19, <1>20, <1>21, <1>22 DEF ConsoleInv

\* The handler's own reference, and the free it may bring.
LEMMA HandlerReleaseStep ==
  ASSUME ConsoleInv, HandlerRelease \/ HandlerFree, UNCHANGED port
  PROVE  ConsoleInv'
<1> USE DEF ConsoleInv, ConsoleOK
<1>1. /\ UNCHANGED <<queue, cpc, held, mpc, back, prog, locks, port>>
      /\ \/ hpc = "release" /\ hpc' = (IF st.refs = 1 THEN "free" ELSE "gone") /\ st' = [st EXCEPT !.refs = @ - 1]
         \/ hpc = "free" /\ hpc' = "gone" /\ st' = [st EXCEPT !.mem = "freed", !.listed = FALSE]
  BY DEF HandlerRelease, HandlerFree, Handler, Released, Freed
<1>2. hpc \in {"release", "free"} /\ hpc' \in {"free", "gone"} /\ st.mem # "none"
  BY <1>1 DEF LifeInv
<1>3. hpc = "release" => st.refs >= 1 /\ st.refs - 1 \in Nat
  <2>1. st.refs \in Nat
    BY DEF State
  <2>2. hpc = "release" => st.refs >= 1
    BY <1>2 DEF RefsInv, Count
  <2> QED BY <2>1, <2>2
<1>4. st' \in State
  <2>1. CASE hpc = "release"
    BY <1>1, <1>3, <2>1, StateFields
  <2>2. CASE hpc = "free"
    BY <1>1, <2>2, StateFields
  <2> QED BY <1>2, <2>1, <2>2
<1>5. ConsoleOK'
  BY <1>1, <1>2, <1>4 DEF HandlerPc
<1>6. /\ st'.port = st.port /\ st'.shutdown = st.shutdown /\ st'.force = st.force /\ st'.mem # "none"
      /\ st'.out = st.out /\ st'.exited = st.exited /\ st'.read = st.read /\ st'.wait = st.wait
      /\ st'.timer = st.timer /\ st'.in = st.in /\ st'.closed = st.closed
  BY <1>1, <1>2 DEF State
<1>7. HandleInv' /\ PinsInv'
  BY <1>1 DEF HandleInv, PinsInv, Dying
<1>8. LifeInv'
  BY <1>1, <1>2, <1>6 DEF LifeInv, Active, Starting, Count
<1>9. RefsInv'
  <2>1. CASE hpc = "release"
    <3>1. st'.refs = st.refs - 1 /\ st'.mem = st.mem /\ hpc' = IF st.refs = 1 THEN "free" ELSE "gone"
      BY <1>1, <2>1 DEF State
    <3> QED BY <1>1, <1>2, <1>3, <2>1, <3>1 DEF RefsInv, Freers, InExit, Count, State
  <2>2. CASE hpc = "free"
    <3>1. st'.refs = st.refs /\ st'.mem = "freed" /\ hpc' = "gone"
      BY <1>1, <2>2 DEF State
    <3> QED BY <1>1, <1>2, <2>2, <3>1 DEF RefsInv, Freers, InExit, Count, State
  <2> QED BY <1>2, <2>1, <2>2
<1>10. QueueInv' /\ AsksInv'
  BY <1>1, <1>6, QueueFrame DEF Waiting, AsksInv
<1>11. ParkInv'
  BY <1>1, <1>2, <1>6 DEF ParkInv, ParkedAndServed
<1>12. EndInv' /\ WakeInv'
  BY <1>1, <1>2, <1>6 DEF EndInv, WakeInv, NoLostWake, WakeToCome, Leaving
<1> QED BY <1>5, <1>7, <1>8, <1>9, <1>10, <1>11, <1>12

\* The event loop hands the handler input.
LEMMA PushInputStep ==
  ASSUME ConsoleInv, PushInput(Fulfilled(Typed)), UNCHANGED port
  PROVE  ConsoleInv'
<1> DEFINE w == Typed
           f == Fulfilled(w)
<1>1. /\ w \in Work /\ w.replies = {} /\ w.wake = FALSE /\ Unparks(w.st)
      /\ w.st.read = st.read /\ w.st.wait = st.wait /\ w.st.timer = st.timer
      /\ Kept(w.st) /\ w.st.out = st.out /\ w.st.exited = st.exited
  BY TypedFacts
<1>2. /\ mpc = "input" /\ mpc' = "idle" /\ UNCHANGED <<queue, hpc, held, back, locks, port>>
      /\ st' = f.st /\ Answered(f.replies) /\ prog' = IF f.wake THEN Signalled(prog) ELSE prog
  BY DEF PushInput, Main, Commit, Answered
<1> HIDE DEF w
<1>3. /\ f \in Work /\ f.wake = w.wake /\ Balanced({}, f) /\ Parks(f.st)
      /\ f.st.read = None /\ f.st.wait = None /\ (f.st.timer = st.timer \/ (st.timer = "running" /\ f.st.timer = "done"))
      /\ f.st.mem = w.st.mem /\ f.st.refs = w.st.refs /\ f.st.listed = w.st.listed /\ f.st.port = w.st.port
      /\ f.st.shutdown = w.st.shutdown /\ f.st.force = w.st.force /\ f.st.out = w.st.out
      /\ f.st.exited = w.st.exited
  BY <1>1, EndsParked
<1> HIDE DEF f
<1>4. Kept(f.st) /\ Tells(f) /\ Takes({})
  BY <1>1, <1>2, <1>3, NothingTaken DEF Kept, Tells
<1>5. /\ st' \in State /\ queue' \in Seq(Message) /\ mpc' \in MainPc /\ hpc' \in HandlerPc
      /\ cpc' \in [Client -> ClientPc] /\ prog' \in Program
      /\ HandleInv' /\ PinsInv' /\ LifeInv' /\ RefsInv' /\ QueueInv' /\ WakeInv'
  BY <1>2, <1>3, <1>4, SectionStep
<1>6. ConsoleOK' /\ prog' = prog
  BY <1>1, <1>2, <1>3, <1>5 DEF ConsoleInv, ConsoleOK
<1>7. AsksInv'
  BY <1>2, <1>3, <1>6 DEF ConsoleInv, AsksInv
<1>8. ParkInv'
  BY <1>2, <1>3, <1>6 DEF ConsoleInv, ParkInv, ParkedAndServed, Parks
<1>9. EndInv'
  <2>1. \A c \in Client : \/ cpc'[c] = cpc[c]
                          \/ cpc[c] = "wait" /\ cpc'[c] = "run"
                          \/ cpc[c] = "cwait" /\ cpc'[c] = "closing"
    BY <1>2, AnsweredFacts DEF ConsoleInv
  <2>2. st'.shutdown = st.shutdown /\ st'.force = st.force
    BY <1>2, <1>4 DEF Kept
  <2> QED BY <1>2, <2>1, <2>2 DEF ConsoleInv, EndInv, Leaving, Starting
<1> QED BY <1>5, <1>6, <1>7, <1>8, <1>9 DEF ConsoleInv

\* What is queued is answered, and the handler goes; its own packets (left) may stay.
LEMMA DrainStep ==
  ASSUME ConsoleInv, NEW w \in Work, w.st = st, w.wake = FALSE,
         \A c \in Client : c \in w.replies <=> Queued(c),
         NEW left \in Seq(Message), \A i \in DOMAIN left : left[i] = Die, left # <<>> => \E j \in DOMAIN queue : queue[j] = Die,
         NEW to \in {"teardown", "final"}, Drain(w, left, to),
         hpc = "serve", st.shutdown, to = "final" => st.timer = "none",
         port = "amigaos" => st.force \/ cpc[Child] \in {"off", "gone"},
         UNCHANGED port
  PROVE  ConsoleInv'
<1> DEFINE A == {c \in Client : Queued(c)}
<1>1. /\ st' = w.st /\ Answered(w.replies) /\ prog' = (IF w.wake THEN Signalled(prog) ELSE prog)
      /\ queue' = left /\ hpc' = to /\ UNCHANGED <<held, mpc, back, locks, port>>
  BY DEF Drain, Commit, Answered
<1>2. Die \in Message /\ Die.from = None
  BY DEF Message, Die
<1>3. \A c \in Client : ~Queued(c)'
  BY <1>1, <1>2 DEF Queued
<1>4. Takes(A)
  <2>1. \A i \in DOMAIN queue' : \E j \in DOMAIN queue : queue'[i] = queue[j]
    BY <1>1
  <2>2. \A i, j \in DOMAIN queue' : queue'[i].from \in Client /\ queue'[i].from = queue'[j].from => i = j
    BY <1>1, <1>2
  <2> QED BY <1>1, <1>3, <2>1, <2>2 DEF Takes
<1>5. Balanced(A, w)
  BY DEF Balanced, ConsoleInv, QueueInv
<1>6. Kept(w.st) /\ Tells(w) /\ A \in SUBSET Client
  BY DEF Kept, Tells
<1> HIDE DEF A
<1>7. /\ st' \in State /\ queue' \in Seq(Message) /\ mpc' \in MainPc /\ hpc' \in HandlerPc
      /\ cpc' \in [Client -> ClientPc] /\ prog' \in Program
      /\ HandleInv' /\ PinsInv' /\ LifeInv' /\ RefsInv' /\ QueueInv' /\ WakeInv'
  BY <1>1, <1>4, <1>5, <1>6, SectionStep DEF Active
<1>8. ConsoleOK' /\ prog' = prog
  BY <1>1, <1>7 DEF ConsoleInv, ConsoleOK
<1>9. AsksInv'
  BY <1>1, <1>2, <1>8 DEF ConsoleInv, AsksInv
<1>10. ParkInv'
  BY <1>1, <1>8 DEF ConsoleInv, ParkInv, ParkedAndServed
<1>11. EndInv'
  <2>1. \A c \in Client : \/ cpc'[c] = cpc[c]
                          \/ cpc[c] = "wait" /\ cpc'[c] = "run"
                          \/ cpc[c] = "cwait" /\ cpc'[c] = "closing"
    BY <1>1, AnsweredFacts DEF ConsoleInv
  <2> QED BY <1>1, <2>1 DEF ConsoleInv, EndInv, Leaving
<1> QED BY <1>7, <1>8, <1>9, <1>10, <1>11 DEF ConsoleInv

-----------------------------------------------------------------------------
(* The main task on amigaos: close() and the shutdown.                      *)

\* The main task takes a step that leaves the console alone.
LEMMA MainMoves ==
  ASSUME ConsoleInv, UNCHANGED <<st, queue, hpc, cpc, held, back, prog, locks, port>>, mpc' \in MainPc,
         HandleInv', PinsInv', LifeInv', mpc = "free" <=> mpc' = "free", EndInv', WakeInv'
  PROVE  ConsoleInv'
<1> USE DEF ConsoleInv
<1>1. ConsoleOK'
  BY DEF ConsoleOK
<1>2. RefsInv'
  BY DEF RefsInv, Freers, InExit
<1>3. QueueInv' /\ AsksInv' /\ ParkInv'
  BY ConsoleFrame
<1> QED BY <1>1, <1>2, <1>3

\* startNative begins, or its checks fail.
LEMMA BeginStep ==
  ASSUME ConsoleInv, mpc = "new", mpc' \in {"state", "failed"},
         UNCHANGED <<st, queue, hpc, cpc, held, back, prog, locks, port>>
  PROVE  ConsoleInv'
<1>1. HandleInv' /\ PinsInv'
  BY DEF ConsoleInv, HandleInv, PinsInv, Dying
<1>2. LifeInv'
  BY DEF ConsoleInv, LifeInv, Starting
<1>3. EndInv' /\ WakeInv'
  BY DEF ConsoleInv, EndInv, WakeInv, NoLostWake, WakeToCome, Starting
<1> QED BY <1>1, <1>2, <1>3, MainMoves DEF MainPc

\* isAlive, where the child did not vanish.
LEMMA AliveStep ==
  ASSUME ConsoleInv, mpc = "polled", mpc' = (IF Alive(st) THEN Polled ELSE "idle"),
         UNCHANGED <<st, queue, hpc, cpc, held, back, prog, locks, port>>
  PROVE  ConsoleInv'
<1>1. mpc' \in {"idle", "asleep"} /\ (mpc' = "asleep" => prog.wake /\ (st.exited => st.out > 0))
  BY DEF Polled, Alive
<1>2. HandleInv' /\ PinsInv'
  BY <1>1 DEF ConsoleInv, HandleInv, PinsInv, Dying
<1>3. LifeInv'
  BY <1>1 DEF ConsoleInv, LifeInv, Starting
<1>4. EndInv' /\ WakeInv'
  BY <1>1 DEF ConsoleInv, EndInv, WakeInv, NoLostWake, WakeToCome, Starting
<1> QED BY <1>1, <1>2, <1>3, <1>4, MainMoves DEF MainPc

\* The handle goes on to give its locks back.
LEMMA ToUnlockStep ==
  ASSUME ConsoleInv, prog.state, mpc \in {"idle", "failed"}, mpc' = "unlock",
         UNCHANGED <<st, queue, hpc, cpc, held, back, prog, locks, port>>
  PROVE  ConsoleInv'
<1>1. HandleInv' /\ PinsInv'
  BY DEF ConsoleInv, HandleInv, PinsInv, Dying
<1>2. LifeInv'
  BY DEF ConsoleInv, LifeInv, Starting
<1>3. EndInv' /\ WakeInv'
  BY DEF ConsoleInv, EndInv, WakeInv, NoLostWake, WakeToCome, Starting
<1> QED BY <1>1, <1>2, <1>3, MainMoves DEF MainPc

\* The handle goes on to stop its handler.
LEMMA ToDieStep ==
  ASSUME ConsoleInv, prog.state, prog.pins = {}, mpc \in {"idle", "failed", "stop", "drop"}, mpc' = "die",
         back' \in {"closing", "dropping"}, UNCHANGED <<st, queue, hpc, cpc, held, prog, locks, port>>
  PROVE  ConsoleInv'
<1> USE DEF ConsoleInv
<1>1. ConsoleOK'
  BY DEF ConsoleOK, MainPc
<1>2. HandleInv' /\ PinsInv'
  BY DEF HandleInv, PinsInv, Dying
<1>3. LifeInv' /\ RefsInv'
  BY DEF LifeInv, RefsInv, Freers, InExit, Starting
<1>4. QueueInv' /\ AsksInv' /\ ParkInv'
  BY ConsoleFrame
<1>5. EndInv' /\ WakeInv'
  BY DEF EndInv, WakeInv, NoLostWake, WakeToCome, Starting
<1> QED BY <1>1, <1>2, <1>3, <1>4, <1>5

\* close() on amigaos sends the Ctrl-C.
LEMMA CloseInterruptsStep ==
  ASSUME ConsoleInv, port = "amigaos", Amiga!CloseInterrupts, UNCHANGED port
  PROVE  ConsoleInv'
<1> USE DEF ConsoleInv, ConsoleOK
<1>1. mpc \in {"interrupt", "signal"} /\ mpc' \in {"signal", "grace"} /\ UNCHANGED <<st, queue, hpc, held, back, prog, locks, port>>
  BY DEF Amiga!CloseInterrupts, Amiga!Main
<1>2. cpc' = cpc \/ (cpc[Child] = "run" /\ cpc' = [cpc EXCEPT ![Child] = "exit"])
  <2>1. cpc' = cpc \/ Amiga!Interrupt
    BY DEF Amiga!CloseInterrupts
  <2>2. CASE cpc[Child] = "run"
    BY <2>1, <2>2 DEF Amiga!Interrupt, Amiga!Child
  <2>3. CASE cpc[Child] # "run"
    BY <2>1, <2>3 DEF Amiga!Interrupt, Amiga!Child
  <2> QED BY <2>2, <2>3
<1>3. /\ cpc' \in [Client -> ClientPc] /\ cpc'[Other] = cpc[Other]
      /\ cpc'[Child] = cpc[Child] \/ (cpc[Child] = "run" /\ cpc'[Child] = "exit")
  BY <1>2 DEF ClientPc
<1>4. ConsoleOK'
  BY <1>1, <1>3 DEF MainPc
<1>5. HandleInv' /\ PinsInv'
  BY <1>1 DEF HandleInv, PinsInv, Dying
<1>6. LifeInv' /\ RefsInv'
  BY <1>1, <1>3 DEF LifeInv, RefsInv, Freers, InExit, Starting
<1>7. QueueInv' /\ AsksInv' /\ ParkInv'
  <2>1. \A c \in Client : Waiting(c)' <=> Waiting(c)
    BY <1>3 DEF Waiting
  <2> QED BY <1>1, <2>1, QueueFrame DEF AsksInv, ParkInv, ParkedAndServed
<1>8. EndInv' /\ WakeInv'
  BY <1>1, <1>3 DEF EndInv, WakeInv, NoLostWake, WakeToCome, Starting
<1> QED BY <1>4, <1>5, <1>6, <1>7, <1>8

\* close() on amigaos gives up on a child that is still there after the grace period.
LEMMA CloseGraceStep ==
  ASSUME ConsoleInv, port = "amigaos", Amiga!CloseGrace, UNCHANGED port
  PROVE  ConsoleInv'
<1> USE DEF ConsoleInv, ConsoleOK
<1> DEFINE b == cpc[Child] \notin {"off", "gone"}
<1>1. /\ mpc = "grace" /\ mpc' = "stop" /\ UNCHANGED <<queue, hpc, cpc, held, back, prog, locks, port>>
      /\ st' = [st EXCEPT !.force = b]
  BY DEF Amiga!CloseGrace, Amiga!Main, Amiga!TaskExists, Amiga!Child
<1>2. b \in BOOLEAN
  OBVIOUS
<1>3. b => cpc[Child] \notin {"off", "gone"}
  OBVIOUS
<1>4. ~b => cpc[Child] \in {"off", "gone"}
  OBVIOUS
<1> HIDE DEF b
<1>5. st' \in State
  BY <1>1, <1>2 DEF State
<1>6. ConsoleOK'
  BY <1>1, <1>5 DEF MainPc
<1>7. /\ st'.mem = st.mem /\ st'.refs = st.refs /\ st'.port = st.port /\ st'.shutdown = st.shutdown /\ st'.force = b
      /\ st'.out = st.out /\ st'.exited = st.exited /\ st'.read = st.read /\ st'.wait = st.wait
      /\ st'.timer = st.timer /\ st'.in = st.in /\ st'.closed = st.closed
  BY <1>1 DEF State
<1>8. HandleInv' /\ PinsInv'
  BY <1>1 DEF HandleInv, PinsInv, Dying
<1>9. LifeInv' /\ RefsInv'
  BY <1>1, <1>7 DEF LifeInv, RefsInv, Freers, InExit, Starting
<1>10. QueueInv' /\ AsksInv' /\ ParkInv'
  BY <1>1, <1>7, ConsoleFrame
<1>11. EndInv' /\ WakeInv'
  BY <1>1, <1>4, <1>7 DEF EndInv, WakeInv, NoLostWake, WakeToCome, Starting
<1> QED BY <1>6, <1>8, <1>9, <1>10, <1>11

\* A round of the shutdown: every handler that is there is pinned and stopped.
LEMMA SweepIntoStep ==
  ASSUME ConsoleInv, port = "amigaos", prog.live > 0,
         NEW from \in AtRest \cup {"swept"}, NEW pin \in {"all", "round"}, NEW to \in {"swept", "round"},
         pin = "all" => from \in AtRest /\ to = "swept", pin = "round" => from = "swept" /\ to = "round",
         pin = "round" => prog.rounds < Rounds,
         Amiga!SweepInto(from, pin, to), UNCHANGED port
  PROVE  ConsoleInv'
<1> USE DEF ConsoleInv, ConsoleOK
<1> DEFINE p == st.listed /\ st.port
           ps == IF p THEN prog.pins \cup {pin} ELSE prog.pins
           rs == IF pin = "round" THEN prog.rounds + 1 ELSE prog.rounds
           r == IF p THEN st.refs + 1 ELSE st.refs
           sh == st.listed \/ st.shutdown
<1>1. /\ st' = [st EXCEPT !.shutdown = sh, !.refs = r]
      /\ prog' = [prog EXCEPT !.pins = ps, !.rounds = rs]
      /\ mpc = from /\ UNCHANGED <<queue, hpc, cpc, held, locks, port>>
      /\ IF p THEN mpc' = "die" /\ back' = to ELSE mpc' = to /\ back' = back
  BY DEF Amiga!SweepInto, Amiga!HandlerDie
<1>2. st.mem # "none" /\ st.refs \in Nat
  BY DEF LifeInv, Count, Active, State
<1>3. r \in Nat /\ sh \in BOOLEAN
  BY <1>2 DEF State
<1>4. ps \in SUBSET {"all", "round"} /\ prog.pins \in SUBSET {"all", "round"}
  BY DEF Program
<1>5. rs \in 0..Rounds
  <2>1. prog.rounds \in 0..Rounds
    BY DEF Program
  <2> QED BY <2>1, Sizes
<1>6. pin \notin prog.pins /\ (pin = "all" => prog.pins = {}) /\ prog.pins \subseteq {"all"}
  BY <1>1, <1>4 DEF PinsInv, AtRest
<1>7. p => r = st.refs + 1 /\ ps = prog.pins \cup {pin}
  OBVIOUS
<1>8. ~p => r = st.refs /\ ps = prog.pins
  OBVIOUS
<1>9. st.shutdown => sh
  OBVIOUS
<1> HIDE DEF ps, rs, r, sh, p
<1>10. st' \in State
  BY <1>1, <1>3 DEF State
<1>11. prog' \in Program
  BY <1>1, <1>4, <1>5 DEF Program
<1>12. ConsoleOK'
  BY <1>1, <1>10, <1>11 DEF MainPc
<1>13. /\ st'.mem = st.mem /\ st'.refs = r /\ st'.port = st.port /\ st'.shutdown = sh /\ st'.force = st.force
       /\ st'.out = st.out /\ st'.exited = st.exited /\ st'.read = st.read /\ st'.wait = st.wait
       /\ st'.timer = st.timer /\ st'.in = st.in /\ st'.closed = st.closed
  BY <1>1 DEF State
<1>14. /\ prog'.state = prog.state /\ prog'.pins = ps /\ prog'.live = prog.live /\ prog'.asks = prog.asks
       /\ prog'.wake = prog.wake /\ prog'.sig = prog.sig
  BY <1>1 DEF Program
<1>15. HandleInv'
  BY <1>1, <1>14 DEF HandleInv, Dying, AtRest
<1>16. PinsInv'
  BY <1>1, <1>4, <1>6, <1>7, <1>8, <1>14 DEF PinsInv, Dying, AtRest
<1>17. LifeInv'
  BY <1>1, <1>2, <1>13, <1>14 DEF LifeInv, Starting, AtRest
<1>18. RefsInv'
  <2>1. p => st.refs > 0
    BY DEF p, LifeInv, RefsInv, Active, Count, State
  <2>2. mpc # "free" /\ mpc' # "free"
    BY <1>1 DEF AtRest
  <2>3. CASE p
    BY <1>1, <1>2, <1>6, <1>7, <1>13, <1>14, <2>1, <2>2, <2>3 DEF RefsInv, Freers, InExit, Count
  <2>4. CASE ~p
    BY <1>1, <1>2, <1>8, <1>13, <1>14, <2>2, <2>4 DEF RefsInv, Freers, InExit
  <2> QED BY <2>3, <2>4
<1>19. QueueInv' /\ AsksInv' /\ ParkInv'
  BY <1>1, <1>13, <1>14, ConsoleFrame
<1>20. EndInv' /\ WakeInv'
  BY <1>1, <1>9, <1>13, <1>14 DEF EndInv, WakeInv, NoLostWake, WakeToCome, Starting
<1> QED BY <1>12, <1>15, <1>16, <1>17, <1>18, <1>19, <1>20

\* The shutdown's reference is given up, and the rp_state freed if it was the last.
LEMMA UnpinStep ==
  ASSUME ConsoleInv, port = "amigaos",
         NEW from \in {"round", "swept"}, NEW pin \in {"all", "round"}, NEW to \in {"swept", "reap"},
         from = "round" => pin = "round" /\ to = "swept", from = "swept" => pin = "all" /\ to = "reap",
         mpc = from, Amiga!Unpin(from, pin, to), UNCHANGED port
  PROVE  ConsoleInv'
<1> USE DEF ConsoleInv, ConsoleOK
<1>1. CASE pin \notin prog.pins
  <2>1. mpc' = to /\ UNCHANGED <<st, queue, hpc, cpc, held, back, prog, locks, port>>
    BY <1>1 DEF Amiga!Unpin, Amiga!Main
  <2>2. prog.pins \in SUBSET {"all", "round"}
    BY DEF Program
  <2>3. HandleInv' /\ PinsInv'
    BY <1>1, <2>1, <2>2 DEF HandleInv, PinsInv, Dying
  <2>4. LifeInv'
    BY <2>1 DEF LifeInv, Starting
  <2>5. EndInv' /\ WakeInv'
    BY <2>1 DEF EndInv, WakeInv, NoLostWake, WakeToCome, Starting
  <2> QED BY <2>1, <2>3, <2>4, <2>5, MainMoves DEF MainPc
<1>2. CASE pin \in prog.pins
  <2> DEFINE ps == prog.pins \ {pin}
  <2>1. /\ mpc' = (IF st.refs = 1 THEN "free" ELSE to) /\ back' = to
        /\ st' = [st EXCEPT !.refs = @ - 1] /\ prog' = [prog EXCEPT !.pins = ps]
        /\ UNCHANGED <<queue, hpc, cpc, held, locks, port>>
    BY <1>2 DEF Amiga!Unpin, Amiga!ReleaseState, Amiga!Released
  <2>2. st.mem # "none" /\ st.refs \in Nat
    BY <1>2 DEF LifeInv, State
  <2>3. st.refs >= 1
    BY <1>2, <2>2 DEF RefsInv, Count
  <2>4. st.refs - 1 \in Nat
    BY <2>2, <2>3
  <2>5. st' \in State
    BY <2>1, <2>4 DEF State
  <2>6. ps \in SUBSET {"all", "round"} /\ prog.pins \in SUBSET {"all", "round"}
    BY DEF Program
  <2>7. prog' \in Program
    BY <2>1, <2>6 DEF Program
  <2>8. ConsoleOK'
    BY <2>1, <2>5, <2>7 DEF MainPc
  <2>9. /\ st'.mem = st.mem /\ st'.refs = st.refs - 1 /\ st'.port = st.port /\ st'.shutdown = st.shutdown
        /\ st'.force = st.force /\ st'.out = st.out /\ st'.exited = st.exited /\ st'.read = st.read
        /\ st'.wait = st.wait /\ st'.timer = st.timer /\ st'.in = st.in /\ st'.closed = st.closed
    BY <2>1 DEF State
  <2>10. /\ prog'.state = prog.state /\ prog'.pins = ps /\ prog'.live = prog.live /\ prog'.asks = prog.asks
         /\ prog'.wake = prog.wake /\ prog'.sig = prog.sig
    BY <2>1 DEF Program
  <2>11. HandleInv'
    BY <2>1, <2>10 DEF HandleInv, Dying
  <2>12. PinsInv'
    BY <1>2, <2>1, <2>6, <2>10 DEF PinsInv, Dying
  <2>13. LifeInv'
    BY <2>1, <2>2, <2>9, <2>10 DEF LifeInv, Starting
  <2>14. RefsInv'
    <3>1. /\ Count("all" \in ps) + Count("round" \in ps)
               = Count("all" \in prog.pins) + Count("round" \in prog.pins) - 1
          /\ Count("all" \in ps) \in {0, 1} /\ Count("round" \in ps) \in {0, 1}
      BY <1>2 DEF Count
    <3>2. mpc # "free" /\ (mpc' = "free" <=> st.refs = 1)
      BY <2>1
    <3>3. (InExit <=> InExit') /\ Count(InExit) \in {0, 1}
      BY <2>1 DEF InExit, Count
    <3>4. st'.refs = Count(prog'.state) + Count(hpc' \notin {"off", "free", "gone"})
                     + Count("all" \in prog'.pins) + Count("round" \in prog'.pins) + Count(InExit')
      <4> HIDE DEF ps
      <4> QED BY <2>1, <2>2, <2>9, <2>10, <3>1, <3>3 DEF RefsInv, Count
    <3>5. Freers' = Count(st'.mem = "live" /\ st'.refs = 0)
      <4>1. st.mem = "live"
        BY <2>2, <2>3 DEF RefsInv, State
      <4> QED BY <2>1, <2>2, <2>3, <2>9, <3>2, <4>1 DEF RefsInv, Freers, Count
    <3>6. st'.mem = "freed" => st'.refs = 0
      BY <2>2, <2>3, <2>9 DEF RefsInv
    <3> QED BY <3>4, <3>5, <3>6 DEF RefsInv
  <2>15. QueueInv' /\ AsksInv' /\ ParkInv'
    BY <2>1, <2>9, <2>10, ConsoleFrame
  <2>16. EndInv' /\ WakeInv'
    BY <2>1, <2>9, <2>10 DEF EndInv, WakeInv, NoLostWake, WakeToCome, Starting
  <2> QED BY <2>8, <2>11, <2>12, <2>13, <2>14, <2>15, <2>16
<1> QED BY <1>1, <1>2

\* A handler that would not go is taken away.
LEMMA SweepReapsStep ==
  ASSUME ConsoleInv, port = "amigaos", Amiga!SweepReaps, UNCHANGED port
  PROVE  ConsoleInv'
<1> USE DEF ConsoleInv, ConsoleOK
<1>1. mpc = "reap" /\ mpc' = "exit" /\ UNCHANGED <<queue, cpc, held, back, locks, port>>
  BY DEF Amiga!SweepReaps
<1>2. CASE ~(prog.live > 0 /\ st.listed /\ st.port)
  <2>1. UNCHANGED <<st, hpc, prog>>
    BY <1>2 DEF Amiga!SweepReaps
  <2>2. HandleInv' /\ PinsInv'
    BY <1>1, <2>1 DEF HandleInv, PinsInv, Dying
  <2>3. LifeInv'
    BY <1>1, <2>1 DEF LifeInv, Starting
  <2>4. EndInv' /\ WakeInv'
    BY <1>1, <2>1 DEF EndInv, WakeInv, NoLostWake, WakeToCome, Starting
  <2> QED BY <1>1, <2>1, <2>2, <2>3, <2>4, MainMoves DEF MainPc
<1>3. CASE prog.live > 0 /\ st.listed /\ st.port
  <2>1. hpc' = "removed" /\ st' = [st EXCEPT !.port = FALSE] /\ prog' = [prog EXCEPT !.live = @ - 1]
    BY <1>3 DEF Amiga!SweepReaps
  <2>2. hpc \in Active /\ prog.live = 1
    BY <1>3 DEF LifeInv, Count
  <2>3. st' \in State
    BY <2>1 DEF State
  <2>4. prog' = [prog EXCEPT !.live = 0] /\ prog' \in Program
    <3>1. prog.live - 1 = 0
      BY <2>2
    <3>2. prog' = [prog EXCEPT !.live = 0]
      BY <2>1, <3>1
    <3> QED BY <3>2 DEF Program
  <2>5. ConsoleOK'
    BY <1>1, <2>1, <2>3, <2>4 DEF MainPc, HandlerPc
  <2>6. /\ st'.mem = st.mem /\ st'.refs = st.refs /\ ~st'.port /\ st'.shutdown = st.shutdown
        /\ st'.force = st.force /\ st'.out = st.out /\ st'.exited = st.exited /\ st'.read = st.read
        /\ st'.wait = st.wait /\ st'.timer = st.timer /\ st'.in = st.in /\ st'.closed = st.closed
    BY <2>1 DEF State
  <2>7. /\ prog'.state = prog.state /\ prog'.pins = prog.pins /\ prog'.live = 0 /\ prog'.asks = prog.asks
        /\ prog'.wake = prog.wake /\ prog'.sig = prog.sig
    BY <2>4 DEF Program
  <2>8. HandleInv' /\ PinsInv'
    BY <1>1, <2>7 DEF HandleInv, PinsInv, Dying
  <2>9. LifeInv'
    BY <1>1, <2>1, <2>2, <2>6, <2>7 DEF LifeInv, Starting, Active, Count
  <2>10. RefsInv'
    BY <1>1, <2>1, <2>2, <2>6, <2>7 DEF RefsInv, Freers, InExit, Active, Count
  <2>11. QueueInv' /\ AsksInv'
    BY <1>1, <2>6, <2>7, QueueFrame DEF Waiting, AsksInv
  <2>12. ParkInv'
    BY <1>1, <2>1, <2>6, <2>7 DEF ParkInv, ParkedAndServed
  <2>13. EndInv' /\ WakeInv'
    BY <1>1, <2>1, <2>6, <2>7 DEF EndInv, WakeInv, NoLostWake, WakeToCome, Starting, Leaving
  <2> QED BY <2>5, <2>8, <2>9, <2>10, <2>11, <2>12, <2>13
<1> QED BY <1>2, <1>3

-----------------------------------------------------------------------------
(* The amigaos instance takes the steps of Console.                         *)

\* The operators of a section.
LEMMA AmigaOps ==
  /\ Amiga!Now = Now
  /\ Amiga!Asker = Asker
  /\ Amiga!Typed = Typed
  /\ \A w, c : Amiga!Reply(w, c) = Reply(w, c)
  /\ \A w, c : Amiga!Read(w, c) = Read(w, c)
  /\ \A w, c : Amiga!Write(w, c) = Write(w, c)
  /\ \A w, c, l : Amiga!WaitChar(w, c, l) = WaitChar(w, c, l)
  /\ \A w : Amiga!FulfilRead(w) = FulfilRead(w)
  /\ \A w : Amiga!FulfilWait(w) = FulfilWait(w)
  /\ \A n : Amiga!rp_pop(n) = rp_pop(n)
  /\ \A w : Amiga!Served(w) <=> Served(w)
  /\ \A t : Amiga!Serving(t) <=> Serving(t)
  /\ \A T : Amiga!Entry(T) <=> Entry(T)
<1>1. Amiga!Now = Now
  BY Zenon DEF Amiga!Now, Now
<1>2. Amiga!Asker = Asker
  BY Zenon DEF Amiga!Asker, Asker
<1>3. Amiga!Typed = Typed
  BY Zenon DEF Amiga!Typed, Amiga!Now, Amiga!rp_push, Typed, Now, rp_push
<1>4. \A w, c : Amiga!Reply(w, c) = Reply(w, c)
  BY Zenon DEF Amiga!Reply, Reply
<1>5. \A w, c : Amiga!Read(w, c) = Read(w, c)
  BY Zenon DEF Amiga!Read, Amiga!None, Amiga!Reply, Amiga!rp_pop, Read, None, Reply, rp_pop
<1>6. \A w, c : Amiga!Write(w, c) = Write(w, c)
  BY Zenon DEF Amiga!Write, Amiga!Reply, Amiga!rp_push, Write, Reply, rp_push
<1>7. \A w, c, l : Amiga!WaitChar(w, c, l) = WaitChar(w, c, l)
  BY Zenon DEF Amiga!WaitChar, Amiga!None, Amiga!Reply, WaitChar, None, Reply
<1>8. \A w : Amiga!FulfilRead(w) = FulfilRead(w)
  BY Zenon DEF Amiga!FulfilRead, Amiga!None, Amiga!Reply, Amiga!Unparks, Amiga!rp_pop, FulfilRead, None,
         Reply, Unparks, rp_pop
<1>9. \A w : Amiga!FulfilWait(w) = FulfilWait(w)
  BY Zenon DEF Amiga!FulfilWait, Amiga!None, Amiga!Reply, Amiga!Unparks, FulfilWait, None, Reply, Unparks
<1>10. \A n : Amiga!rp_pop(n) = rp_pop(n)
  BY Zenon DEF Amiga!rp_pop, rp_pop
<1>11. \A w : Amiga!Served(w) <=> Served(w)
  BY Zenon DEF Amiga!Served, Amiga!Commit, Amiga!Client, Amiga!Resumed, Amiga!Signalled, Amiga!Child,
         Amiga!Other, Served, Commit, Client, Resumed, Signalled, Child, Other
<1>12. \A t : Amiga!Serving(t) <=> Serving(t)
  BY Zenon DEF Amiga!Serving, Serving
<1>13. \A T : Amiga!Entry(T) <=> Entry(T)
  BY Zenon DEF Amiga!Entry, Amiga!Handler, Entry, Handler
<1> QED BY <1>1, <1>2, <1>3, <1>4, <1>5, <1>6, <1>7, <1>8, <1>9, <1>10, <1>11, <1>12, <1>13

\* The steps of the handler.
LEMMA AmigaHandler ==
  /\ Amiga!WakeByTimer <=> WakeByTimer
  /\ Amiga!Tick <=> Tick
  /\ Amiga!WakeByPacket <=> WakeByPacket
  /\ Amiga!SleepAgain <=> SleepAgain
  /\ Amiga!OpenHandle <=> OpenHandle
  /\ Amiga!GrantLock <=> GrantLock
  /\ Amiga!EndTimer <=> EndTimer
  /\ Amiga!HandlerFinal <=> HandlerFinal
  /\ Amiga!HandlerRelease <=> HandlerRelease
  /\ Amiga!HandlerFree <=> HandlerFree
<1>1. Amiga!WakeByTimer <=> WakeByTimer
  BY Zenon DEF Amiga!WakeByTimer, Amiga!Handler, WakeByTimer, Handler
<1>2. Amiga!Tick <=> Tick
  BY Zenon DEF Amiga!Tick, Amiga!Commit, Amiga!EndWaits, Amiga!Handler, Amiga!Now, Amiga!Client,
         Amiga!Resumed, Amiga!Signalled, Amiga!None, Amiga!Reply, Amiga!Child, Amiga!Other, Tick,
         Commit, EndWaits, Handler, Now, Client, Resumed, Signalled, None, Reply, Child, Other
<1>3. Amiga!WakeByPacket <=> WakeByPacket
  BY Zenon DEF Amiga!WakeByPacket, Amiga!Handler, WakeByPacket, Handler
<1>4. Amiga!SleepAgain <=> SleepAgain
  BY Zenon DEF Amiga!SleepAgain, Amiga!Handler, SleepAgain, Handler
<1>5. Amiga!OpenHandle <=> OpenHandle
  BY Zenon DEF Amiga!OpenHandle, Amiga!Asker, Amiga!Commit, Amiga!Now, Amiga!Reply, Amiga!Serving,
         Amiga!Client, Amiga!Resumed, Amiga!Signalled, Amiga!Child, Amiga!Other, OpenHandle, Asker,
         Commit, Now, Reply, Serving, Client, Resumed, Signalled, Child, Other
<1>6. Amiga!GrantLock <=> GrantLock
  BY Zenon DEF Amiga!GrantLock, Amiga!Asker, Amiga!Commit, Amiga!First, Amiga!Now, Amiga!Reply,
         Amiga!Serving, Amiga!Client, Amiga!Resumed, Amiga!Signalled, Amiga!Child, Amiga!Other,
         GrantLock, Asker, Commit, First, Now, Reply, Serving, Client, Resumed, Signalled, Child,
         Other
<1>7. Amiga!EndTimer <=> EndTimer
  BY Zenon DEF Amiga!EndTimer, Amiga!Handler, EndTimer, Handler
<1>8. Amiga!HandlerFinal <=> HandlerFinal
  BY Zenon DEF Amiga!HandlerFinal, Amiga!Client, Amiga!EndReads, Amiga!EndWaits, Amiga!Handler, Amiga!Now,
         Amiga!Resumed, Amiga!Child, Amiga!Other, Amiga!None, Amiga!Reply, HandlerFinal, Client,
         EndReads, EndWaits, Handler, Now, Resumed, Child, Other, None, Reply
<1>9. Amiga!HandlerRelease <=> HandlerRelease
  BY Zenon DEF Amiga!HandlerRelease, Amiga!Handler, Amiga!Released, HandlerRelease, Handler, Released
<1>10. Amiga!HandlerFree <=> HandlerFree
  BY Zenon DEF Amiga!HandlerFree, Amiga!Freed, Amiga!Handler, HandlerFree, Freed, Handler
<1> QED BY <1>1, <1>2, <1>3, <1>4, <1>5, <1>6, <1>7, <1>8, <1>9, <1>10

\* The steps of the program and the clients.
LEMMA AmigaMain ==
  /\ Amiga!Clients <=> Clients
  /\ Amiga!ReleaseHandle <=> ReleaseHandle
  /\ Amiga!MainFree <=> MainFree
  /\ Amiga!DieCheck <=> DieCheck
  /\ Amiga!DiePut <=> DiePut
  /\ Amiga!StartState <=> StartState
  /\ Amiga!StartHandler <=> StartHandler
  /\ Amiga!StartPool <=> StartPool
  /\ Amiga!StartLoad <=> StartLoad
  /\ Amiga!StartFails <=> StartFails
  /\ Amiga!ReadOutput <=> ReadOutput
  /\ Amiga!EventArrives <=> EventArrives
  /\ Amiga!setGlobalWake <=> setGlobalWake
  /\ Amiga!CheckInput <=> CheckInput
  /\ Amiga!Terminate <=> Terminate
  /\ Amiga!UnlockSlot <=> UnlockSlot
  /\ Amiga!NoneToStop <=> NoneToStop
  /\ \A next : Amiga!StartHandles(next) <=> StartHandles(next)
  /\ \A task : Amiga!StartChild(task) <=> StartChild(task)
  /\ \A w : Amiga!PushInput(w) <=> PushInput(w)
  /\ \A to : Amiga!UnlockLook(to) <=> UnlockLook(to)
  /\ \A from, to : Amiga!HandlerDie(from, to) <=> HandlerDie(from, to)
  /\ \A from, to : Amiga!Main(from, to) <=> Main(from, to)
  /\ \A c, from, to : Amiga!Go(c, from, to) <=> Go(c, from, to)
<1>1. Amiga!Clients <=> Clients
  BY Zenon DEF Amiga!Clients, Amiga!Ask, Amiga!Client, Amiga!CloseHandle, Amiga!Leave, Amiga!Packet,
         Amiga!Spawn, Amiga!TimerExpires, Amiga!Post, Amiga!Child, Amiga!Other, Amiga!Go,
         Amiga!PortExists, Clients, Ask, Client, CloseHandle, Leave, Packet, Spawn, TimerExpires,
         Post, Child, Other, Go, PortExists
<1>2. Amiga!ReleaseHandle <=> ReleaseHandle
  BY Zenon DEF Amiga!ReleaseHandle, Amiga!ReleaseState, Amiga!Released, ReleaseHandle, ReleaseState,
         Released
<1>3. Amiga!MainFree <=> MainFree
  BY Zenon DEF Amiga!MainFree, Amiga!Freed, Amiga!Main, MainFree, Freed, Main
<1>4. Amiga!DieCheck <=> DieCheck
  BY Zenon DEF Amiga!DieCheck, Amiga!Main, DieCheck, Main
<1>5. Amiga!DiePut <=> DiePut
  BY Zenon DEF Amiga!DiePut, Amiga!Die, Amiga!Main, Amiga!None, DiePut, Die, Main, None
<1>6. Amiga!StartState <=> StartState
  BY Zenon DEF Amiga!StartState, Amiga!Main, StartState, Main
<1>7. Amiga!StartHandler <=> StartHandler
  BY Zenon DEF Amiga!StartHandler, Amiga!Pinned, StartHandler, Pinned
<1>8. Amiga!StartPool <=> StartPool
  BY Zenon DEF Amiga!StartPool, Amiga!Main, StartPool, Main
<1>9. Amiga!StartLoad <=> StartLoad
  BY Zenon DEF Amiga!StartLoad, Amiga!Main, StartLoad, Main
<1>10. Amiga!StartFails <=> StartFails
  BY Zenon DEF Amiga!StartFails, Amiga!Main, StartFails, Main
<1>11. Amiga!ReadOutput <=> ReadOutput
  BY Zenon DEF Amiga!ReadOutput, Amiga!Main, Amiga!rp_pop, ReadOutput, Main, rp_pop
<1>12. Amiga!EventArrives <=> EventArrives
  BY Zenon DEF Amiga!EventArrives, Amiga!Main, EventArrives, Main
<1>13. Amiga!setGlobalWake <=> setGlobalWake
  BY Zenon DEF Amiga!setGlobalWake, Amiga!Main, setGlobalWake, Main
<1>14. Amiga!CheckInput <=> CheckInput
  BY Zenon DEF Amiga!CheckInput, Amiga!Main, CheckInput, Main
<1>15. Amiga!Terminate <=> Terminate
  BY Zenon DEF Amiga!Terminate, Amiga!Interrupt, Amiga!Main, Amiga!Child, Terminate, Interrupt, Main, Child
<1>16. Amiga!UnlockSlot <=> UnlockSlot
  BY Zenon DEF Amiga!UnlockSlot, Amiga!Main, UnlockSlot, Main
<1>17. Amiga!NoneToStop <=> NoneToStop
  BY Zenon DEF Amiga!NoneToStop, Amiga!AtRest, Amiga!Main, NoneToStop, AtRest, Main
<1>18. \A next : Amiga!StartHandles(next) <=> StartHandles(next)
  BY Zenon DEF Amiga!StartHandles, Amiga!Main, StartHandles, Main
<1>19. \A task : Amiga!StartChild(task) <=> StartChild(task)
  BY Zenon DEF Amiga!StartChild, Amiga!Child, StartChild, Child
<1>20. \A w : Amiga!PushInput(w) <=> PushInput(w)
  BY Zenon DEF Amiga!PushInput, Amiga!Commit, Amiga!Main, Amiga!Client, Amiga!Resumed, Amiga!Signalled,
         Amiga!Child, Amiga!Other, PushInput, Commit, Main, Client, Resumed, Signalled, Child, Other
<1>21. \A to : Amiga!UnlockLook(to) <=> UnlockLook(to)
  BY Zenon DEF Amiga!UnlockLook, Amiga!First, UnlockLook, First
<1>22. \A from, to : Amiga!HandlerDie(from, to) <=> HandlerDie(from, to)
  BY Zenon DEF Amiga!HandlerDie, HandlerDie
<1>23. \A from, to : Amiga!Main(from, to) <=> Main(from, to)
  BY Zenon DEF Amiga!Main, Main
<1>24. \A c, from, to : Amiga!Go(c, from, to) <=> Go(c, from, to)
  BY Zenon DEF Amiga!Go, Go
<1> QED BY <1>1, <1>2, <1>3, <1>4, <1>5, <1>6, <1>7, <1>8, <1>9, <1>10, <1>11, <1>12, <1>13, <1>14,
         <1>15, <1>16, <1>17, <1>18, <1>19, <1>20, <1>21, <1>22, <1>23, <1>24

-----------------------------------------------------------------------------
(* The exit callback of amigaos, on the child's task.                       *)

\* rp_child_exit looks for its state in the list and pins it.
LEMMA ExitFindStep ==
  ASSUME ConsoleInv, port = "amigaos", Amiga!ExitFind, UNCHANGED port
  PROVE  ConsoleInv'
<1> USE DEF ConsoleInv, ConsoleOK
<1> DEFINE found == st.listed /\ st.task /\ st.refs > 0
           to == IF found THEN "mark" ELSE "closing"
<1>1. /\ cpc[Child] = "exit" /\ cpc' = [cpc EXCEPT ![Child] = to]
      /\ st' = (IF found THEN [st EXCEPT !.refs = @ + 1] ELSE st)
      /\ UNCHANGED <<queue, hpc, held, mpc, back, locks, prog, port>>
  BY DEF Amiga!ExitFind, Amiga!Go, Amiga!Pinned, Amiga!Child
<1>2. st' \in State
  <2>1. st.refs + 1 \in Nat
    BY DEF State
  <2> QED BY <1>1, <2>1 DEF State
<1>3. cpc' \in [Client -> ClientPc] /\ cpc'[Child] = to /\ cpc'[Other] = cpc[Other]
  BY <1>1 DEF ClientPc
<1>4. ConsoleOK'
  BY <1>1, <1>2, <1>3
<1>5. /\ st'.mem = st.mem /\ st'.port = st.port /\ st'.shutdown = st.shutdown /\ st'.force = st.force
      /\ st'.out = st.out /\ st'.exited = st.exited /\ st'.read = st.read /\ st'.wait = st.wait
      /\ st'.timer = st.timer /\ st'.in = st.in /\ st'.closed = st.closed
      /\ st'.refs = IF found THEN st.refs + 1 ELSE st.refs
  BY <1>1 DEF State
<1>6. st.mem # "none" /\ st.refs \in Nat
  BY <1>1 DEF LifeInv, State
<1>7. HandleInv' /\ PinsInv'
  BY <1>1 DEF HandleInv, PinsInv, Dying
<1>8. LifeInv'
  BY <1>1, <1>3, <1>5, <1>6 DEF LifeInv, Starting
<1>9. RefsInv'
  BY <1>1, <1>3, <1>5, <1>6 DEF RefsInv, Freers, InExit, Count
<1>10. \A c \in Client : Waiting(c)' <=> Waiting(c)
  BY <1>1, <1>3 DEF Waiting
<1>11. QueueInv' /\ AsksInv' /\ ParkInv'
  BY <1>1, <1>5, <1>10, QueueFrame DEF AsksInv, ParkInv, ParkedAndServed
<1>12. EndInv' /\ WakeInv'
  BY <1>1, <1>3, <1>5 DEF EndInv, WakeInv, NoLostWake, WakeToCome
<1> QED BY <1>4, <1>7, <1>8, <1>9, <1>11, <1>12

\* rp_child_exit marks the exit and ends what is parked.
LEMMA ExitMarkStep ==
  ASSUME ConsoleInv, port = "amigaos", Amiga!ExitMark, UNCHANGED port
  PROVE  ConsoleInv'
<1> DEFINE n == Now
           e == [n EXCEPT !.st.exited = TRUE, !.st.task = FALSE, !.st.shutdown = TRUE, !.st.closed = TRUE]
           f == Fulfilled(e)
<1>1. /\ cpc[Child] = "mark"
      /\ st' = f.st
      /\ cpc' = [c \in Client |-> IF c = Child THEN "wake" ELSE IF c \in f.replies THEN Resumed(cpc[c]) ELSE cpc[c]]
      /\ UNCHANGED <<queue, hpc, held, mpc, back, locks, prog, port>>
  BY AmigaOps DEF Amiga!ExitMark, Amiga!rp_fulfil_deferred, Fulfilled, Amiga!Resumed, Resumed, Amiga!Child, Amiga!Client, Amiga!Other
<1>2. n \in Work /\ n.st = st /\ n.replies = {} /\ n.wake = FALSE
  BY NowFacts DEF ConsoleInv
<1> HIDE DEF n
<1> DEFINE s == [st EXCEPT !.exited = TRUE, !.task = FALSE, !.shutdown = TRUE, !.closed = TRUE]
<1>3. st \in State
  BY DEF ConsoleInv, ConsoleOK
<1>4. e.st = s /\ e.replies = {} /\ e.wake = FALSE
  BY <1>2 DEF Work
<1>5. s \in State
  BY <1>3 DEF State
<1>6. e \in Work
  BY <1>2, <1>4, <1>5 DEF Work
<1>7. /\ s.read = st.read /\ s.wait = st.wait /\ s.timer = st.timer /\ s.mem = st.mem /\ s.refs = st.refs
      /\ s.port = st.port /\ s.force = st.force /\ s.out = st.out
      /\ s.exited /\ s.shutdown /\ s.closed
  BY <1>3 DEF State
<1> HIDE DEF e, s
<1>8. Unparks(e.st)
  BY <1>4, <1>7 DEF Unparks
<1>9. /\ f \in Work /\ f.wake = FALSE /\ Parks(f.st)
      /\ f.st.read = None /\ f.st.wait = None
      /\ (f.st.timer = st.timer \/ (st.timer = "running" /\ f.st.timer = "done"))
      /\ \A c \in Client : c \in f.replies <=> st.read = c \/ st.wait = c
      /\ f.st.mem = st.mem /\ f.st.refs = st.refs /\ f.st.port = st.port
      /\ f.st.shutdown /\ f.st.force = st.force /\ f.st.out = st.out /\ f.st.exited
  BY <1>4, <1>6, <1>7, <1>8, EndsParked
<1> HIDE DEF f
<1>10. st' \in State
  BY <1>1, <1>9 DEF Work
<1>11. /\ cpc'[Child] = "wake" /\ cpc' \in [Client -> ClientPc]
       /\ \/ cpc'[Other] = cpc[Other] /\ ~(Other \in f.replies /\ Waiting(Other))
          \/ Other \in f.replies /\ cpc[Other] = "wait" /\ cpc'[Other] = "run"
          \/ Other \in f.replies /\ cpc[Other] = "cwait" /\ cpc'[Other] = "closing"
  BY <1>1 DEF ConsoleInv, ConsoleOK, ClientPc, Resumed, Waiting
<1>12. ConsoleOK'
  BY <1>1, <1>10, <1>11 DEF ConsoleInv, ConsoleOK
<1>13. HandleInv' /\ PinsInv'
  BY <1>1 DEF ConsoleInv, HandleInv, PinsInv, Dying
<1>14. LifeInv'
  BY <1>1, <1>9, <1>11 DEF ConsoleInv, LifeInv, Starting
<1>15. RefsInv'
  BY <1>1, <1>9, <1>11 DEF ConsoleInv, RefsInv, Freers, InExit
<1>16. QueueInv'
  <2>1. \A c \in Client : Queued(c)' <=> Queued(c)
    BY <1>1 DEF Queued
  <2>2. ~Waiting(Child)
    BY <1>1 DEF Waiting
  <2>3. \A c \in Client : Waiting(c)' <=> Waiting(c) /\ c \notin f.replies
    BY <1>1, <1>11 DEF Waiting
  <2>4. \A c \in Client : Waiting(c)' <=> Queued(c)'
    BY <1>9, <2>1, <2>3 DEF ConsoleInv, QueueInv
  <2>5. \A i, j \in DOMAIN queue' : queue'[i].from \in Client /\ queue'[i].from = queue'[j].from => i = j
    BY <1>1 DEF ConsoleInv, QueueInv
  <2> QED BY <1>1, <1>9, <2>4, <2>5 DEF QueueInv
<1>17. AsksInv'
  BY <1>1, <1>9 DEF ConsoleInv, AsksInv
<1>18. ParkInv'
  BY <1>1, <1>9 DEF ConsoleInv, ParkInv, ParkedAndServed, Parks
<1>19. EndInv' /\ WakeInv'
  BY <1>1, <1>9, <1>11 DEF ConsoleInv, EndInv, WakeInv, NoLostWake, WakeToCome
<1> QED BY <1>12, <1>13, <1>14, <1>15, <1>16, <1>17, <1>18, <1>19 DEF ConsoleInv

\* rp_child_exit signals the main task.
LEMMA ExitWakeStep ==
  ASSUME ConsoleInv, port = "amigaos" \/ port = "aros", NEW to \in {"unpin", "closing"}, port = "amigaos" <=> to = "unpin",
         cpc[Child] = "wake", cpc' = [cpc EXCEPT ![Child] = to], prog' = Signalled(prog),
         UNCHANGED <<st, queue, hpc, held, mpc, back, locks, port>>
  PROVE  ConsoleInv'
<1>1. /\ prog' \in Program
      /\ UNCHANGED <<prog.asks, prog.state, prog.wake, prog.live, prog.pins, prog.rounds>>
      /\ prog'.sig = (prog.sig \/ prog.wake)
  <2>1. prog' = IF TRUE THEN Signalled(prog) ELSE prog
    OBVIOUS
  <2> QED BY <2>1, SignalledFacts DEF ConsoleInv
<1> USE DEF ConsoleInv, ConsoleOK
<1>2. cpc' \in [Client -> ClientPc] /\ cpc'[Child] = to /\ cpc'[Other] = cpc[Other]
  BY DEF ClientPc
<1>3. ConsoleOK'
  BY <1>1, <1>2
<1>4. HandleInv' /\ PinsInv'
  BY <1>1 DEF HandleInv, PinsInv, Dying
<1>5. LifeInv' /\ RefsInv'
  BY <1>1, <1>2 DEF LifeInv, RefsInv, Freers, InExit, Starting
<1>6. QueueInv' /\ AsksInv' /\ ParkInv'
  <2>1. \A c \in Client : Waiting(c)' <=> Waiting(c)
    BY <1>2 DEF Waiting
  <2> QED BY <1>1, <2>1, QueueFrame DEF AsksInv, ParkInv, ParkedAndServed
<1>7. EndInv' /\ WakeInv'
  BY <1>1, <1>2 DEF EndInv, WakeInv, NoLostWake, WakeToCome
<1> QED BY <1>3, <1>4, <1>5, <1>6, <1>7

\* rp_child_exit gives up its pin, and frees the state if it was the last.
LEMMA ExitReleaseStep ==
  ASSUME ConsoleInv, port = "amigaos", Amiga!ExitRelease \/ Amiga!ExitFree, UNCHANGED port
  PROVE  ConsoleInv'
<1> USE DEF ConsoleInv, ConsoleOK
<1> DEFINE to == IF cpc[Child] = "unpin" /\ st.refs = 1 THEN "free" ELSE "closing"
<1>1. /\ cpc' = [cpc EXCEPT ![Child] = to] /\ UNCHANGED <<queue, hpc, held, mpc, back, locks, prog, port>>
      /\ \/ cpc[Child] = "unpin" /\ st' = [st EXCEPT !.refs = @ - 1]
         \/ cpc[Child] = "free" /\ st' = [st EXCEPT !.mem = "freed", !.listed = FALSE]
  BY DEF Amiga!ExitRelease, Amiga!ExitFree, Amiga!Go, Amiga!Released, Amiga!Freed, Amiga!Child
<1>2. cpc' \in [Client -> ClientPc] /\ cpc'[Child] = to /\ cpc'[Other] = cpc[Other]
  BY <1>1 DEF ClientPc
<1>3. st.mem # "none" /\ st.refs \in Nat
  BY <1>1 DEF LifeInv, State
<1>4. cpc[Child] = "unpin" => st.refs >= 1
  BY <1>3 DEF RefsInv, Count, InExit
<1>5. st' \in State
  <2>1. CASE cpc[Child] = "unpin"
    <3>1. st.refs - 1 \in Nat
      BY <1>3, <1>4, <2>1
    <3> QED BY <1>1, <2>1, <3>1, StateFields
  <2>2. CASE cpc[Child] = "free"
    BY <1>1, <2>2, StateFields
  <2> QED BY <1>1, <2>1, <2>2
<1>6. ConsoleOK'
  BY <1>1, <1>2, <1>5
<1>7. /\ st'.port = st.port /\ st'.shutdown = st.shutdown /\ st'.force = st.force /\ st'.mem # "none"
      /\ st'.out = st.out /\ st'.exited = st.exited /\ st'.read = st.read /\ st'.wait = st.wait
      /\ st'.timer = st.timer /\ st'.in = st.in /\ st'.closed = st.closed
  BY <1>1, <1>3 DEF State
<1>8. HandleInv' /\ PinsInv'
  BY <1>1 DEF HandleInv, PinsInv, Dying
<1>9. LifeInv'
  BY <1>1, <1>2, <1>7 DEF LifeInv, Starting
<1>10. RefsInv'
  <2>1. CASE cpc[Child] = "unpin"
    <3>1. st'.refs = st.refs - 1 /\ st'.mem = st.mem
      BY <1>1, <2>1 DEF State
    <3> QED BY <1>1, <1>2, <1>3, <1>4, <2>1, <3>1 DEF RefsInv, Freers, InExit, Count, State
  <2>2. CASE cpc[Child] = "free"
    <3>1. st'.refs = st.refs /\ st'.mem = "freed"
      BY <1>1, <2>2 DEF State
    <3> QED BY <1>1, <1>2, <1>3, <2>2, <3>1 DEF RefsInv, Freers, InExit, Count, State
  <2> QED BY <1>1, <2>1, <2>2
<1>11. \A c \in Client : Waiting(c)' <=> Waiting(c)
  BY <1>1, <1>2 DEF Waiting
<1>12. QueueInv' /\ AsksInv' /\ ParkInv'
  BY <1>1, <1>7, <1>11, QueueFrame DEF AsksInv, ParkInv, ParkedAndServed
<1>13. EndInv' /\ WakeInv'
  BY <1>1, <1>2, <1>7 DEF EndInv, WakeInv, NoLostWake, WakeToCome
<1> QED BY <1>6, <1>8, <1>9, <1>10, <1>12, <1>13

-----------------------------------------------------------------------------
(* The steps of each port.                                                  *)

\* Whose packet is in the port waits for it, and has none parked.
LEMMA QueuedWait ==
  ASSUME ConsoleInv, NEW c \in Client, Queued(c)
  PROVE  Waiting(c) /\ st.read # c /\ st.wait # c
BY DEF ConsoleInv, QueueInv

\* amigaos, asked to stop: the senders are all still there.
LEMMA RepliedFacts ==
  ASSUME ConsoleInv, NEW S, \A c \in S \cap Client : Queued(c)
  PROVE  LET w == Amiga!Replied(Now, S)
         IN /\ w \in Work /\ w.st = st /\ w.wake = FALSE
            /\ w.replies = S \cap Client
<1> DEFINE n == Now
           R == {c \in S \cap Client : Amiga!rp_can_reply(c)}
           w == [n EXCEPT !.replies = @ \cup R]
<1>1. n \in Work /\ n.st = st /\ n.replies = {} /\ n.wake = FALSE
  BY NowFacts DEF ConsoleInv
<1>2. \A c \in S \cap Client : Amiga!rp_can_reply(c)
  BY QueuedWait DEF Amiga!rp_can_reply, Amiga!TaskExists, Waiting
<1>3. R = S \cap Client
  BY <1>2
<1>4. Amiga!Replied(Now, S) = w
  BY DEF Amiga!Replied, Amiga!Client, Amiga!Child, Amiga!Other
<1> HIDE DEF n, R
<1>5. w.st = st /\ w.wake = FALSE /\ w.replies = R
  BY <1>1 DEF Work
<1>6. R \in SUBSET (Client \cup {None})
  BY <1>3
<1>7. w \in Work
  BY <1>1, <1>5, <1>6 DEF Work
<1> QED BY <1>3, <1>4, <1>5, <1>7

\* A handler that is told to stop still answers a child that is there.
LEMMA ServeStoppingStep ==
  ASSUME ConsoleInv, port = "amigaos", Amiga!ServeStopping, UNCHANGED port
  PROVE  ConsoleInv'
<1> DEFINE w == Amiga!Replied(Now, {Asker})
<1>1. hpc = "serve" /\ queue # <<>> /\ Served(w)
  BY AmigaOps DEF Amiga!ServeStopping, Amiga!Stopping
<1>2. \A c \in {Asker} \cap Client : Queued(c)
  <2>1. Head(queue) = queue[1] /\ 1 \in DOMAIN queue
    BY <1>1 DEF ConsoleInv, ConsoleOK
  <2> QED BY <2>1 DEF Asker, Queued
<1>3. w \in Work /\ w.st = st /\ w.wake = FALSE /\ w.replies = {Asker} \cap Client
  BY <1>2, RepliedFacts
<1> HIDE DEF w
<1>4. Balanced({Asker} \cap Client, w)
  BY <1>2, <1>3, QueuedWait DEF Balanced, ConsoleInv, QueueInv
<1>5. Kept(w.st) /\ Tells(w) /\ Parks(w.st)
  BY <1>1, <1>3 DEF Kept, Tells, Parks, ConsoleInv, ParkInv, ParkedAndServed, AsksInv
<1> QED BY <1>1, <1>3, <1>4, <1>5, ServedAnswers, ServedStep

\* The handler leaves when the child is gone or was given up.
LEMMA AmigaDrainStep ==
  ASSUME ConsoleInv, port = "amigaos", Amiga!DrainAndGo, UNCHANGED port
  PROVE  ConsoleInv'
<1> DEFINE S == Amiga!Senders
           w == Amiga!Replied(Now, S)
<1>1. hpc = "serve" /\ st.shutdown /\ Drain(w, <<>>, "teardown")
  BY AmigaOps DEF Amiga!DrainAndGo, Amiga!Stopping, Amiga!Drain, Drain, Amiga!Commit, Commit, Amiga!Client, Amiga!Child,
     Amiga!Other, Amiga!Resumed, Resumed, Amiga!Signalled, Signalled
<1>2. \A c \in Client : c \in S <=> Queued(c)
  BY DEF Amiga!Senders, Amiga!None, Queued
<1>3. w \in Work /\ w.st = st /\ w.wake = FALSE /\ w.replies = S \cap Client
  BY <1>2, RepliedFacts
<1>4. st.force \/ cpc[Child] \in {"off", "gone"}
  BY DEF Amiga!DrainAndGo, Amiga!KeepServing, Amiga!TaskExists, Amiga!Child
<1> HIDE DEF w, S
<1>5. \A c \in Client : c \in w.replies <=> Queued(c)
  BY <1>2, <1>3
<1>6. <<>> \in Seq(Message) /\ \A i \in DOMAIN <<>> : <<>>[i] = Die
  OBVIOUS
<1> QED BY <1>1, <1>3, <1>4, <1>5, <1>6, DrainStep

\* Every step on amigaos.
LEMMA AmigaStep ==
  ASSUME ConsoleInv, port = "amigaos", Amiga!Next, UNCHANGED port
  PROVE  ConsoleInv'
<1>1. CASE Amiga!Clients
  BY <1>1, AmigaMain, ClientsStep
<1>2. CASE Amiga!rp_child_exit
  <2>1. CASE Amiga!ExitWake
    <3>1. /\ cpc[Child] = "wake" /\ cpc' = [cpc EXCEPT ![Child] = "unpin"] /\ prog' = Signalled(prog)
          /\ UNCHANGED <<st, queue, hpc, held, mpc, back, locks, port>>
      BY <2>1 DEF Amiga!ExitWake, Amiga!Go, Amiga!Child, Amiga!Signalled, Signalled
    <3> QED BY <3>1, ExitWakeStep
  <2> QED BY <1>2, <2>1, ExitFindStep, ExitMarkStep, ExitReleaseStep DEF Amiga!rp_child_exit
<1>3. CASE Amiga!rp_handler_entry
  <2>1. ASSUME Amiga!ServeRead PROVE ConsoleInv'
    <3>1. Serves("READ", Read(Now, Asker)) \/ Serves("READ", Reply(Now, Asker))
      BY <2>1, AmigaOps, ServedAnswers DEF Amiga!ServeRead, Serves
    <3> QED BY <3>1, ServeReadStep, ReplyStep DEF Packet
  <2>2. ASSUME Amiga!ServeWrite PROVE ConsoleInv'
    <3>1. Serves("WRITE", Write(Now, Asker)) \/ Serves("WRITE", Reply(Now, Asker))
      BY <2>2, AmigaOps, ServedAnswers DEF Amiga!ServeWrite, Serves
    <3> QED BY <3>1, WriteStep, ReplyStep DEF Packet
  <2>3. ASSUME Amiga!ServeProbe PROVE ConsoleInv'
    <3>1. Serves("PROBE", Reply(Fulfilled(Typed), Asker))
      BY <2>3, AmigaOps, ServedAnswers DEF Amiga!ServeProbe, Amiga!rp_fulfil_deferred, Fulfilled, Serves
    <3> QED BY <3>1, ProbeStep
  <2>4. ASSUME Amiga!ServeWait PROVE ConsoleInv'
    <3>1. \/ Serves("WAIT", WaitChar(Now, Asker, TRUE))
          \/ Serves("POLL", WaitChar(Now, Asker, FALSE))
      BY <2>4, AmigaOps, ServedAnswers DEF Amiga!ServeWait, Serves
    <3>2. ("WAIT" = "WAIT") = TRUE /\ ("POLL" = "WAIT") = FALSE
      OBVIOUS
    <3> QED BY <3>1, <3>2, WaitStep
  <2>5. ASSUME Amiga!ServeEnd PROVE ConsoleInv'
    <3>1. Serves("END", [Reply(Now, Asker) EXCEPT !.st.opens = rp_pop(@)])
      BY <2>5, AmigaOps, ServedAnswers DEF Amiga!ServeEnd, Serves
    <3> QED BY <3>1, EndStep
  <2>6. ASSUME Amiga!ServeMode PROVE ConsoleInv'
    <3>1. PICK m \in {"RAW", "COOKED"} : Serves(m, [Reply(Now, Asker) EXCEPT !.st.raw = (m = "RAW")])
      BY <2>6, AmigaOps, ServedAnswers DEF Amiga!ServeMode, Serves
    <3> QED BY <3>1, ModeStep
  <2>7. ASSUME Amiga!ServeQuery PROVE ConsoleInv'
    <3>1. Serves("QUERY", Reply(Now, Asker))
      BY <2>7, AmigaOps, ServedAnswers DEF Amiga!ServeQuery, Serves
    <3> QED BY <3>1, ReplyStep DEF Packet
  <2>8. ASSUME Amiga!Entry({"none", "idle"}) PROVE ConsoleInv'
    BY <2>8, AmigaOps, EntryStep
  <2>9. ASSUME Amiga!WakeByTimer \/ Amiga!Tick \/ Amiga!WakeByPacket \/ Amiga!SleepAgain PROVE ConsoleInv'
    BY <2>9, AmigaHandler, WakeByTimerStep, TickStep, SleepsAndWakes
  <2>10. ASSUME Amiga!OpenHandle \/ Amiga!GrantLock \/ Amiga!EndTimer \/ Amiga!HandlerFinal PROVE ConsoleInv'
    BY <2>10, AmigaHandler, OpenHandleStep, GrantLockStep, EndTimerStep, HandlerFinalStep
  <2> QED BY <1>3, <2>1, <2>2, <2>3, <2>4, <2>5, <2>6, <2>7, <2>8, <2>9, <2>10, ServeStoppingStep, AmigaDrainStep
          DEF Amiga!rp_handler_entry
<1>4. CASE Amiga!rp_state_release \/ Amiga!rp_handler_die
  BY <1>4, AmigaHandler, AmigaMain, HandlerReleaseStep, ReleaseStep, MainFreeStep, DieCheckStep, DiePutStep
     DEF Amiga!rp_state_release, Amiga!rp_handler_die
<1>5. CASE Amiga!startNative
  <2>1. CASE Amiga!Preflight
    <3>1. mpc = "new" /\ mpc' \in {"state", "failed"} /\ UNCHANGED <<st, queue, hpc, cpc, held, back, prog, locks, port>>
      BY <2>1 DEF Amiga!Preflight, Amiga!Main
    <3> QED BY <3>1, BeginStep
  <2>2. CASE Amiga!StartHandles("pool")
    BY <2>2, AmigaMain, StartHandlesStep
  <2>3. CASE Amiga!StartChild(TRUE)
    BY <2>3, AmigaMain, StartChildStep
  <2> QED BY <1>5, <2>1, <2>2, <2>3, AmigaMain, StartStateStep, StartHandlerStep, StartPoolStep, StartLoadStep, StartFailsStep
          DEF Amiga!startNative
<1>6. CASE Amiga!eventLoop
  <2>1. CASE Amiga!isAlive
    <3>1. mpc = "polled" /\ mpc' = (IF Alive(st) THEN Polled ELSE "idle")
          /\ UNCHANGED <<st, queue, hpc, cpc, held, back, prog, locks, port>>
      BY <2>1 DEF Amiga!isAlive, Amiga!Alive, Alive, Amiga!Main, Amiga!Polled, Polled
    <3> QED BY <3>1, AliveStep
  <2> QED BY <1>6, <2>1, AmigaMain, ReadOutputStep, EventArrivesStep, setGlobalWakeStep DEF Amiga!eventLoop
<1>7. CASE Amiga!writeInput \/ Amiga!Terminate
  <2>1. CASE Amiga!PushInput(Amiga!rp_fulfil_deferred(Amiga!Typed))
    <3>1. PushInput(Fulfilled(Typed))
      BY <2>1, AmigaMain, AmigaOps DEF Amiga!rp_fulfil_deferred, Fulfilled
    <3> QED BY <3>1, PushInputStep
  <2> QED BY <1>7, <2>1, AmigaMain, CheckInputStep, TerminateStep DEF Amiga!writeInput
<1>8. CASE Amiga!closing
  <2>1. CASE Amiga!close
    <3>1. prog.state /\ mpc \in {"idle", "failed"} /\ mpc' = "unlock"
          /\ UNCHANGED <<st, queue, hpc, cpc, held, back, prog, locks, port>>
      BY <2>1 DEF Amiga!close, Amiga!Main
    <3> QED BY <3>1, ToUnlockStep
  <2>2. CASE Amiga!CloseStops
    <3>1. mpc = "stop" /\ mpc' = "die" /\ back' = "closing" /\ UNCHANGED <<st, queue, hpc, cpc, held, prog, locks, port>>
      BY <2>2 DEF Amiga!CloseStops, Amiga!HandlerDie
    <3>2. prog.state /\ prog.pins = {}
      BY <3>1 DEF ConsoleInv, HandleInv, PinsInv
    <3> QED BY <3>1, <3>2, ToDieStep
  <2>3. CASE Amiga!UnlockLook("interrupt")
    BY <2>3, AmigaMain, UnlockLookStep
  <2> QED BY <1>8, <2>1, <2>2, <2>3, AmigaMain, UnlockSlotStep, CloseInterruptsStep, CloseGraceStep DEF Amiga!closing
<1>9. CASE Amiga!release
  <2>1. prog.state /\ mpc \in {"idle", "failed"} /\ mpc' = "die" /\ back' = "dropping"
        /\ UNCHANGED <<st, queue, hpc, cpc, held, prog, locks, port>>
    BY <1>9 DEF Amiga!release, Amiga!HandlerDie
  <2>2. prog.pins = {}
    BY <2>1 DEF ConsoleInv, PinsInv
  <2> QED BY <2>1, <2>2, ToDieStep
<1>10. CASE Amiga!shutdownAllNative
  <2>1. CASE Amiga!Sweep
    <3>1. PICK pc \in AtRest : prog.live > 0 /\ Amiga!SweepInto(pc, "all", "swept")
      BY <2>1 DEF Amiga!Sweep, Amiga!AtRest, AtRest
    <3> QED BY <3>1, SweepIntoStep
  <2>2. CASE Amiga!SweepAgain
    <3>1. prog.live > 0 /\ prog.rounds < Rounds /\ Amiga!SweepInto("swept", "round", "round")
      BY <2>2 DEF Amiga!SweepAgain, Amiga!MoreRounds
    <3> QED BY <3>1, SweepIntoStep
  <2>3. CASE Amiga!SweepUnpins
    <3>1. CASE Amiga!Unpin("round", "round", "swept")
      <4>1. mpc = "round"
        BY <3>1 DEF Amiga!Unpin, Amiga!ReleaseState, Amiga!Main
      <4> QED BY <3>1, <4>1, UnpinStep
    <3>2. CASE mpc = "swept" /\ Amiga!Unpin("swept", "all", "reap")
      BY <3>2, UnpinStep
    <3> QED BY <2>3, <3>1, <3>2 DEF Amiga!SweepUnpins
  <2> QED BY <1>10, <2>1, <2>2, <2>3, SweepReapsStep DEF Amiga!shutdownAllNative
<1>11. CASE Amiga!NoneToStop
  BY <1>11, AmigaMain, NoneToStopStep
<1> QED BY <1>1, <1>2, <1>3, <1>4, <1>5, <1>6, <1>7, <1>8, <1>9, <1>10, <1>11 DEF Amiga!Next

-----------------------------------------------------------------------------
(* The morphos instance takes the steps of Console.                         *)

\* The operators of a section.
LEMMA MorphosOps ==
  /\ Morphos!Now = Now
  /\ Morphos!Asker = Asker
  /\ Morphos!Typed = Typed
  /\ \A w, c : Morphos!Reply(w, c) = Reply(w, c)
  /\ \A w, c : Morphos!Read(w, c) = Read(w, c)
  /\ \A w, c : Morphos!Write(w, c) = Write(w, c)
  /\ \A w, c, l : Morphos!WaitChar(w, c, l) = WaitChar(w, c, l)
  /\ \A w : Morphos!FulfilRead(w) = FulfilRead(w)
  /\ \A w : Morphos!FulfilWait(w) = FulfilWait(w)
  /\ \A n : Morphos!rp_pop(n) = rp_pop(n)
  /\ \A w : Morphos!Served(w) <=> Served(w)
  /\ \A t : Morphos!Serving(t) <=> Serving(t)
  /\ \A T : Morphos!Entry(T) <=> Entry(T)
<1>1. Morphos!Now = Now
  BY Zenon DEF Morphos!Now, Now
<1>2. Morphos!Asker = Asker
  BY Zenon DEF Morphos!Asker, Asker
<1>3. Morphos!Typed = Typed
  BY Zenon DEF Morphos!Typed, Morphos!Now, Morphos!rp_push, Typed, Now, rp_push
<1>4. \A w, c : Morphos!Reply(w, c) = Reply(w, c)
  BY Zenon DEF Morphos!Reply, Reply
<1>5. \A w, c : Morphos!Read(w, c) = Read(w, c)
  BY Zenon DEF Morphos!Read, Morphos!None, Morphos!Reply, Morphos!rp_pop, Read, None, Reply, rp_pop
<1>6. \A w, c : Morphos!Write(w, c) = Write(w, c)
  BY Zenon DEF Morphos!Write, Morphos!Reply, Morphos!rp_push, Write, Reply, rp_push
<1>7. \A w, c, l : Morphos!WaitChar(w, c, l) = WaitChar(w, c, l)
  BY Zenon DEF Morphos!WaitChar, Morphos!None, Morphos!Reply, WaitChar, None, Reply
<1>8. \A w : Morphos!FulfilRead(w) = FulfilRead(w)
  BY Zenon DEF Morphos!FulfilRead, Morphos!None, Morphos!Reply, Morphos!Unparks, Morphos!rp_pop,
         FulfilRead, None, Reply, Unparks, rp_pop
<1>9. \A w : Morphos!FulfilWait(w) = FulfilWait(w)
  BY Zenon DEF Morphos!FulfilWait, Morphos!None, Morphos!Reply, Morphos!Unparks, FulfilWait, None, Reply,
         Unparks
<1>10. \A n : Morphos!rp_pop(n) = rp_pop(n)
  BY Zenon DEF Morphos!rp_pop, rp_pop
<1>11. \A w : Morphos!Served(w) <=> Served(w)
  BY Zenon DEF Morphos!Served, Morphos!Commit, Morphos!Client, Morphos!Resumed, Morphos!Signalled,
         Morphos!Child, Morphos!Other, Served, Commit, Client, Resumed, Signalled, Child, Other
<1>12. \A t : Morphos!Serving(t) <=> Serving(t)
  BY Zenon DEF Morphos!Serving, Serving
<1>13. \A T : Morphos!Entry(T) <=> Entry(T)
  BY Zenon DEF Morphos!Entry, Morphos!Handler, Entry, Handler
<1> QED BY <1>1, <1>2, <1>3, <1>4, <1>5, <1>6, <1>7, <1>8, <1>9, <1>10, <1>11, <1>12, <1>13

\* The steps of the handler.
LEMMA MorphosHandler ==
  /\ Morphos!WakeByTimer <=> WakeByTimer
  /\ Morphos!Tick <=> Tick
  /\ Morphos!WakeByPacket <=> WakeByPacket
  /\ Morphos!SleepAgain <=> SleepAgain
  /\ Morphos!OpenHandle <=> OpenHandle
  /\ Morphos!GrantLock <=> GrantLock
  /\ Morphos!EndTimer <=> EndTimer
  /\ Morphos!HandlerFinal <=> HandlerFinal
  /\ Morphos!HandlerRelease <=> HandlerRelease
  /\ Morphos!HandlerFree <=> HandlerFree
<1>1. Morphos!WakeByTimer <=> WakeByTimer
  BY Zenon DEF Morphos!WakeByTimer, Morphos!Handler, WakeByTimer, Handler
<1>2. Morphos!Tick <=> Tick
  BY Zenon DEF Morphos!Tick, Morphos!Commit, Morphos!EndWaits, Morphos!Handler, Morphos!Now,
         Morphos!Client, Morphos!Resumed, Morphos!Signalled, Morphos!None, Morphos!Reply,
         Morphos!Child, Morphos!Other, Tick, Commit, EndWaits, Handler, Now, Client, Resumed,
         Signalled, None, Reply, Child, Other
<1>3. Morphos!WakeByPacket <=> WakeByPacket
  BY Zenon DEF Morphos!WakeByPacket, Morphos!Handler, WakeByPacket, Handler
<1>4. Morphos!SleepAgain <=> SleepAgain
  BY Zenon DEF Morphos!SleepAgain, Morphos!Handler, SleepAgain, Handler
<1>5. Morphos!OpenHandle <=> OpenHandle
  BY Zenon DEF Morphos!OpenHandle, Morphos!Asker, Morphos!Commit, Morphos!Now, Morphos!Reply,
         Morphos!Serving, Morphos!Client, Morphos!Resumed, Morphos!Signalled, Morphos!Child,
         Morphos!Other, OpenHandle, Asker, Commit, Now, Reply, Serving, Client, Resumed, Signalled,
         Child, Other
<1>6. Morphos!GrantLock <=> GrantLock
  BY Zenon DEF Morphos!GrantLock, Morphos!Asker, Morphos!Commit, Morphos!First, Morphos!Now, Morphos!Reply,
         Morphos!Serving, Morphos!Client, Morphos!Resumed, Morphos!Signalled, Morphos!Child,
         Morphos!Other, GrantLock, Asker, Commit, First, Now, Reply, Serving, Client, Resumed,
         Signalled, Child, Other
<1>7. Morphos!EndTimer <=> EndTimer
  BY Zenon DEF Morphos!EndTimer, Morphos!Handler, EndTimer, Handler
<1>8. Morphos!HandlerFinal <=> HandlerFinal
  BY Zenon DEF Morphos!HandlerFinal, Morphos!Client, Morphos!EndReads, Morphos!EndWaits, Morphos!Handler,
         Morphos!Now, Morphos!Resumed, Morphos!Child, Morphos!Other, Morphos!None, Morphos!Reply,
         HandlerFinal, Client, EndReads, EndWaits, Handler, Now, Resumed, Child, Other, None, Reply
<1>9. Morphos!HandlerRelease <=> HandlerRelease
  BY Zenon DEF Morphos!HandlerRelease, Morphos!Handler, Morphos!Released, HandlerRelease, Handler, Released
<1>10. Morphos!HandlerFree <=> HandlerFree
  BY Zenon DEF Morphos!HandlerFree, Morphos!Freed, Morphos!Handler, HandlerFree, Freed, Handler
<1> QED BY <1>1, <1>2, <1>3, <1>4, <1>5, <1>6, <1>7, <1>8, <1>9, <1>10

\* The end of the handler.
LEMMA MorphosDrain ==
  /\ Morphos!Now = Now
  /\ Morphos!Senders = Senders
  /\ Morphos!OwnPackets = OwnPackets
  /\ \A w, left, to : Morphos!Drain(w, left, to) <=> Drain(w, left, to)
<1>1. Morphos!Now = Now
  BY Zenon DEF Morphos!Now, Now
<1>2. Morphos!Senders = Senders
  BY Zenon DEF Morphos!Senders, Morphos!None, Senders, None
<1>3. Morphos!OwnPackets = OwnPackets
  <2>1. Morphos!Die = Die
    BY Zenon DEF Morphos!Die, Morphos!None, Die, None
  <2>2. {j \in DOMAIN queue : queue[j] = Morphos!Die} = {j \in DOMAIN queue : queue[j] = Die}
    BY <2>1
  <2>3. \A S : Morphos!Cardinality(S) = Cardinality(S)
    BY Zenon DEF Morphos!Cardinality, Cardinality, Morphos!IsFiniteSet, IsFiniteSet
  <2> QED BY <2>1, <2>2, <2>3 DEF Morphos!OwnPackets, OwnPackets
<1>4. \A w, left, to : Morphos!Drain(w, left, to) <=> Drain(w, left, to)
  BY Zenon DEF Morphos!Drain, Morphos!Commit, Morphos!Client, Morphos!Resumed, Morphos!Signalled,
         Morphos!Child, Morphos!Other, Drain, Commit, Client, Resumed, Signalled, Child, Other
<1> QED BY <1>1, <1>2, <1>3, <1>4

\* The steps of the program and the clients.
LEMMA MorphosMain ==
  /\ Morphos!Clients <=> Clients
  /\ Morphos!ReleaseHandle <=> ReleaseHandle
  /\ Morphos!MainFree <=> MainFree
  /\ Morphos!DieCheck <=> DieCheck
  /\ Morphos!DiePut <=> DiePut
  /\ Morphos!StartState <=> StartState
  /\ Morphos!StartHandler <=> StartHandler
  /\ Morphos!StartPool <=> StartPool
  /\ Morphos!StartLoad <=> StartLoad
  /\ Morphos!StartFails <=> StartFails
  /\ Morphos!ReadOutput <=> ReadOutput
  /\ Morphos!EventArrives <=> EventArrives
  /\ Morphos!setGlobalWake <=> setGlobalWake
  /\ Morphos!CheckInput <=> CheckInput
  /\ Morphos!Terminate <=> Terminate
  /\ Morphos!UnlockSlot <=> UnlockSlot
  /\ Morphos!NoneToStop <=> NoneToStop
  /\ Morphos!SweepOnce <=> SweepOnce
  /\ \A next : Morphos!StartHandles(next) <=> StartHandles(next)
  /\ \A task : Morphos!StartChild(task) <=> StartChild(task)
  /\ \A w : Morphos!PushInput(w) <=> PushInput(w)
  /\ \A to : Morphos!UnlockLook(to) <=> UnlockLook(to)
  /\ \A from, to : Morphos!HandlerDie(from, to) <=> HandlerDie(from, to)
  /\ \A from, to : Morphos!Main(from, to) <=> Main(from, to)
  /\ \A c, from, to : Morphos!Go(c, from, to) <=> Go(c, from, to)
<1>1. Morphos!Clients <=> Clients
  BY Zenon DEF Morphos!Clients, Morphos!Ask, Morphos!Client, Morphos!CloseHandle, Morphos!Leave,
         Morphos!Packet, Morphos!Spawn, Morphos!TimerExpires, Morphos!Post, Morphos!Child,
         Morphos!Other, Morphos!Go, Morphos!PortExists, Clients, Ask, Client, CloseHandle, Leave,
         Packet, Spawn, TimerExpires, Post, Child, Other, Go, PortExists
<1>2. Morphos!ReleaseHandle <=> ReleaseHandle
  BY Zenon DEF Morphos!ReleaseHandle, Morphos!ReleaseState, Morphos!Released, ReleaseHandle, ReleaseState,
         Released
<1>3. Morphos!MainFree <=> MainFree
  BY Zenon DEF Morphos!MainFree, Morphos!Freed, Morphos!Main, MainFree, Freed, Main
<1>4. Morphos!DieCheck <=> DieCheck
  BY Zenon DEF Morphos!DieCheck, Morphos!Main, DieCheck, Main
<1>5. Morphos!DiePut <=> DiePut
  BY Zenon DEF Morphos!DiePut, Morphos!Die, Morphos!Main, Morphos!None, DiePut, Die, Main, None
<1>6. Morphos!StartState <=> StartState
  BY Zenon DEF Morphos!StartState, Morphos!Main, StartState, Main
<1>7. Morphos!StartHandler <=> StartHandler
  BY Zenon DEF Morphos!StartHandler, Morphos!Pinned, StartHandler, Pinned
<1>8. Morphos!StartPool <=> StartPool
  BY Zenon DEF Morphos!StartPool, Morphos!Main, StartPool, Main
<1>9. Morphos!StartLoad <=> StartLoad
  BY Zenon DEF Morphos!StartLoad, Morphos!Main, StartLoad, Main
<1>10. Morphos!StartFails <=> StartFails
  BY Zenon DEF Morphos!StartFails, Morphos!Main, StartFails, Main
<1>11. Morphos!ReadOutput <=> ReadOutput
  BY Zenon DEF Morphos!ReadOutput, Morphos!Main, Morphos!rp_pop, ReadOutput, Main, rp_pop
<1>12. Morphos!EventArrives <=> EventArrives
  BY Zenon DEF Morphos!EventArrives, Morphos!Main, EventArrives, Main
<1>13. Morphos!setGlobalWake <=> setGlobalWake
  BY Zenon DEF Morphos!setGlobalWake, Morphos!Main, setGlobalWake, Main
<1>14. Morphos!CheckInput <=> CheckInput
  BY Zenon DEF Morphos!CheckInput, Morphos!Main, CheckInput, Main
<1>15. Morphos!Terminate <=> Terminate
  BY Zenon DEF Morphos!Terminate, Morphos!Interrupt, Morphos!Main, Morphos!Child, Terminate, Interrupt,
         Main, Child
<1>16. Morphos!UnlockSlot <=> UnlockSlot
  BY Zenon DEF Morphos!UnlockSlot, Morphos!Main, UnlockSlot, Main
<1>17. Morphos!NoneToStop <=> NoneToStop
  BY Zenon DEF Morphos!NoneToStop, Morphos!AtRest, Morphos!Main, NoneToStop, AtRest, Main
<1>18. Morphos!SweepOnce <=> SweepOnce
  BY Zenon DEF Morphos!SweepOnce, Morphos!AtRest, Morphos!HandlerDie, Morphos!Main, SweepOnce, AtRest,
         HandlerDie, Main
<1>19. \A next : Morphos!StartHandles(next) <=> StartHandles(next)
  BY Zenon DEF Morphos!StartHandles, Morphos!Main, StartHandles, Main
<1>20. \A task : Morphos!StartChild(task) <=> StartChild(task)
  BY Zenon DEF Morphos!StartChild, Morphos!Child, StartChild, Child
<1>21. \A w : Morphos!PushInput(w) <=> PushInput(w)
  BY Zenon DEF Morphos!PushInput, Morphos!Commit, Morphos!Main, Morphos!Client, Morphos!Resumed,
         Morphos!Signalled, Morphos!Child, Morphos!Other, PushInput, Commit, Main, Client, Resumed,
         Signalled, Child, Other
<1>22. \A to : Morphos!UnlockLook(to) <=> UnlockLook(to)
  BY Zenon DEF Morphos!UnlockLook, Morphos!First, UnlockLook, First
<1>23. \A from, to : Morphos!HandlerDie(from, to) <=> HandlerDie(from, to)
  BY Zenon DEF Morphos!HandlerDie, HandlerDie
<1>24. \A from, to : Morphos!Main(from, to) <=> Main(from, to)
  BY Zenon DEF Morphos!Main, Main
<1>25. \A c, from, to : Morphos!Go(c, from, to) <=> Go(c, from, to)
  BY Zenon DEF Morphos!Go, Go
<1> QED BY <1>1, <1>2, <1>3, <1>4, <1>5, <1>6, <1>7, <1>8, <1>9, <1>10, <1>11, <1>12, <1>13, <1>14,
         <1>15, <1>16, <1>17, <1>18, <1>19, <1>20, <1>21, <1>22, <1>23, <1>24, <1>25

\* morphos and aros leave with the first packet after they were asked to stop,
\* and put their own packet on the port again.
LEMMA OwnPacketsFacts ==
  ASSUME ConsoleInv
  PROVE  /\ OwnPackets \in Seq(Message)
         /\ \A i \in DOMAIN OwnPackets : OwnPackets[i] = Die
         /\ OwnPackets # <<>> => \E j \in DOMAIN queue : queue[j] = Die
<1> DEFINE D == {j \in DOMAIN queue : queue[j] = Die}
           n == Cardinality(D)
<1>1. queue \in Seq(Message)
  BY DEF ConsoleInv, ConsoleOK
<1>2. IsFiniteSet(D)
  <2>1. DOMAIN queue = 1 .. Len(queue) /\ Len(queue) \in Nat
    BY <1>1
  <2>2. IsFiniteSet(1 .. Len(queue))
    BY <2>1, FS_Interval
  <2> QED BY <2>1, <2>2, FS_Subset
<1>3. n \in Nat /\ (n = 0 <=> D = {})
  BY <1>2, FS_CardinalityType, FS_EmptySet
<1>4. OwnPackets = [i \in 1 .. n |-> Die]
  BY DEF OwnPackets
<1>5. Die \in Message
  BY DEF Message
<1> HIDE DEF n, D
<1>6. OwnPackets \in Seq(Message) /\ DOMAIN OwnPackets = 1 .. n /\ \A i \in 1 .. n : OwnPackets[i] = Die
  BY <1>3, <1>4, <1>5
<1>7. OwnPackets # <<>> => n # 0
  BY <1>3, <1>4
<1> QED BY <1>3, <1>6, <1>7 DEF D

\* Who has a packet in the port.
LEMMA SendersFacts ==
  ASSUME ConsoleInv, NEW w, w = [Now EXCEPT !.replies = Senders]
  PROVE  /\ w \in Work /\ w.st = st /\ w.wake = FALSE
         /\ \A c \in Client : c \in w.replies <=> Queued(c)
<1> DEFINE n == Now
<1>1. n \in Work /\ n.st = st /\ n.wake = FALSE
  BY NowFacts DEF ConsoleInv
<1>2. Senders \in SUBSET (Client \cup {None})
  <2>1. \A i \in DOMAIN queue : queue[i] \in Message
    BY DEF ConsoleInv, ConsoleOK
  <2> QED BY <2>1, MessageFields DEF Senders
<1>3. \A c \in Client : c \in Senders <=> Queued(c)
  BY DEF Senders, Queued
<1>4. w = [n EXCEPT !.replies = Senders]
  OBVIOUS
<1> HIDE DEF n
<1> QED BY <1>1, <1>2, <1>3, <1>4 DEF Work

\* The handler of morphos and aros leaves at once and answers what is queued.
LEMMA OnceDrainStep ==
  ASSUME ConsoleInv, port # "amigaos", NEW to \in {"teardown", "final"}, to = "final" => port = "aros",
         hpc = "serve", st.shutdown,
         Drain([Now EXCEPT !.replies = Senders], OwnPackets, to), UNCHANGED port
  PROVE  ConsoleInv'
<1> DEFINE w == [Now EXCEPT !.replies = Senders]
<1>1. /\ w \in Work /\ w.st = st /\ w.wake = FALSE
      /\ \A c \in Client : c \in w.replies <=> Queued(c)
  BY SendersFacts
<1>2. Drain(w, OwnPackets, to)
  OBVIOUS
<1> HIDE DEF w
<1>3. to = "final" => st.timer = "none"
  BY DEF ConsoleInv, ParkInv
<1> QED BY <1>1, <1>2, <1>3, OwnPacketsFacts, DrainStep

\* The close of a handle, which may be the last.
LEMMA LastClosedStep ==
  ASSUME ConsoleInv, port # "amigaos", NEW b \in BOOLEAN, b \/ port = "aros",
         NEW w, w = [Now EXCEPT !.st.opens = rp_pop(@)],
         NEW e, e = [w EXCEPT !.st.exited = TRUE, !.st.closed = TRUE, !.wake = b],
         Serves("END", Reply(Fulfilled(e), Asker)) \/ Serves("END", Reply(w, Asker)), UNCHANGED port
  PROVE  ConsoleInv'
<1> DEFINE n == Now
<1>1. n \in Work /\ n.st = st /\ n.replies = {} /\ n.wake = FALSE
  BY NowFacts DEF ConsoleInv
<1>2. w = [n EXCEPT !.st.opens = rp_pop(@)]
  OBVIOUS
<1>3. Asker \in Client
  BY AskerWaits DEF Serves, Packet
<1>4. CASE Serves("END", Reply(Fulfilled(e), Asker))
  <2>1. e = [n EXCEPT !.st.opens = rp_pop(@), !.st.exited = TRUE, !.st.closed = TRUE, !.wake = b]
    <3> HIDE DEF n
    <3> QED BY <1>1, <1>2 DEF Work
  <2> QED BY <1>4, <2>1, LastEndStep
<1>5. CASE Serves("END", Reply(w, Asker))
  <2>1. Reply(w, Asker) = [Reply(n, Asker) EXCEPT !.st.opens = rp_pop(@)]
    <3> HIDE DEF n
    <3> QED BY <1>1, <1>2 DEF Work, Reply
  <2>2. Serves("END", [Reply(n, Asker) EXCEPT !.st.opens = rp_pop(@)])
    BY <1>5, <2>1
  <2> QED BY <2>2, EndStep
<1> QED BY <1>4, <1>5

\* isAlive of morphos finds the child gone without a word.
LEMMA VanishedStep ==
  ASSUME ConsoleInv, port = "morphos", mpc = "polled", mpc' = (IF st.out > 0 THEN Polled ELSE "idle"),
         st' = [st EXCEPT !.exited = TRUE, !.closed = TRUE, !.task = FALSE],
         UNCHANGED <<queue, hpc, cpc, held, back, prog, locks, port>>
  PROVE  ConsoleInv'
<1> USE DEF ConsoleInv, ConsoleOK
<1>0. mpc' \in {"idle", "asleep"} /\ (mpc' = "asleep" => prog.wake /\ st.out > 0)
  BY DEF Polled
<1>1. st' \in State
  BY DEF State
<1>2. ConsoleOK'
  BY <1>0, <1>1 DEF MainPc
<1>3. /\ st'.mem = st.mem /\ st'.refs = st.refs /\ st'.port = st.port /\ st'.shutdown = st.shutdown
      /\ st'.force = st.force /\ st'.out = st.out /\ st'.read = st.read
      /\ st'.wait = st.wait /\ st'.timer = st.timer /\ st'.in = st.in
  BY DEF State
<1>4. HandleInv' /\ PinsInv'
  BY <1>0 DEF HandleInv, PinsInv, Dying
<1>5. LifeInv' /\ RefsInv'
  BY <1>0, <1>3 DEF LifeInv, RefsInv, Freers, InExit, Starting
<1>6. QueueInv' /\ AsksInv'
  BY <1>3, QueueFrame DEF Waiting, AsksInv
<1>7. ParkInv'
  BY <1>3 DEF ParkInv, ParkedAndServed
<1>8. EndInv' /\ WakeInv'
  BY <1>0, <1>3 DEF EndInv, WakeInv, NoLostWake, WakeToCome, Starting
<1> QED BY <1>2, <1>4, <1>5, <1>6, <1>7, <1>8

\* The handler on morphos.
LEMMA MorphosHandlerStep ==
  ASSUME ConsoleInv, port = "morphos", Morphos!rp_handler_entry, UNCHANGED port
  PROVE  ConsoleInv'
<1>1. ASSUME Morphos!ServeRead PROVE ConsoleInv'
  <2>1. Serves("READ", Read(Now, Asker))
    BY <1>1, MorphosOps, ServedAnswers DEF Morphos!ServeRead, Serves
  <2> QED BY <2>1, ServeReadStep
<1>2. ASSUME Morphos!ServeWrite PROVE ConsoleInv'
  <2>1. Serves("WRITE", Write(Now, Asker))
    BY <1>2, MorphosOps, ServedAnswers DEF Morphos!ServeWrite, Serves
  <2> QED BY <2>1, WriteStep
<1>3. ASSUME Morphos!ServeProbe PROVE ConsoleInv'
  <2>1. Serves("PROBE", Reply(Fulfilled(Typed), Asker))
    BY <1>3, MorphosOps, ServedAnswers DEF Morphos!ServeProbe, Morphos!rp_fulfil_deferred, Fulfilled, Serves
  <2> QED BY <2>1, ProbeStep
<1>4. ASSUME Morphos!ServeWait PROVE ConsoleInv'
  <2>1. \/ Serves("WAIT", WaitChar(Now, Asker, TRUE))
        \/ Serves("POLL", WaitChar(Now, Asker, FALSE))
    BY <1>4, MorphosOps, ServedAnswers DEF Morphos!ServeWait, Serves
  <2>2. ("WAIT" = "WAIT") = TRUE /\ ("POLL" = "WAIT") = FALSE
    OBVIOUS
  <2> QED BY <2>1, <2>2, WaitStep
<1>5. ASSUME Morphos!ServeEnd PROVE ConsoleInv'
  <2> DEFINE w == [Now EXCEPT !.st.opens = rp_pop(@)]
             e == [w EXCEPT !.st.exited = TRUE, !.st.closed = TRUE, !.wake = TRUE]
  <2>1. Serves("END", Reply(Fulfilled(e), Asker)) \/ Serves("END", Reply(w, Asker))
    <3>1. CASE Morphos!LastClosed(w)
      BY <1>5, <3>1, MorphosOps, ServedAnswers DEF Morphos!ServeEnd, Morphos!rp_fulfil_deferred, Fulfilled, Serves
    <3>2. CASE ~Morphos!LastClosed(w)
      BY <1>5, <3>2, MorphosOps, ServedAnswers DEF Morphos!ServeEnd, Serves
    <3> QED BY <3>1, <3>2
  <2> QED BY <2>1, LastClosedStep
<1>6. ASSUME Morphos!ServeMode PROVE ConsoleInv'
  <2>1. PICK m \in {"RAW", "COOKED"} : Serves(m, [Reply(Now, Asker) EXCEPT !.st.raw = (m = "RAW")])
    BY <1>6, MorphosOps, ServedAnswers DEF Morphos!ServeMode, Serves
  <2> QED BY <2>1, ModeStep
<1>7. ASSUME Morphos!ServeQuery PROVE ConsoleInv'
  <2>1. Serves("QUERY", Reply(Now, Asker))
    BY <1>7, MorphosOps, ServedAnswers DEF Morphos!ServeQuery, Serves
  <2> QED BY <2>1, ReplyStep DEF Packet
<1>8. ASSUME Morphos!Entry({"none", "idle"}) PROVE ConsoleInv'
  BY <1>8, MorphosOps, EntryStep
<1>9. ASSUME Morphos!WakeByTimer \/ Morphos!Tick \/ Morphos!WakeByPacket \/ Morphos!SleepAgain PROVE ConsoleInv'
  BY <1>9, MorphosHandler, WakeByTimerStep, TickStep, SleepsAndWakes
<1>10. ASSUME Morphos!OpenHandle \/ Morphos!GrantLock \/ Morphos!EndTimer \/ Morphos!HandlerFinal PROVE ConsoleInv'
  BY <1>10, MorphosHandler, OpenHandleStep, GrantLockStep, EndTimerStep, HandlerFinalStep
<1>11. ASSUME Morphos!DrainAndGo PROVE ConsoleInv'
  <2>1. hpc = "serve" /\ st.shutdown
    BY <1>11 DEF Morphos!DrainAndGo, Morphos!Stopping
  <2>2. Drain([Now EXCEPT !.replies = Senders], OwnPackets, "teardown")
    BY <1>11, Zenon, MorphosDrain DEF Morphos!DrainAndGo
  <2> QED BY <2>1, <2>2, OnceDrainStep
<1> QED BY <1>1, <1>2, <1>3, <1>4, <1>5, <1>6, <1>7, <1>8, <1>9, <1>10, <1>11
        DEF Morphos!rp_handler_entry, Morphos!HandlerLeaves

\* Every step on morphos.
LEMMA MorphosStep ==
  ASSUME ConsoleInv, port = "morphos", Morphos!Next, UNCHANGED port
  PROVE  ConsoleInv'
<1>1. CASE Morphos!Clients
  BY <1>1, MorphosMain, ClientsStep
<1>2. CASE Morphos!ChildEnds
  <2>1. PICK to \in {"closing", "gone"} :
          /\ cpc[Child] = "exit" /\ cpc' = [cpc EXCEPT ![Child] = to]
          /\ UNCHANGED <<st, queue, hpc, held, mpc, back, prog, locks, port>>
    BY <1>2 DEF Morphos!ChildEnds, Morphos!Go, Morphos!Child
  <2> QED BY <2>1, ClientMoves
<1>3. CASE Morphos!rp_handler_entry
  BY <1>3, MorphosHandlerStep
<1>4. CASE Morphos!rp_state_release \/ Morphos!rp_handler_die
  BY <1>4, MorphosHandler, MorphosMain, HandlerReleaseStep, ReleaseStep, MainFreeStep, DieCheckStep, DiePutStep
     DEF Morphos!rp_state_release, Morphos!rp_handler_die
<1>5. CASE Morphos!startConsole \/ Morphos!startProgram \/ Morphos!startChild
  <2>1. CASE Morphos!Start
    <3>1. mpc = "new" /\ mpc' \in {"state", "failed"} /\ UNCHANGED <<st, queue, hpc, cpc, held, back, prog, locks, port>>
      BY <2>1 DEF Morphos!Start, Morphos!Main
    <3> QED BY <3>1, BeginStep
  <2>2. CASE Morphos!StartHandles("pool")
    BY <2>2, MorphosMain, StartHandlesStep
  <2>3. CASE Morphos!StartChild(TRUE)
    BY <2>3, MorphosMain, StartChildStep
  <2> QED BY <1>5, <2>1, <2>2, <2>3, MorphosMain, StartStateStep, StartHandlerStep, StartPoolStep, StartLoadStep, StartFailsStep
          DEF Morphos!startConsole, Morphos!startProgram, Morphos!startChild
<1>6. CASE Morphos!tryReadOutput \/ Morphos!globalWake \/ Morphos!interrupt
  BY <1>6, MorphosMain, ReadOutputStep, EventArrivesStep, setGlobalWakeStep, TerminateStep
     DEF Morphos!tryReadOutput, Morphos!globalWake, Morphos!interrupt
<1>7. CASE Morphos!isAlive
  <2>1. CASE ~st.exited /\ st.task /\ ~Morphos!TaskExists(Morphos!Child)
    <3>1. st' = [st EXCEPT !.exited = TRUE, !.closed = TRUE, !.task = FALSE]
      BY <1>7, <2>1 DEF Morphos!isAlive
    <3>2. st'.exited /\ st'.out = st.out
      BY <3>1 DEF ConsoleInv, ConsoleOK, State
    <3>3. mpc = "polled" /\ mpc' = (IF st.out > 0 THEN Polled ELSE "idle")
          /\ UNCHANGED <<queue, hpc, cpc, held, back, prog, locks, port>>
      BY <1>7, <3>2 DEF Morphos!isAlive, Morphos!Alive, Morphos!Main, Morphos!Polled, Polled
    <3> QED BY <3>1, <3>3, VanishedStep
  <2>2. CASE ~(~st.exited /\ st.task /\ ~Morphos!TaskExists(Morphos!Child))
    <3>1. st' = st
      BY <1>7, <2>2 DEF Morphos!isAlive
    <3>2. mpc = "polled" /\ mpc' = (IF Alive(st) THEN Polled ELSE "idle")
          /\ UNCHANGED <<st, queue, hpc, cpc, held, back, prog, locks, port>>
      BY <1>7, <3>1 DEF Morphos!isAlive, Morphos!Alive, Alive, Morphos!Main, Morphos!Polled, Polled
    <3> QED BY <3>2, AliveStep
  <2> QED BY <2>1, <2>2
<1>8. CASE Morphos!writeInput
  <2>1. CASE Morphos!PushInput(Morphos!rp_fulfil_deferred(Morphos!Typed))
    <3>1. PushInput(Fulfilled(Typed))
      BY <2>1, MorphosMain, MorphosOps DEF Morphos!rp_fulfil_deferred, Fulfilled
    <3> QED BY <3>1, PushInputStep
  <2> QED BY <1>8, <2>1, MorphosMain, CheckInputStep DEF Morphos!writeInput
<1>9. CASE Morphos!close
  <2>1. prog.state /\ mpc \in {"idle", "failed"} /\ mpc' = "die" /\ back' = "closing"
        /\ UNCHANGED <<st, queue, hpc, cpc, held, prog, locks, port>>
    BY <1>9 DEF Morphos!close, Morphos!HandlerDie
  <2>2. prog.pins = {}
    BY <2>1 DEF ConsoleInv, PinsInv
  <2> QED BY <2>1, <2>2, ToDieStep
<1>10. CASE Morphos!release
  <2>1. CASE prog.state /\ (Morphos!Main("idle", "unlock") \/ Morphos!Main("failed", "unlock"))
               /\ UNCHANGED <<st, queue, cpc, back, prog, locks>>
    <3>1. prog.state /\ mpc \in {"idle", "failed"} /\ mpc' = "unlock"
          /\ UNCHANGED <<st, queue, hpc, cpc, held, back, prog, locks, port>>
      BY <2>1 DEF Morphos!Main
    <3> QED BY <3>1, ToUnlockStep
  <2>2. CASE Morphos!UnlockLook("drop") \/ Morphos!UnlockSlot
    BY <2>2, MorphosMain, UnlockLookStep, UnlockSlotStep
  <2>3. CASE Morphos!HandlerDie("drop", "dropping") /\ UNCHANGED <<st, prog>>
    <3>1. mpc = "drop" /\ mpc' = "die" /\ back' = "dropping" /\ UNCHANGED <<st, queue, hpc, cpc, held, prog, locks, port>>
      BY <2>3 DEF Morphos!HandlerDie
    <3>2. prog.state /\ prog.pins = {}
      BY <3>1 DEF ConsoleInv, HandleInv, PinsInv
    <3> QED BY <3>1, <3>2, ToDieStep
  <2> QED BY <1>10, <2>1, <2>2, <2>3 DEF Morphos!release
<1>11. CASE Morphos!shutdownAllNative
  BY <1>11, MorphosMain, SweepOnceStep, NoneToStopStep DEF Morphos!shutdownAllNative
<1> QED BY <1>1, <1>2, <1>3, <1>4, <1>5, <1>6, <1>7, <1>8, <1>9, <1>10, <1>11 DEF Morphos!Next

-----------------------------------------------------------------------------
(* The aros instance takes the steps of Console.                            *)

\* The operators of a section.
LEMMA ArosOps ==
  /\ Aros!Now = Now
  /\ Aros!Asker = Asker
  /\ Aros!Typed = Typed
  /\ \A w, c : Aros!Reply(w, c) = Reply(w, c)
  /\ \A w, c : Aros!Read(w, c) = Read(w, c)
  /\ \A w, c : Aros!Write(w, c) = Write(w, c)
  /\ \A w : Aros!FulfilRead(w) = FulfilRead(w)
  /\ \A n : Aros!rp_pop(n) = rp_pop(n)
  /\ \A w : Aros!Served(w) <=> Served(w)
  /\ \A t : Aros!Serving(t) <=> Serving(t)
  /\ \A T : Aros!Entry(T) <=> Entry(T)
<1>1. Aros!Now = Now
  BY Zenon DEF Aros!Now, Now
<1>2. Aros!Asker = Asker
  BY Zenon DEF Aros!Asker, Asker
<1>3. Aros!Typed = Typed
  BY Zenon DEF Aros!Typed, Aros!Now, Aros!rp_push, Typed, Now, rp_push
<1>4. \A w, c : Aros!Reply(w, c) = Reply(w, c)
  BY Zenon DEF Aros!Reply, Reply
<1>5. \A w, c : Aros!Read(w, c) = Read(w, c)
  BY Zenon DEF Aros!Read, Aros!None, Aros!Reply, Aros!rp_pop, Read, None, Reply, rp_pop
<1>6. \A w, c : Aros!Write(w, c) = Write(w, c)
  BY Zenon DEF Aros!Write, Aros!Reply, Aros!rp_push, Write, Reply, rp_push
<1>7. \A w : Aros!FulfilRead(w) = FulfilRead(w)
  BY Zenon DEF Aros!FulfilRead, Aros!None, Aros!Reply, Aros!Unparks, Aros!rp_pop, FulfilRead, None, Reply,
         Unparks, rp_pop
<1>8. \A n : Aros!rp_pop(n) = rp_pop(n)
  BY Zenon DEF Aros!rp_pop, rp_pop
<1>9. \A w : Aros!Served(w) <=> Served(w)
  BY Zenon DEF Aros!Served, Aros!Commit, Aros!Client, Aros!Resumed, Aros!Signalled, Aros!Child, Aros!Other,
         Served, Commit, Client, Resumed, Signalled, Child, Other
<1>10. \A t : Aros!Serving(t) <=> Serving(t)
  BY Zenon DEF Aros!Serving, Serving
<1>11. \A T : Aros!Entry(T) <=> Entry(T)
  BY Zenon DEF Aros!Entry, Aros!Handler, Entry, Handler
<1> QED BY <1>1, <1>2, <1>3, <1>4, <1>5, <1>6, <1>7, <1>8, <1>9, <1>10, <1>11

\* The steps of the handler.
LEMMA ArosHandler ==
  /\ Aros!WakeByPacket <=> WakeByPacket
  /\ Aros!SleepAgain <=> SleepAgain
  /\ Aros!OpenHandle <=> OpenHandle
  /\ Aros!HandlerFinal <=> HandlerFinal
  /\ Aros!HandlerRelease <=> HandlerRelease
  /\ Aros!HandlerFree <=> HandlerFree
<1>1. Aros!WakeByPacket <=> WakeByPacket
  BY Zenon DEF Aros!WakeByPacket, Aros!Handler, WakeByPacket, Handler
<1>2. Aros!SleepAgain <=> SleepAgain
  BY Zenon DEF Aros!SleepAgain, Aros!Handler, SleepAgain, Handler
<1>3. Aros!OpenHandle <=> OpenHandle
  BY Zenon DEF Aros!OpenHandle, Aros!Asker, Aros!Commit, Aros!Now, Aros!Reply, Aros!Serving, Aros!Client,
         Aros!Resumed, Aros!Signalled, Aros!Child, Aros!Other, OpenHandle, Asker, Commit, Now, Reply,
         Serving, Client, Resumed, Signalled, Child, Other
<1>4. Aros!HandlerFinal <=> HandlerFinal
  BY Zenon DEF Aros!HandlerFinal, Aros!Client, Aros!EndReads, Aros!EndWaits, Aros!Handler, Aros!Now,
         Aros!Resumed, Aros!Child, Aros!Other, Aros!None, Aros!Reply, HandlerFinal, Client, EndReads,
         EndWaits, Handler, Now, Resumed, Child, Other, None, Reply
<1>5. Aros!HandlerRelease <=> HandlerRelease
  BY Zenon DEF Aros!HandlerRelease, Aros!Handler, Aros!Released, HandlerRelease, Handler, Released
<1>6. Aros!HandlerFree <=> HandlerFree
  BY Zenon DEF Aros!HandlerFree, Aros!Freed, Aros!Handler, HandlerFree, Freed, Handler
<1> QED BY <1>1, <1>2, <1>3, <1>4, <1>5, <1>6

\* The end of the handler.
LEMMA ArosDrain ==
  /\ Aros!Now = Now
  /\ Aros!Senders = Senders
  /\ Aros!OwnPackets = OwnPackets
  /\ \A w, left, to : Aros!Drain(w, left, to) <=> Drain(w, left, to)
<1>1. Aros!Now = Now
  BY Zenon DEF Aros!Now, Now
<1>2. Aros!Senders = Senders
  BY Zenon DEF Aros!Senders, Aros!None, Senders, None
<1>3. Aros!OwnPackets = OwnPackets
  <2>1. Aros!Die = Die
    BY Zenon DEF Aros!Die, Aros!None, Die, None
  <2>2. {j \in DOMAIN queue : queue[j] = Aros!Die} = {j \in DOMAIN queue : queue[j] = Die}
    BY <2>1
  <2>3. \A S : Aros!Cardinality(S) = Cardinality(S)
    BY Zenon DEF Aros!Cardinality, Cardinality, Aros!IsFiniteSet, IsFiniteSet
  <2> QED BY <2>1, <2>2, <2>3 DEF Aros!OwnPackets, OwnPackets
<1>4. \A w, left, to : Aros!Drain(w, left, to) <=> Drain(w, left, to)
  BY Zenon DEF Aros!Drain, Aros!Commit, Aros!Client, Aros!Resumed, Aros!Signalled, Aros!Child, Aros!Other,
         Drain, Commit, Client, Resumed, Signalled, Child, Other
<1> QED BY <1>1, <1>2, <1>3, <1>4

\* The steps of the program and the clients.
LEMMA ArosMain ==
  /\ Aros!Clients <=> Clients
  /\ Aros!ReleaseHandle <=> ReleaseHandle
  /\ Aros!MainFree <=> MainFree
  /\ Aros!DieCheck <=> DieCheck
  /\ Aros!DiePut <=> DiePut
  /\ Aros!StartState <=> StartState
  /\ Aros!StartHandler <=> StartHandler
  /\ Aros!StartLoad <=> StartLoad
  /\ Aros!StartFails <=> StartFails
  /\ Aros!ReadOutput <=> ReadOutput
  /\ Aros!EventArrives <=> EventArrives
  /\ Aros!setGlobalWake <=> setGlobalWake
  /\ Aros!CheckInput <=> CheckInput
  /\ Aros!NoneToStop <=> NoneToStop
  /\ Aros!SweepOnce <=> SweepOnce
  /\ \A next : Aros!StartHandles(next) <=> StartHandles(next)
  /\ \A task : Aros!StartChild(task) <=> StartChild(task)
  /\ \A w : Aros!PushInput(w) <=> PushInput(w)
  /\ \A from, to : Aros!HandlerDie(from, to) <=> HandlerDie(from, to)
  /\ \A from, to : Aros!Main(from, to) <=> Main(from, to)
  /\ \A c, from, to : Aros!Go(c, from, to) <=> Go(c, from, to)
<1>1. Aros!Clients <=> Clients
  BY Zenon DEF Aros!Clients, Aros!Ask, Aros!Client, Aros!CloseHandle, Aros!Leave, Aros!Packet, Aros!Spawn,
         Aros!TimerExpires, Aros!Post, Aros!Child, Aros!Other, Aros!Go, Aros!PortExists, Clients,
         Ask, Client, CloseHandle, Leave, Packet, Spawn, TimerExpires, Post, Child, Other, Go,
         PortExists
<1>2. Aros!ReleaseHandle <=> ReleaseHandle
  BY Zenon DEF Aros!ReleaseHandle, Aros!ReleaseState, Aros!Released, ReleaseHandle, ReleaseState, Released
<1>3. Aros!MainFree <=> MainFree
  BY Zenon DEF Aros!MainFree, Aros!Freed, Aros!Main, MainFree, Freed, Main
<1>4. Aros!DieCheck <=> DieCheck
  BY Zenon DEF Aros!DieCheck, Aros!Main, DieCheck, Main
<1>5. Aros!DiePut <=> DiePut
  BY Zenon DEF Aros!DiePut, Aros!Die, Aros!Main, Aros!None, DiePut, Die, Main, None
<1>6. Aros!StartState <=> StartState
  BY Zenon DEF Aros!StartState, Aros!Main, StartState, Main
<1>7. Aros!StartHandler <=> StartHandler
  BY Zenon DEF Aros!StartHandler, Aros!Pinned, StartHandler, Pinned
<1>8. Aros!StartLoad <=> StartLoad
  BY Zenon DEF Aros!StartLoad, Aros!Main, StartLoad, Main
<1>9. Aros!StartFails <=> StartFails
  BY Zenon DEF Aros!StartFails, Aros!Main, StartFails, Main
<1>10. Aros!ReadOutput <=> ReadOutput
  BY Zenon DEF Aros!ReadOutput, Aros!Main, Aros!rp_pop, ReadOutput, Main, rp_pop
<1>11. Aros!EventArrives <=> EventArrives
  BY Zenon DEF Aros!EventArrives, Aros!Main, EventArrives, Main
<1>12. Aros!setGlobalWake <=> setGlobalWake
  BY Zenon DEF Aros!setGlobalWake, Aros!Main, setGlobalWake, Main
<1>13. Aros!CheckInput <=> CheckInput
  BY Zenon DEF Aros!CheckInput, Aros!Main, CheckInput, Main
<1>14. Aros!NoneToStop <=> NoneToStop
  BY Zenon DEF Aros!NoneToStop, Aros!AtRest, Aros!Main, NoneToStop, AtRest, Main
<1>15. Aros!SweepOnce <=> SweepOnce
  BY Zenon DEF Aros!SweepOnce, Aros!AtRest, Aros!HandlerDie, Aros!Main, SweepOnce, AtRest, HandlerDie, Main
<1>16. \A next : Aros!StartHandles(next) <=> StartHandles(next)
  BY Zenon DEF Aros!StartHandles, Aros!Main, StartHandles, Main
<1>17. \A task : Aros!StartChild(task) <=> StartChild(task)
  BY Zenon DEF Aros!StartChild, Aros!Child, StartChild, Child
<1>18. \A w : Aros!PushInput(w) <=> PushInput(w)
  BY Zenon DEF Aros!PushInput, Aros!Commit, Aros!Main, Aros!Client, Aros!Resumed, Aros!Signalled,
         Aros!Child, Aros!Other, PushInput, Commit, Main, Client, Resumed, Signalled, Child, Other
<1>19. \A from, to : Aros!HandlerDie(from, to) <=> HandlerDie(from, to)
  BY Zenon DEF Aros!HandlerDie, HandlerDie
<1>20. \A from, to : Aros!Main(from, to) <=> Main(from, to)
  BY Zenon DEF Aros!Main, Main
<1>21. \A c, from, to : Aros!Go(c, from, to) <=> Go(c, from, to)
  BY Zenon DEF Aros!Go, Go
<1> QED BY <1>1, <1>2, <1>3, <1>4, <1>5, <1>6, <1>7, <1>8, <1>9, <1>10, <1>11, <1>12, <1>13, <1>14,
         <1>15, <1>16, <1>17, <1>18, <1>19, <1>20, <1>21

\* The exit callback of aros records the exit.
LEMMA ArosExitMarkStep ==
  ASSUME ConsoleInv, port = "aros", cpc[Child] = "exit", cpc' = [cpc EXCEPT ![Child] = "wake"],
         st' = [st EXCEPT !.exited = TRUE], UNCHANGED <<queue, hpc, held, mpc, back, prog, locks, port>>
  PROVE  ConsoleInv'
<1> USE DEF ConsoleInv, ConsoleOK
<1>1. st' \in State
  BY DEF State
<1>2. cpc' \in [Client -> ClientPc] /\ cpc'[Child] = "wake" /\ cpc'[Other] = cpc[Other]
  BY DEF ClientPc
<1>3. ConsoleOK'
  BY <1>1, <1>2
<1>4. /\ st'.mem = st.mem /\ st'.refs = st.refs /\ st'.port = st.port /\ st'.shutdown = st.shutdown
      /\ st'.force = st.force /\ st'.out = st.out /\ st'.read = st.read /\ st'.exited
      /\ st'.wait = st.wait /\ st'.timer = st.timer /\ st'.in = st.in /\ st'.closed = st.closed
  BY DEF State
<1>5. HandleInv' /\ PinsInv'
  BY DEF HandleInv, PinsInv, Dying
<1>6. LifeInv' /\ RefsInv'
  BY <1>2, <1>4 DEF LifeInv, RefsInv, Freers, InExit, Starting
<1>7. \A c \in Client : Waiting(c)' <=> Waiting(c)
  BY <1>2 DEF Waiting
<1>8. QueueInv' /\ AsksInv' /\ ParkInv'
  BY <1>4, <1>7, QueueFrame DEF AsksInv, ParkInv, ParkedAndServed
<1>9. EndInv' /\ WakeInv'
  BY <1>2, <1>4 DEF EndInv, WakeInv, NoLostWake, WakeToCome
<1> QED BY <1>3, <1>5, <1>6, <1>8, <1>9

\* Without a WAIT_CHAR parked there is only the READ to answer.
LEMMA ArosFulfils ==
  ASSUME NEW w, w.st.wait = None
  PROVE  Aros!FulfilRead(w) = Fulfilled(w)
BY ArosOps DEF Fulfilled, FulfilWait

\* The handler on aros, which has no timer and parks no WAIT_CHAR.
LEMMA ArosHandlerStep ==
  ASSUME ConsoleInv, port = "aros", Aros!rp_handler_entry, UNCHANGED port
  PROVE  ConsoleInv'
<1>0. st.wait = None
  BY DEF ConsoleInv, ParkInv
<1>1. ASSUME Aros!ServeRead PROVE ConsoleInv'
  <2>1. Serves("READ", Read(Now, Asker))
    BY <1>1, ArosOps, ServedAnswers DEF Aros!ServeRead, Serves
  <2> QED BY <2>1, ServeReadStep
<1>2. ASSUME Aros!ServeWrite PROVE ConsoleInv'
  <2>1. Serves("WRITE", Write(Now, Asker))
    BY <1>2, ArosOps, ServedAnswers DEF Aros!ServeWrite, Serves
  <2> QED BY <2>1, WriteStep
<1>3. ASSUME Aros!ServeProbe PROVE ConsoleInv'
  <2>1. Aros!FulfilRead(Typed) = Fulfilled(Typed)
    BY <1>0, TypedFacts, ArosFulfils
  <2>2. Serves("PROBE", Reply(Fulfilled(Typed), Asker))
    BY <1>3, <2>1, ArosOps, ServedAnswers DEF Aros!ServeProbe, Aros!rp_fulfil_deferred, Serves
  <2> QED BY <2>2, ProbeStep
<1>4. ASSUME Aros!ServeWait \/ Aros!ServeQuery PROVE ConsoleInv'
  <2>1. PICK t \in Packet : Serves(t, Reply(Now, Asker))
    BY <1>4, ArosOps, ServedAnswers DEF Aros!ServeWait, Aros!ServeQuery, Serves, Packet
  <2> QED BY <2>1, ReplyStep
<1>5. ASSUME Aros!ServeEnd PROVE ConsoleInv'
  <2> DEFINE n == Now
             w == [n EXCEPT !.st.opens = rp_pop(@)]
             e == [w EXCEPT !.st.exited = TRUE, !.st.closed = TRUE]
  <2>1. n \in Work /\ n.st = st /\ n.wake = FALSE
    BY NowFacts DEF ConsoleInv
  <2>2. st \in State
    BY DEF ConsoleInv, ConsoleOK
  <2>3. e = [w EXCEPT !.st.exited = TRUE, !.st.closed = TRUE, !.wake = FALSE] /\ e.st.wait = None
    <3>1. /\ w.st = [st EXCEPT !.opens = rp_pop(st.opens)] /\ w.wake = FALSE
          /\ DOMAIN w = DOMAIN n
      <4> HIDE DEF n
      <4> QED BY <2>1 DEF Work
    <3>2. DOMAIN n = {"st", "replies", "wake"}
      <4> HIDE DEF n
      <4> QED BY <2>1 DEF Work
    <3>3. e = [w EXCEPT !.st.exited = TRUE, !.st.closed = TRUE, !.wake = FALSE]
      <4>1. w = [w EXCEPT !.wake = FALSE]
        <5> HIDE DEF n
        <5> QED BY <2>1, <3>1 DEF Work
      <4> HIDE DEF w, n
      <4> QED BY <3>1, <3>2, <4>1
    <3>4. e.st = [[st EXCEPT !.opens = rp_pop(st.opens)] EXCEPT !.exited = TRUE, !.closed = TRUE]
      <4> HIDE DEF w, n
      <4> QED BY <3>1, <3>2
    <3>5. e.st.wait = st.wait
      <4> HIDE DEF e, w, n
      <4> QED BY <2>2, <3>4 DEF State
    <3> QED BY <1>0, <3>3, <3>5
  <2>4. Aros!FulfilRead(e) = Fulfilled(e)
    <3> HIDE DEF e
    <3> QED BY <2>3, ArosFulfils
  <2>5. Serves("END", Reply(Fulfilled(e), Asker)) \/ Serves("END", Reply(w, Asker))
    <3>1. CASE Aros!LastClosed(w)
      BY <1>5, <2>4, <3>1, ArosOps, ServedAnswers DEF Aros!ServeEnd, Aros!rp_fulfil_deferred, Serves
    <3>2. CASE ~Aros!LastClosed(w)
      BY <1>5, <3>2, ArosOps, ServedAnswers DEF Aros!ServeEnd, Serves
    <3> QED BY <3>1, <3>2
  <2> HIDE DEF e
  <2>6. w = [Now EXCEPT !.st.opens = rp_pop(@)]
    OBVIOUS
  <2> HIDE DEF w
  <2> QED BY <2>3, <2>5, <2>6, LastClosedStep
<1>6. ASSUME Aros!ServeMode PROVE ConsoleInv'
  <2>1. PICK m \in {"RAW", "COOKED"} : Serves(m, [Reply(Now, Asker) EXCEPT !.st.raw = (m = "RAW")])
    BY <1>6, ArosOps, ServedAnswers DEF Aros!ServeMode, Serves
  <2> QED BY <2>1, ModeStep
<1>7. ASSUME Aros!Entry({"none"}) PROVE ConsoleInv'
  BY <1>7, ArosOps, EntryStep
<1>8. ASSUME Aros!WakeByPacket \/ Aros!SleepAgain PROVE ConsoleInv'
  BY <1>8, ArosHandler, SleepsAndWakes
<1>9. ASSUME Aros!OpenHandle \/ Aros!HandlerFinal PROVE ConsoleInv'
  BY <1>9, ArosHandler, OpenHandleStep, HandlerFinalStep
<1>10. ASSUME Aros!DrainAndGo PROVE ConsoleInv'
  <2>1. hpc = "serve" /\ st.shutdown
    BY <1>10 DEF Aros!DrainAndGo, Aros!Stopping
  <2>2. Drain([Now EXCEPT !.replies = Senders], OwnPackets, "final")
    BY <1>10, Zenon, ArosDrain DEF Aros!DrainAndGo
  <2> QED BY <2>1, <2>2, OnceDrainStep
<1> QED BY <1>1, <1>2, <1>3, <1>4, <1>5, <1>6, <1>7, <1>8, <1>9, <1>10
        DEF Aros!rp_handler_entry, Aros!HandlerLeaves

\* Every step on aros.
LEMMA ArosStep ==
  ASSUME ConsoleInv, port = "aros", Aros!Next, UNCHANGED port
  PROVE  ConsoleInv'
<1>1. CASE Aros!Clients
  BY <1>1, ArosMain, ClientsStep
<1>2. CASE Aros!rp_child_exit
  <2>1. CASE Aros!ExitMark
    <3>1. /\ cpc[Child] = "exit" /\ cpc' = [cpc EXCEPT ![Child] = "wake"]
          /\ st' = [st EXCEPT !.exited = TRUE] /\ UNCHANGED <<queue, hpc, held, mpc, back, prog, locks, port>>
      BY <2>1 DEF Aros!ExitMark, Aros!Go, Aros!Child
    <3> QED BY <3>1, ArosExitMarkStep
  <2>2. CASE Aros!ExitWake
    <3>1. /\ cpc[Child] = "wake" /\ cpc' = [cpc EXCEPT ![Child] = "closing"] /\ prog' = Signalled(prog)
          /\ UNCHANGED <<st, queue, hpc, held, mpc, back, locks, port>>
      BY <2>2 DEF Aros!ExitWake, Aros!Go, Aros!Child, Aros!Signalled, Signalled
    <3> QED BY <3>1, ExitWakeStep
  <2> QED BY <1>2, <2>1, <2>2 DEF Aros!rp_child_exit
<1>3. CASE Aros!rp_handler_entry
  BY <1>3, ArosHandlerStep
<1>4. CASE Aros!rp_state_release \/ Aros!rp_handler_die
  BY <1>4, ArosHandler, ArosMain, HandlerReleaseStep, ReleaseStep, MainFreeStep, DieCheckStep, DiePutStep
     DEF Aros!rp_state_release, Aros!rp_handler_die
<1>5. CASE Aros!startConsole \/ Aros!startProgram \/ Aros!startChild
  <2>1. CASE Aros!Start
    <3>1. mpc = "new" /\ mpc' \in {"state", "failed"} /\ UNCHANGED <<st, queue, hpc, cpc, held, back, prog, locks, port>>
      BY <2>1 DEF Aros!Start, Aros!Main
    <3> QED BY <3>1, BeginStep
  <2>2. CASE Aros!StartHandles("load")
    BY <2>2, ArosMain, StartHandlesStep
  <2>3. CASE Aros!StartChild(FALSE)
    BY <2>3, ArosMain, StartChildStep
  <2> QED BY <1>5, <2>1, <2>2, <2>3, ArosMain, StartStateStep, StartHandlerStep, StartLoadStep, StartFailsStep
          DEF Aros!startConsole, Aros!startProgram, Aros!startChild
<1>6. CASE Aros!tryReadOutput \/ Aros!globalWake
  BY <1>6, ArosMain, ReadOutputStep, EventArrivesStep, setGlobalWakeStep DEF Aros!tryReadOutput, Aros!globalWake
<1>7. CASE Aros!isAlive
  <2>1. mpc = "polled" /\ mpc' = (IF Alive(st) THEN Polled ELSE "idle")
        /\ UNCHANGED <<st, queue, hpc, cpc, held, back, prog, locks, port>>
    BY <1>7 DEF Aros!isAlive, Aros!Alive, Alive, Aros!Main, Aros!Polled, Polled
  <2> QED BY <2>1, AliveStep
<1>8. CASE Aros!writeInput
  <2>1. CASE Aros!PushInput(Aros!rp_fulfil_deferred(Aros!Typed))
    <3>1. st.wait = None
      BY DEF ConsoleInv, ParkInv
    <3>2. Aros!FulfilRead(Typed) = Fulfilled(Typed)
      BY <3>1, TypedFacts, ArosFulfils
    <3>3. PushInput(Fulfilled(Typed))
      BY <2>1, <3>2, ArosMain, ArosOps DEF Aros!rp_fulfil_deferred
    <3> QED BY <3>3, PushInputStep
  <2> QED BY <1>8, <2>1, ArosMain, CheckInputStep DEF Aros!writeInput
<1>9. CASE Aros!close \/ Aros!release
  <2>1. prog.state /\ mpc \in {"idle", "failed"} /\ mpc' = "die" /\ back' \in {"closing", "dropping"}
        /\ UNCHANGED <<st, queue, hpc, cpc, held, prog, locks, port>>
    BY <1>9 DEF Aros!close, Aros!release, Aros!HandleEnds, Aros!HandlerDie
  <2>2. prog.pins = {}
    BY <2>1 DEF ConsoleInv, PinsInv
  <2> QED BY <2>1, <2>2, ToDieStep
<1>10. CASE Aros!shutdownAllNative
  BY <1>10, ArosMain, SweepOnceStep, NoneToStopStep DEF Aros!shutdownAllNative
<1> QED BY <1>1, <1>2, <1>3, <1>4, <1>5, <1>6, <1>7, <1>8, <1>9, <1>10 DEF Aros!Next

-----------------------------------------------------------------------------
(* The theorems.                                                            *)

\* The invariant holds at first.
LEMMA InitConsole == TtyInit => ConsoleInv
<1> SUFFICES ASSUME TtyInit PROVE ConsoleInv
  OBVIOUS
<1> USE DEF TtyInit, ConsoleInit
<1>1. PICK a \in Asks : prog = [asks |-> a, state |-> FALSE, wake |-> FALSE, sig |-> FALSE, live |-> 0,
                                pins |-> {}, rounds |-> 0]
  OBVIOUS
<1>2. st \in State
  BY Sizes DEF State
<1>3. prog \in Program
  BY <1>1, Sizes, ConsoleAssumption DEF Program, ConsoleAssumption
<1>4. held \in [Client -> 0..Handles]
  BY Sizes
<1>5. ConsoleOK
  BY <1>2, <1>3, <1>4 DEF ConsoleOK, HandlerPc, MainPc, ClientPc, Locks
<1>6. /\ prog.live = 0 /\ prog.pins = {} /\ prog.state = FALSE /\ prog.wake = FALSE
      /\ cpc[Child] = "off" /\ cpc[Other] = "off"
  BY <1>1
<1>7. HandleInv /\ PinsInv
  BY <1>6 DEF HandleInv, PinsInv, Dying
<1>8. LifeInv /\ RefsInv
  BY <1>6 DEF LifeInv, RefsInv, Starting, Active, Count, Freers
<1>9. QueueInv
  <2>1. \A c \in Client : ~Waiting(c) /\ ~Queued(c)
    BY <1>6 DEF Waiting, Queued
  <2> QED BY <2>1 DEF QueueInv
<1>10. AsksInv /\ ParkInv
  BY DEF AsksInv, ParkInv, ParkedAndServed
<1>11. EndInv /\ WakeInv
  BY <1>6 DEF EndInv, WakeInv, NoLostWake, Leaving
<1> QED BY <1>5, <1>7, <1>8, <1>9, <1>10, <1>11 DEF ConsoleInv

\* Every step of every port keeps it.
LEMMA NextConsole == ConsoleInv /\ [TtyNext]_ttyVars => ConsoleInv'
<1> SUFFICES ASSUME ConsoleInv, [TtyNext]_ttyVars PROVE ConsoleInv'
  OBVIOUS
<1> QED BY AmigaStep, MorphosStep, ArosStep, Stutter DEF TtyNext

\* The invariant holds in every reachable state of every port: what the program, the
\* handler, the exit callback and the shutdown each still hold agrees with refcount,
\* the packets, the parking slots and the signals, wherever each of them stands.
THEOREM ConsoleInvariance == TtySpec => []ConsoleInv
BY InitConsole, NextConsole, PTL DEF TtySpec

\* The shutdown pins a state once for its list and once for the round.
LEMMA PinsCounted ==
  ASSUME NEW S \in SUBSET {"all", "round"}
  PROVE  Cardinality(S) = Count("all" \in S) + Count("round" \in S)
<1>1. Cardinality({}) = 0
  BY FS_EmptySet
<1>2. Cardinality({"all"}) = 1 /\ Cardinality({"round"}) = 1
  BY FS_Singleton
<1>3. Cardinality({"all", "round"}) = 2
  <2>1. IsFiniteSet({"all"})
    BY FS_Singleton
  <2>2. Cardinality({"all"} \cup {"round"}) = Cardinality({"all"}) + 1
    BY <2>1, FS_AddElement
  <2>3. {"all"} \cup {"round"} = {"all", "round"}
    OBVIOUS
  <2> QED BY <1>2, <2>2, <2>3
<1>4. CASE "all" \in S /\ "round" \in S
  <2>1. S = {"all", "round"}
    BY <1>4
  <2> QED BY <1>3, <1>4, <2>1 DEF Count
<1>5. CASE "all" \in S /\ "round" \notin S
  <2>1. S = {"all"}
    BY <1>5
  <2> QED BY <1>2, <1>5, <2>1 DEF Count
<1>6. CASE "all" \notin S /\ "round" \in S
  <2>1. S = {"round"}
    BY <1>6
  <2> QED BY <1>2, <1>6, <2>1 DEF Count
<1>7. CASE "all" \notin S /\ "round" \notin S
  <2>1. S = {}
    BY <1>7
  <2> QED BY <1>1, <1>7, <2>1 DEF Count
<1> QED BY <1>4, <1>5, <1>6, <1>7

\* refcount is the number of those who may still use the rp_state: each of the handle,
\* the handler, the exit callback and the shutdown counts itself in before it uses the
\* state and goes through rp_state_release when done.
THEOREM RefsExactHolds == TtySpec => []RefsExact
<1>1. ConsoleInv => RefsExact
  <2> SUFFICES ASSUME ConsoleInv PROVE RefsExact
    OBVIOUS
  <2>1. Cardinality(prog.pins) = Count("all" \in prog.pins) + Count("round" \in prog.pins)
    BY PinsCounted DEF ConsoleInv, ConsoleOK, Program
  <2> QED BY <2>1 DEF ConsoleInv, RefsInv, RefsExact, Count
<1> QED BY <1>1, ConsoleInvariance, PTL

\* rp_state_release frees the rp_state once, when nobody who holds a reference is left.
THEOREM NoUseAfterFreeHolds == TtySpec => []NoUseAfterFree
<1>1. ConsoleInv => NoUseAfterFree
  <2> SUFFICES ASSUME ConsoleInv, Users, st.mem = "freed" PROVE FALSE
    BY DEF NoUseAfterFree
  <2>1. st.refs = 0 /\ Freers = 0
    BY DEF ConsoleInv, RefsInv, Count
  <2>2. hpc # "free" /\ mpc # "free" /\ cpc[Child] # "free"
    BY <2>1 DEF Freers, Count
  <2>3. /\ ~prog.state /\ hpc \in {"off", "gone"} /\ "all" \notin prog.pins /\ "round" \notin prog.pins /\ ~InExit
    BY <2>1, <2>2 DEF ConsoleInv, RefsInv, Count
  <2>4. prog.pins = {}
    BY <2>3 DEF ConsoleInv, ConsoleOK, Program
  <2>5. port = "amigaos" /\ Dying => FALSE
    BY <2>3, <2>4 DEF ConsoleInv, HandleInv, PinsInv
  <2> QED BY <2>2, <2>3, <2>4, <2>5 DEF Users, HandlerThere, Dying
<1> QED BY <1>1, ConsoleInvariance, PTL

\* A client that waits has its packet in the port or in one of the two parking slots
\* of the handler, in one of them only: no reply is given twice and none forgotten.
THEOREM PacketsConservedHolds == TtySpec => []PacketsConserved
<1>1. ConsoleInv => PacketsConserved
  <2> SUFFICES ASSUME ConsoleInv, NEW c \in Client
               PROVE  Cardinality({i \in DOMAIN queue : queue[i].from = c}) + Count(st.read = c) + Count(st.wait = c)
                        = Count(Waiting(c))
    BY DEF PacketsConserved
  <2> DEFINE Q == {i \in DOMAIN queue : queue[i].from = c}
  <2>1. /\ Waiting(c) <=> Queued(c) \/ st.read = c \/ st.wait = c
        /\ ~(Queued(c) /\ st.read = c) /\ ~(Queued(c) /\ st.wait = c) /\ ~(st.read = c /\ st.wait = c)
    BY DEF ConsoleInv, QueueInv
  <2>2. CASE Queued(c)
    <3>1. PICK i \in DOMAIN queue : queue[i].from = c
      BY <2>2 DEF Queued
    <3>2. Q = {i}
      BY <3>1 DEF ConsoleInv, QueueInv
    <3>3. Cardinality(Q) = 1
      BY <3>2, FS_Singleton
    <3> HIDE DEF Q
    <3> QED BY <2>1, <2>2, <3>3 DEF Count, Q
  <2>3. CASE ~Queued(c)
    <3>1. Q = {}
      BY <2>3 DEF Queued
    <3>2. Cardinality(Q) = 0
      BY <3>1, FS_EmptySet
    <3> QED BY <2>1, <2>3, <3>2 DEF Count
  <2> QED BY <2>2, <2>3
<1> QED BY <1>1, ConsoleInvariance, PTL

\* A parked READ or WAIT_CHAR has nothing it could be answered with, and the timer of
\* a parked WAIT_CHAR runs, or has ended and is about to be looked at.
THEOREM ParkedAndServedHolds == TtySpec => []ParkedAndServed
<1>1. ConsoleInv => ParkedAndServed
  BY DEF ConsoleInv, ParkInv
<1> QED BY <1>1, ConsoleInvariance, PTL

\* An event loop asleep in Wait() has read all output and seen the exit, or has a
\* signal pending or to come.
THEOREM NoLostWakeHolds == TtySpec => []NoLostWake
<1>1. ConsoleInv => NoLostWake
  BY DEF ConsoleInv, WakeInv
<1> QED BY <1>1, ConsoleInvariance, PTL

\* On amigaos the child never waits at a handler that went, unless close() gave up on
\* it or the shutdown removed the handler.
THEOREM ChildNotStrandedHolds == TtySpec => []ChildNotStranded
<1>1. ConsoleInv => ChildNotStranded
  <2> SUFFICES ASSUME ConsoleInv, port = "amigaos", ~st.force, hpc # "removed"
               PROVE  cpc[Child] # "lost" /\ (Waiting(Child) => HandlerThere)
    BY DEF ChildNotStranded
  <2>1. cpc[Child] # "lost"
    BY DEF ConsoleInv, EndInv, Leaving
  <2>2. Waiting(Child) => HandlerThere
    BY DEF Waiting, HandlerThere, ConsoleInv, EndInv, LifeInv, Leaving
  <2> QED BY <2>1, <2>2
<1> QED BY <1>1, ConsoleInvariance, PTL
=============================================================================
