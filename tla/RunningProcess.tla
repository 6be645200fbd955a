--------------------------- MODULE RunningProcess ---------------------------
(***************************************************************************)
(* Am.Lang.RunningProcess on libc: a handle on a child behind a pty (or a  *)
(* socket pair in binary mode), polled from one thread.  The handle keeps  *)
(* numbers, of descriptors and of a process; what a number stands for is   *)
(* the kernel's to decide, and it gives a freed number to the next who     *)
(* asks.  The rest of the program opens and closes descriptors of its own, *)
(* the rest of the machine starts and ends processes.                      *)
(***************************************************************************)
EXTENDS Integers, FiniteSets

CONSTANTS
  Fd,         \* descriptor numbers: bounds how many are open at one time
  Pid,        \* process numbers
  MaxOutput,  \* chunks of output the child may write
  Nil         \* -1

ASSUME RunningProcessAssumption ==
  Fd \subseteq Nat /\ IsFiniteSet(Fd) /\ MaxOutput \in Nat /\ Nil \notin Fd \cup Pid

VARIABLES
  \* running_process_data
  stdin_writer_fd, stdout_reader_fd, child_pid, child_exited, binary,
  \* the kernel
  fd,        \* fd[f]: "free", "ours" (the master) or "other"
  proc,      \* proc[p]: "free", "child", "zombie" (the child, not reaped), "stranger"
  peer,      \* the other end is held: by the child, or by a process it left behind
  output,    \* chunks written and not yet read
  written,   \* chunks written so far
  \* the caller's loop, that of the capture tests: tryReadOutput(), isAlive(), sleep;
  \* over when the read was empty and no child is alive
  loop,      \* "idle", "read", "got" or "none" (what was read), "done"
  closed,    \* close() was called, or the handle released
  harm       \* operations done on a number that is no longer the handle's

fdVars     == <<stdin_writer_fd, stdout_reader_fd>>
childVars  == <<child_pid, child_exited, binary>>
kernelVars == <<fd, proc, peer, output, written>>
vars == <<fdVars, childVars, kernelVars, loop, closed, harm>>

Lowest(S) == CHOOSE f \in S : \A g \in S : f <= g
FreeFd    == {f \in Fd : fd[f] = "free"}
Ended     == \A p \in Pid : proc[p] # "child"

Init ==
  /\ stdin_writer_fd = Nil /\ stdout_reader_fd = Nil
  /\ child_pid = Nil /\ child_exited = FALSE
  /\ binary \in BOOLEAN
  /\ fd = [f \in Fd |-> "free"]
  /\ proc = [p \in Pid |-> "free"]
  /\ peer = FALSE /\ output = 0 /\ written = 0
  /\ loop = "idle" /\ closed = FALSE /\ harm = {}

-----------------------------------------------------------------------------
(* The kernel and the rest of the world.                                   *)

OtherOpens ==
  /\ FreeFd # {}
  /\ fd' = [fd EXCEPT ![Lowest(FreeFd)] = "other"]
  /\ UNCHANGED <<fdVars, childVars, proc, peer, output, written, loop, closed, harm>>

OtherCloses(f) ==
  /\ fd[f] = "other"
  /\ fd' = [fd EXCEPT ![f] = "free"]
  /\ UNCHANGED <<fdVars, childVars, proc, peer, output, written, loop, closed, harm>>

ChildWrites(p) ==
  /\ proc[p] = "child" /\ peer
  /\ written < MaxOutput
  /\ written' = written + 1
  /\ output' = output + 1
  /\ UNCHANGED <<fdVars, childVars, fd, proc, peer, loop, closed, harm>>

\* A process the child started may hold the other end for longer; it writes nothing.
ChildExits(p) ==
  /\ proc[p] = "child"
  /\ proc' = [proc EXCEPT ![p] = "zombie"]
  /\ peer' \in {FALSE, peer}
  /\ UNCHANGED <<fdVars, childVars, fd, output, written, loop, closed, harm>>

\* The last holder closes it: the child, alive, its stdout; or whoever is left.
PeerCloses ==
  /\ peer /\ peer' = FALSE
  /\ UNCHANGED <<fdVars, childVars, fd, proc, output, written, loop, closed, harm>>

Stranger(p) ==
  /\ \/ proc[p] = "free" /\ proc' = [proc EXCEPT ![p] = "stranger"]
     \/ proc[p] = "stranger" /\ proc' = [proc EXCEPT ![p] = "free"]
  /\ UNCHANGED <<fdVars, childVars, fd, peer, output, written, loop, closed, harm>>

-----------------------------------------------------------------------------
(* The operations.                                                         *)

\* startNative: one master descriptor in both slots.  Process.start calls it once.
startNative(p) ==
  /\ loop = "idle"
  /\ proc[p] = "free" /\ FreeFd # {}
  /\ LET f == Lowest(FreeFd)
     IN  /\ fd' = [fd EXCEPT ![f] = "ours"]
         /\ stdin_writer_fd' = f
         /\ stdout_reader_fd' = f
  /\ proc' = [proc EXCEPT ![p] = "child"]
  /\ child_pid' = p
  /\ peer' = TRUE
  /\ loop' = "read"
  /\ UNCHANGED <<child_exited, binary, output, written, closed, harm>>

\* Mutant of CloseReader: the slot keeps the number.
CloseReaderKeepsSlot ==
  /\ fd' = [fd EXCEPT ![stdout_reader_fd] = "free"]
  /\ harm' = IF fd[stdout_reader_fd] = "ours" THEN harm ELSE harm \cup {"close"}
  /\ UNCHANGED fdVars

\* close(2) of the reader: another's descriptor of that number is closed too.
CloseReader ==
  /\ fd' = [fd EXCEPT ![stdout_reader_fd] = "free"]
  /\ harm' = IF fd[stdout_reader_fd] = "ours" THEN harm ELSE harm \cup {"close"}
  /\ stdout_reader_fd' = Nil
  /\ UNCHANGED stdin_writer_fd

\* Bytes, or the end of file of a socket pair: read(2) and poll(2) agree on it.
Readable == stdout_reader_fd # Nil /\ (output > 0 \/ (binary /\ ~peer))

\* tryReadOutput and tryReadOutputBytes return data...
ReadSome ==
  /\ stdout_reader_fd # Nil /\ output > 0
  /\ output' = output - 1
  /\ UNCHANGED <<fdVars, fd, harm>>

\* ... or nothing: EAGAIN while the other end is held, end of file on a socket
\* pair nobody holds, and EIO on such a pty, after EAGAINs on some systems.
ReadNothing ==
  /\ stdout_reader_fd = Nil \/ output = 0
  /\ \/ ~Readable /\ UNCHANGED <<fdVars, fd, harm>>
     \/ stdout_reader_fd # Nil /\ ~peer /\ CloseReader
  /\ UNCHANGED output

tryReadOutput ==
  /\ loop = "read"
  /\ \/ ReadSome /\ loop' = "got"
     \/ ReadNothing /\ loop' = "none"
  /\ UNCHANGED <<childVars, proc, peer, written, closed>>

\* writeInput, writeInputBytes.
writeInput ==
  /\ stdin_writer_fd # Nil
  /\ harm' = IF fd[stdin_writer_fd] = "ours" THEN harm ELSE harm \cup {"write"}
  /\ UNCHANGED <<fdVars, childVars, kernelVars, loop, closed>>

Running == child_pid # Nil /\ ~child_exited /\ proc[child_pid] = "child"
Reaps   == child_pid # Nil /\ ~child_exited /\ proc[child_pid] = "zombie"

\* Mutants of PollFd: an open descriptor counts as a live child; a hang-up is
\* looked at before the bytes that are left.
PollFdOpen(alive) ==
  IF stdout_reader_fd # Nil
  THEN alive /\ UNCHANGED <<fdVars, fd, harm>>
  ELSE ~alive /\ UNCHANGED <<fdVars, fd, harm>>

PollFdHangUpFirst(alive) ==
  /\ ~alive
  /\ IF stdout_reader_fd # Nil THEN CloseReader ELSE UNCHANGED <<fdVars, fd, harm>>

\* poll(2) once the child is gone.  Readable counts as a live child; the hang-up
\* of a drained pty closes the reader, on the systems that report it.
PollFd(alive) ==
  /\ alive = Readable
  /\ \/ UNCHANGED <<fdVars, fd, harm>>
     \/ stdout_reader_fd # Nil /\ ~Readable /\ ~peer /\ CloseReader

isAlive ==
  /\ loop \in {"got", "none"}
  /\ child_exited' = (child_exited \/ Reaps)
  /\ proc' = IF Reaps THEN [proc EXCEPT ![child_pid] = "free"] ELSE proc
  /\ \E alive \in BOOLEAN :
       /\ IF Running THEN alive /\ UNCHANGED <<fdVars, fd, harm>> ELSE PollFd(alive)
       /\ loop' = IF alive \/ loop = "got" THEN "read" ELSE "done"
  /\ UNCHANGED <<child_pid, binary, peer, output, written, closed>>

\* Mutant of rp_close_internal: signals the number of a child already reaped.
CloseUnchecked ==
  LET f == {stdin_writer_fd, stdout_reader_fd} \ {Nil} IN
  /\ closed' = TRUE
  /\ fd' = [g \in Fd |-> IF g \in f THEN "free" ELSE fd[g]]
  /\ stdin_writer_fd' = Nil /\ stdout_reader_fd' = Nil
  /\ harm' = IF child_pid # Nil /\ proc[child_pid] = "stranger"
             THEN harm \cup {"kill"} ELSE harm
  /\ child_exited' = TRUE
  /\ UNCHANGED <<child_pid, binary, proc, peer, output, written, loop>>

\* close() and _native_release: every descriptor the slots name is closed, and
\* a child not known to be gone gets SIGTERM and one waitpid(WNOHANG).
rp_close_internal ==
  LET f == {stdin_writer_fd, stdout_reader_fd} \ {Nil}
      signals == child_pid # Nil /\ ~child_exited IN
  /\ closed' = TRUE
  /\ fd' = [g \in Fd |-> IF g \in f THEN "free" ELSE fd[g]]
  /\ stdin_writer_fd' = Nil /\ stdout_reader_fd' = Nil
  /\ harm' = harm \cup (IF \E g \in f : fd[g] # "ours" THEN {"close"} ELSE {})
                  \cup (IF signals /\ proc[child_pid] = "stranger" THEN {"kill"} ELSE {})
  /\ proc' \in IF Running \/ Reaps
               THEN {[proc EXCEPT ![child_pid] = "free"]} \cup (IF Reaps THEN {} ELSE {proc})
               ELSE {proc}
  /\ child_exited' = (child_exited \/ signals)
  /\ UNCHANGED <<child_pid, binary, peer, output, written, loop>>

\* An interrupt byte down the pty; if that cannot be written, SIGINT to the
\* number of the child, exited or not.
terminateChild ==
  LET f == IF binary THEN Nil ELSE stdin_writer_fd
      kills == child_pid # Nil /\ (f = Nil \/ fd[f] = "free") IN
  /\ harm' = harm \cup (IF f # Nil /\ fd[f] = "other" THEN {"write"} ELSE {})
                  \cup (IF kills /\ proc[child_pid] = "stranger" THEN {"interrupt"} ELSE {})
  /\ UNCHANGED <<fdVars, childVars, kernelVars, loop, closed>>

World == OtherOpens \/ PeerCloses \/ (\E f \in Fd : OtherCloses(f))
         \/ \E p \in Pid : ChildWrites(p) \/ ChildExits(p) \/ Stranger(p)
Polls == isAlive \/ tryReadOutput
Next  == \/ World \/ Polls \/ writeInput \/ terminateChild \/ rp_close_internal
         \/ \E p \in Pid : startNative(p)

Spec     == Init /\ [][Next]_vars
\* The caller runs its loop.
FairSpec == Spec /\ WF_vars(Polls)

-----------------------------------------------------------------------------
Ours == {f \in Fd : fd[f] = "ours"}

TypeOK ==
  /\ stdin_writer_fd \in Fd \cup {Nil} /\ stdout_reader_fd \in Fd \cup {Nil}
  /\ child_pid \in Pid \cup {Nil}
  /\ child_exited \in BOOLEAN /\ binary \in BOOLEAN /\ closed \in BOOLEAN
  /\ fd \in [Fd -> {"free", "ours", "other"}]
  /\ proc \in [Pid -> {"free", "child", "zombie", "stranger"}]
  /\ output \in 0 .. MaxOutput /\ written \in 0 .. MaxOutput
  /\ peer \in BOOLEAN /\ loop \in {"idle", "read", "got", "none", "done"}
  /\ harm \subseteq {"close", "write", "kill", "interrupt"}

(* The reader slot never names a descriptor the handle does not own, and a  *)
(* closed handle owns none: nothing is read from a stranger, nothing leaks. *)
ReaderOwned ==
  /\ TypeOK
  /\ stdout_reader_fd # Nil => stdout_reader_fd \in Ours
  /\ \A f \in Ours : f = stdout_reader_fd

(* close() and the release of the handle signal only the child itself: its  *)
(* number is not given to another process before the handle knows it ended. *)
CloseKillsOnlyChild == "kill" \notin harm

(* A caller that stops at an empty read with no child alive has read all    *)
(* the child wrote, unless it closed the handle: isAlive keeps saying yes   *)
(* while bytes are left.                                                    *)
AllOutputRead == loop = "done" /\ ~closed => output = 0

(* The loop of the capture tests (ProcessCaptureRegression/Main.aml:98-113) *)
(* ends once the child has, whoever still holds the other end: isAlive does *)
(* not say yes for ever, in either mode.                                    *)
LoopEnds == (loop # "idle" /\ Ended) ~> (loop = "done")
=============================================================================
