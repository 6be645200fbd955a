------------------------------- MODULE Spawn -------------------------------
(***************************************************************************)
(* Am.Lang.Process: commands that are run to their end, with or without     *)
(* their output, and the search for their program, which the asynchronous   *)
(* RunningProcess shares.  Threads of the program call; a call is a record, *)
(* and so is the child it creates.  A Forbid() section is one step; DOS     *)
(* calls switch tasks, so what lies between them interleaves.               *)
(***************************************************************************)
EXTENDS SpawnPath, FiniteSets

CONSTANTS
  Threads,   \* the calling tasks
  Calls,     \* the calls there may be, 1 .. n
  Addrs,     \* addresses a Process structure can get
  Chunks,    \* how often a child writes to each stream, at most
  Systems,   \* the path lists and disks that are examined, see SpawnPath
  Dirs,      \* lists that setSpawnSearchPath may be given
  Wedges     \* ports on which a child may outlast the wait for it

ASSUME SpawnAssumption ==
  /\ Calls = 1 .. Cardinality(Calls) /\ Chunks \in Nat
  /\ \A s \in Systems : \A p \in {s.own, s.workbench, s.ambient} : p \in Seq(s.drawers)

None   == "none"
Entry  == {"run", "capture", "captureInDir", "stdoutInDir", "start"}
Stream == {"out", "err"}

VARIABLES
  call,      \* the calls, see NewCall
  file,      \* temp files: the chunks in each, -1 when there is none
  contexts,  \* g_cap_contexts: calls whose context is listed, newest first
  buffer,    \* the static buffers: whose command each entry point's holds
  resolved,  \* g_cap_resolved, g_resolved_cmd_path: the place last tried
  dirs,      \* __spawn_dirs
  system,    \* the disk and the path lists of the processes on it
  squat,     \* freed addresses that a process of somebody else has now
  harm       \* what must never happen and has

vars == <<call, file, contexts, buffer, resolved, dirs, system, squat, harm>>

NewCall ==
  [by |-> None, entry |-> None, pc |-> "new",
   dir   |-> None,        \* the working directory: "swapped", then "restored"
   bare  |-> TRUE,        \* its command has no path of its own
   chain |-> <<>>,        \* the rest of the chain a search walks,
   held  |-> FALSE,       \* whose locks it holds,
   short |-> FALSE,       \* there was no memory for the chain
   path  |-> <<>>,        \* the rest of the CLI's list
   seg   |-> None,        \* where the program was found
   prog  |-> None,        \* the call whose command that was
   locks |-> {},          \* minted for the child and still the caller's to give: its
                          \* drawer ("home"), its directory ("cwd"), its list ("path")
   drawer |-> None,       \* which drawer "home" is
   mixed |-> FALSE,       \* another call ran through the same static buffers
   open  |-> {},          \* the streams whose handle is open
   ctx   |-> None,        \* its am_cap_ctx: "own", "listed", "freed"
   child |-> "none",      \* its child: "runs", "exits", "closes", "gone"
   named |-> TRUE,        \* which has the name it was given
   addr  |-> None,
   found |-> 0,           \* the context the exit hook found
   wrote |-> [s \in Stream |-> 0],
   gone  |-> FALSE,       \* the wait saw the child go
   got   |-> [s \in Stream |-> 0],   \* what was read back
   blind |-> FALSE,       \* reading back failed
   end   |-> None]        \* "threw", "unopened" when its files would not open, or "returned"

File == {<<t, s>> : t \in Threads, s \in {"out", "err", "cap"}}

Init ==
  /\ call = [c \in Calls |-> NewCall]
  /\ file = [f \in File |-> -1]
  /\ contexts = <<>> /\ squat = {} /\ harm = {}
  /\ buffer = [e \in Entry |-> 0]
  /\ resolved = [b \in {"cap", "cmd"} |-> Here]
  /\ dirs \in Dirs /\ system \in Systems

-----------------------------------------------------------------------------
At(c, pc)   == call[c].pc = pc
In(c, es)   == call[c].entry \in es
Goes(c, pc) == [call EXCEPT ![c].pc = pc]
Static(c)   == IF In(c, {"start"}) THEN "cmd" ELSE "cap"
Alive(c)    == call[c].child \in {"runs", "exits", "closes"}
Capturing   == {"capture", "captureInDir"}
Searching   == {c \in Calls : call[c].pc \in {"checks", "parse", "name", "chain", "path", "home", "ctx", "spawn"}}
Rivals(c)   == {d \in Searching \ {c} : Static(d) = Static(c)}

\* The temp file of a stream is named from the task address of the caller.
temp_path(c, s) == <<call[c].by, IF In(c, {"stdoutInDir"}) THEN "cap" ELSE s>>
Busy(f) == \E c \in Calls, s \in Stream : s \in call[c].open /\ temp_path(c, s) = f

\* The end of a call: the working directory is put back.
Ended(k, how) == [k EXCEPT !.pc = "done", !.end = how, !.dir = IF @ = "swapped" THEN "restored" ELSE @]

Throws(k) == Ended(k, "threw")

\* A failed start gives back the drawer's lock, the directory's, the streams and
\* their files.  The list is not given back: nobody knows who owns it then.
Undone(k) == Throws([k EXCEPT !.open = {}, !.locks = @ \ {"home", "cwd"}])
Deleted(c) == [f \in File |-> IF f[1] = call[c].by /\ f[2] \in Stream THEN -1 ELSE file[f]]

-----------------------------------------------------------------------------
(* The working directory and the temp files.                                *)

\* A call begins: calls of one thread follow each other.
Begin(c, es) ==
  /\ At(c, "new") /\ \A d \in Calls : d < c => ~At(d, "new")
  /\ \E t \in Threads, e \in es, bare \in BOOLEAN :
       /\ \A d \in Calls : call[d].by = t => At(d, "done")
       /\ call' = [call EXCEPT ![c].by = t, ![c].entry = e, ![c].bare = bare, ![c].pc = "begun"]
  /\ UNCHANGED <<file, contexts, buffer, resolved, dirs, system, squat, harm>>

\* captureStdoutInDir puts its command together in a static buffer, and works on
\* the main process only: its callers are to see that there is one at a time.
OneStdout(c) ==
  call'[c].entry = "stdoutInDir" => \A d \in Calls \ {c} : In(d, {"stdoutInDir"}) => At(d, "done")

\* With a working directory: it is locked and made current.  The blocking calls
\* throw when that fails, an asynchronous start stays where it is.
SwapDir(c, from, next) ==
  /\ At(c, from)
  /\ \/ call' = Goes(c, next)
     \/ In(c, {"captureInDir", "stdoutInDir", "start"}) /\ call' = [call EXCEPT ![c].pc = next, ![c].dir = "swapped"]
     \/ In(c, {"captureInDir", "stdoutInDir"}) /\ call' = [call EXCEPT ![c] = Throws(@)]
  /\ UNCHANGED <<file, contexts, buffer, resolved, dirs, system, squat, harm>>

\* Opening for output empties the file; one that is still open refuses.  If one
\* of them fails those that were opened are closed, and their files stay.
OpenFiles(c) ==
  /\ At(c, "open")
  /\ LET free == {s \in Stream : ~Busy(temp_path(c, s))}
     IN \E opened \in SUBSET free, nil \in BOOLEAN :
          /\ file' = [f \in File |-> IF f[1] = call[c].by /\ f[2] \in opened THEN 0 ELSE file[f]]
          /\ call' = IF opened = Stream /\ nil THEN [call EXCEPT ![c].pc = "parse", ![c].open = opened]
                     ELSE [call EXCEPT ![c] = Ended(@, "unopened")]
  /\ UNCHANGED <<contexts, buffer, resolved, dirs, system, squat, harm>>

\* A search begins that shares the static buffers with those under way.
Mixes(c, next) ==
  call' = [d \in Calls |->
             IF d = c THEN [call[c] EXCEPT !.pc = next, !.mixed = Rivals(c) # {}]
             ELSE IF d \in Rivals(c) THEN [call[d] EXCEPT !.mixed = TRUE] ELSE call[d]]

\* The command is split into a static buffer of the entry point.
Parse(c) ==
  /\ At(c, "parse") /\ Mixes(c, "name")
  /\ buffer' = [buffer EXCEPT ![call[c].entry] = c]
  /\ UNCHANGED <<file, contexts, resolved, dirs, system, squat, harm>>

setSpawnSearchPath ==
  /\ dirs' \in Dirs \ {dirs}
  /\ call' = [c \in Calls |-> IF c \in Searching THEN [call[c] EXCEPT !.mixed = TRUE] ELSE call[c]]
  /\ UNCHANGED <<file, contexts, buffer, resolved, system, squat, harm>>

-----------------------------------------------------------------------------
(* The search.  The name is read from the static buffer at each attempt, and *)
(* each attempt leaves its place in a static buffer too.                     *)

Name(c) == call[buffer[call[c].entry]]
Holds(c, p) == p \in system.holds[Name(c).bare]

Tried(c, p) == resolved' = [resolved EXCEPT ![Static(c)] = p]

Loads(k, c, p) ==
  [k EXCEPT !.seg = p, !.prog = buffer[call[c].entry], !.pc = "home", !.held = FALSE, !.chain = <<>>, !.path = <<>>]

\* As given; a name with a path of its own is looked for nowhere else.
TryName(c, extra) ==
  /\ At(c, "name") /\ Tried(c, Here)
  /\ \/ Holds(c, Here) /\ call' = [call EXCEPT ![c] = Loads(@, c, Here)]
     \/ ~Holds(c, Here) /\ ~Name(c).bare /\ call' = Goes(c, "missing")
     \/ /\ ~Holds(c, Here) /\ Name(c).bare
        /\ \E chain \in {<<>>, extra} :
             call' = [call EXCEPT ![c].pc = "chain", ![c].chain = chain, ![c].held = chain # <<>>, ![c].short = chain # extra]
  /\ UNCHANGED <<file, contexts, buffer, dirs, system, squat, harm>>

\* Mutant of TryChain: a program found on the chain keeps the chain's locks.
TryChainKeeps(c) ==
  /\ At(c, "chain") /\ call[c].chain # <<>> /\ Tried(c, Head(call[c].chain))
  /\ call' = IF Holds(c, Head(call[c].chain))
             THEN [call EXCEPT ![c] = [Loads(@, c, Head(call[c].chain)) EXCEPT !.held = TRUE]]
             ELSE [call EXCEPT ![c].chain = Tail(@)]
  /\ UNCHANGED <<file, contexts, buffer, dirs, system, squat, harm>>

TryChain(c) ==
  /\ At(c, "chain") /\ call[c].chain # <<>> /\ Tried(c, Head(call[c].chain))
  /\ call' = IF Holds(c, Head(call[c].chain)) THEN [call EXCEPT ![c] = Loads(@, c, Head(call[c].chain))]
             ELSE [call EXCEPT ![c].chain = Tail(@)]
  /\ UNCHANGED <<file, contexts, buffer, dirs, system, squat, harm>>

\* The chain is freed, and the CLI's own list walked.
FreeChain(c, list) ==
  /\ At(c, "chain") /\ call[c].chain = <<>>
  /\ call' = [call EXCEPT ![c].pc = "path", ![c].held = FALSE, ![c].path = Append(list, C)]
  /\ UNCHANGED <<file, contexts, buffer, resolved, dirs, system, squat, harm>>

TryPath(c) ==
  /\ At(c, "path") /\ call[c].path # <<>> /\ Tried(c, Head(call[c].path))
  /\ call' = IF Holds(c, Head(call[c].path)) THEN [call EXCEPT ![c] = Loads(@, c, Head(call[c].path))]
             ELSE [call EXCEPT ![c].path = Tail(@)]
  /\ UNCHANGED <<file, contexts, buffer, dirs, system, squat, harm>>

NotFound(c) ==
  /\ At(c, "missing") \/ (At(c, "path") /\ call[c].path = <<>>)
  /\ call' = [call EXCEPT ![c] = Undone(@)]
  /\ file' = IF In(c, Capturing) THEN Deleted(c) ELSE file
  /\ UNCHANGED <<contexts, buffer, resolved, dirs, system, squat, harm>>

\* The drawer is locked by the place in the static buffer, as PROGDIR: for the
\* child; if that fails the program's own is copied, or for a start the working
\* directory; or there is none.  A start copies the working directory as well.
LockDrawer(c, next) ==
  /\ At(c, "home")
  /\ \E locks \in SUBSET (IF In(c, {"start"}) THEN {"home", "cwd"} ELSE {"home"}) :
     \E drawer \in IF "home" \in locks THEN {None, resolved[Static(c)]} ELSE {None} :
       call' = [call EXCEPT ![c].pc = next, ![c].locks = locks, ![c].drawer = drawer]
  /\ UNCHANGED <<file, contexts, buffer, resolved, dirs, system, squat, harm>>

-----------------------------------------------------------------------------
(* The child.                                                               *)

FreeAddrs == {a \in Addrs : a \notin squat /\ \A d \in Calls : call[d].addr = a => ~Alive(d)}

\* The list minted for a child: none is needed, or there is no memory for it.
Minted == IF build_spawn_path(dirs, system) = <<>> THEN {{}} ELSE {{}, {"path"}}
NoList == {{}}

\* The child owns what was locked for it from now on, and closes its output.
Born(k, a) == [k EXCEPT !.pc = "wait", !.child = "runs", !.addr = a, !.locks = {}]

SpawnFails(c, lists) ==
  /\ At(c, "spawn")
  /\ \E list \in lists :
       call' = [call EXCEPT ![c] = Undone([@ EXCEPT !.ctx = IF @ = "own" THEN "freed" ELSE @, !.locks = @ \cup list])]
  /\ file' = IF In(c, Capturing) THEN Deleted(c) ELSE file
  /\ UNCHANGED <<contexts, buffer, resolved, dirs, system, squat, harm>>

\* What it writes goes through the handles the caller gave it.
ChildWrites(c, s) ==
  /\ call[c].child = "runs" /\ call[c].wrote[s] < Chunks
  /\ In(c, Capturing) \/ (In(c, {"stdoutInDir"}) /\ s = "out")
  /\ call' = [call EXCEPT ![c].wrote[s] = @ + 1]
  /\ file' = IF s \in call[c].open THEN [file EXCEPT ![temp_path(c, s)] = @ + 1] ELSE file
  /\ harm' = IF s \in call[c].open THEN harm ELSE harm \cup {<<"wrote to a closed handle", c>>}
  /\ UNCHANGED <<contexts, buffer, resolved, dirs, system, squat>>

\* The exit path of DOS closes input and output, not the patched pr_CES; then
\* the task is removed from the lists, and its address is free.
ChildGone(c, from) ==
  /\ call[c].child = from
  /\ call' = [call EXCEPT ![c].child = "gone", ![c].open = @ \ {"out"}]
  /\ harm' = IF In(c, Capturing) /\ "out" \notin call[c].open THEN harm \cup {<<"closed twice", c>>} ELSE harm
  /\ UNCHANGED <<file, contexts, buffer, resolved, dirs, system, squat>>

\* A program may change the name of its task.
Renames(c) ==
  /\ Alive(c) /\ call' = [call EXCEPT ![c].named = ~@]
  /\ UNCHANGED <<file, contexts, buffer, resolved, dirs, system, squat, harm>>

\* The system gives the address of a removed process to another; it matters
\* while somebody waits for that process.
Squat(a) ==
  /\ a \in FreeAddrs \cap {call[d].addr : d \in {d \in Calls : At(d, "wait")}} /\ squat' = squat \cup {a}
  /\ UNCHANGED <<call, file, contexts, buffer, resolved, dirs, system, harm>>

\* Another process of the system ends.
Unsquat(a) ==
  /\ a \in squat /\ squat' = squat \ {a}
  /\ UNCHANGED <<call, file, contexts, buffer, resolved, dirs, system, harm>>

-----------------------------------------------------------------------------
(* After the wait.                                                          *)

\* The wait ends: the child is gone, or it is given up on.
WaitEnds(c, gone, next) ==
  /\ At(c, "wait") /\ call' = [call EXCEPT ![c].pc = next, ![c].gone = gone]
  /\ UNCHANGED <<file, contexts, buffer, resolved, dirs, system, squat, harm>>

\* The caller's own handle of the patched pr_CES; the child closed the others.
CloseErr(c) ==
  /\ At(c, "close") /\ call' = [call EXCEPT ![c].pc = "read", ![c].open = @ \ {"err"}]
  /\ harm' = IF "err" \in call[c].open THEN harm ELSE harm \cup {<<"closed twice", c>>}
  /\ UNCHANGED <<file, contexts, buffer, resolved, dirs, system, squat>>

\* Reading back deletes the file, except one that is open, which gives nothing.
\* Too little memory or a read error is taken for an empty file as well.
ReadBack(c, streams) ==
  /\ At(c, "read")
  /\ LET free == {s \in streams : ~Busy(temp_path(c, s)) /\ file[temp_path(c, s)] >= 0}
     IN /\ file' = [f \in File |-> IF \E s \in free : temp_path(c, s) = f THEN -1 ELSE file[f]]
        /\ \E blind \in BOOLEAN :
             call' = [call EXCEPT ![c].pc = "finish", ![c].blind = blind,
                                  ![c].got = [s \in Stream |-> IF s \in free /\ ~blind THEN file[temp_path(c, s)] ELSE 0]]
  /\ UNCHANGED <<contexts, buffer, resolved, dirs, system, squat, harm>>

\* The text is put together and returned, or memory is short.
Finish(c) ==
  /\ At(c, "finish")
  /\ \E how \in {"threw", "returned"} : call' = [call EXCEPT ![c] = Ended(@, how)]
  /\ UNCHANGED <<file, contexts, buffer, resolved, dirs, system, squat, harm>>

-----------------------------------------------------------------------------
(* Through the Shell: System() returns when the command has ended.          *)

\* It starts the command, which takes the list; or it fails and the list stays.
Shell(c, lists) ==
  /\ At(c, "shell")
  /\ \/ /\ \E a \in FreeAddrs :
             call' = [call EXCEPT ![c] = [Born(@, a) EXCEPT !.pc = "system", !.open = IF In(c, {"stdoutInDir"}) THEN {"out"} ELSE {}]]
        /\ file' = IF In(c, {"stdoutInDir"}) THEN [file EXCEPT ![temp_path(c, "out")] = 0] ELSE file
     \/ /\ \E list \in lists : call' = [call EXCEPT ![c].pc = "system", ![c].locks = list]
        /\ UNCHANGED file
  /\ UNCHANGED <<contexts, buffer, resolved, dirs, system, squat, harm>>

ShellReturns(c) ==
  /\ At(c, "system") /\ ~Alive(c)
  /\ call' = IF In(c, {"run"}) THEN [call EXCEPT ![c] = Ended(@, "returned")] ELSE Goes(c, "read")
  /\ UNCHANGED <<file, contexts, buffer, resolved, dirs, system, squat, harm>>
=============================================================================
