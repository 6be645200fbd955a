----------------------------- MODULE SpawnAmiga ----------------------------
(* Am.Lang.Process of the AmigaOS port.  The child reports its exit through *)
(* a context found by its task address; the wait is for the task itself, and *)
(* a wait that gives up leaves everything the child may still use.           *)
EXTENDS Spawn

\* Mutant of am_cap_register: contexts are listed in the order of their spawns.
am_cap_registerLast(c) == Append(contexts, c)

am_cap_register(c) == <<c>> \o contexts

\* The context listed for the task that asks, the newest if there are several.
am_cap_find_current(c) ==
  LET mine == SelectSeq(contexts, LAMBDA d : call[d].addr = call[c].addr)
  IN IF mine = <<>> THEN 0 ELSE Head(mine)

am_cap_task_exists(c) == Alive(c) \/ call[c].addr \in squat \/ \E d \in Calls : call[d].addr = call[c].addr /\ Alive(d)

-----------------------------------------------------------------------------
(* runAndCaptureOutput, runAndCaptureOutputInDir.                           *)

begin == \E c \in Calls : Begin(c, Entry) /\ OneStdout(c)

\* The child is still to be found and its files to be opened.
prepare == \E c \in Calls :
  \/ In(c, Capturing) /\ SwapDir(c, "begun", "open")
  \/ OpenFiles(c)

split == \E c \in Calls : In(c, Capturing) /\ Parse(c)

am_proc_loadseg_with_path == \E c \in Calls :
  /\ In(c, Capturing)
  /\ \/ TryName(c, build_spawn_path(dirs, system)) \/ TryChain(c)
     \/ FreeChain(c, effective_path(system)) \/ TryPath(c) \/ NotFound(c)

am_proc_lock_binary_dir == \E c \in Calls : In(c, Capturing) /\ LockDrawer(c, "ctx")

am_cap_create == \E c \in Calls :
  /\ At(c, "ctx")
  /\ \/ call' = [call EXCEPT ![c].pc = "spawn", ![c].ctx = "own"] /\ UNCHANGED file
     \/ call' = [call EXCEPT ![c] = Undone(@)] /\ file' = Deleted(c)
  /\ UNCHANGED <<contexts, buffer, resolved, dirs, system, squat, harm>>

\* The child is created and its context listed in one Forbid() section.
spawn == \E c \in Calls :
  /\ In(c, Capturing)
  /\ \/ SpawnFails(c, NoList)
     \/ /\ At(c, "spawn")
        /\ \E a \in FreeAddrs : call' = [call EXCEPT ![c] = Born([@ EXCEPT !.ctx = "listed"], a)]
        /\ contexts' = am_cap_register(c)
        /\ UNCHANGED <<file, buffer, resolved, dirs, system, squat, harm>>

\* Mutant of am_cap_wait_for_child: the exit hook is taken for the end.
am_cap_wait_for_childHook ==
  \E c \in Calls : (call[c].ctx = "listed" /\ call[c].child # "runs" /\ WaitEnds(c, TRUE, "close"))
                   \/ (am_cap_task_exists(c) /\ "amigaos" \in Wedges /\ WaitEnds(c, FALSE, "finish"))

am_cap_wait_for_child == \E c \in Calls :
  /\ In(c, Capturing)
  /\ \/ ~am_cap_task_exists(c) /\ WaitEnds(c, TRUE, "close")
     \/ am_cap_task_exists(c) /\ "amigaos" \in Wedges /\ WaitEnds(c, FALSE, "finish")

collect == \E c \in Calls : In(c, Capturing) /\ (CloseErr(c) \/ ReadBack(c, Stream))

am_cap_release(k) == [k EXCEPT !.ctx = IF k.gone THEN "freed" ELSE @]

finish == \E c \in Calls :
  /\ At(c, "finish") /\ In(c, Capturing)
  /\ \E how \in {"threw", "returned"} : call' = [call EXCEPT ![c] = Ended(am_cap_release(@), how)]
  /\ contexts' = IF am_cap_release(call[c]).ctx = "freed" THEN SelectSeq(contexts, LAMBDA d : d # c) ELSE contexts
  /\ UNCHANGED <<file, buffer, resolved, dirs, system, squat, harm>>

-----------------------------------------------------------------------------
(* The child: its exit hook looks the context up and then writes to it.     *)

am_cap_child_exit == \E c \in Calls :
  /\ In(c, Capturing) /\ UNCHANGED <<file, contexts, buffer, resolved, dirs, system, squat>>
  /\ \/ /\ call[c].child = "runs" /\ UNCHANGED harm
        /\ call' = [call EXCEPT ![c].child = "exits", ![c].found = am_cap_find_current(c)]
     \/ /\ call[c].child = "exits" /\ call' = [call EXCEPT ![c].child = "closes"]
        /\ harm' = IF call[c].found # 0 /\ call[call[c].found].ctx # "listed" THEN harm \cup {<<"wrote to a freed context", c>>}
                   ELSE IF call[c].found # c THEN harm \cup {<<"wrote to another context", c>>} ELSE harm

child == \E c \in Calls :
  \/ \E s \in Stream : ChildWrites(c, s)
  \/ ChildGone(c, IF In(c, Capturing) THEN "closes" ELSE "runs")

-----------------------------------------------------------------------------
(* RunningProcess.startNative as far as it looks for the program.           *)

\* The whole search, its outcome unused, with a name of its own that no other
\* call can touch, but through the static buffer for the place.
preflight == \E c \in Calls :
  /\ In(c, {"start"})
  /\ \/ At(c, "begun") /\ Mixes(c, "checks") /\ UNCHANGED resolved
     \/ /\ At(c, "checks")
        /\ \E chain \in {<<>>, build_spawn_path(dirs, system)} :
             LET places == <<Here>> \o IF call[c].bare THEN chain \o effective_path(system) \o <<C>> ELSE <<>>
                 hits   == SelectSeq(places, LAMBDA p : p \in system.holds[call[c].bare])
             IN /\ Tried(c, IF hits = <<>> THEN Last(places) ELSE Head(hits))
                /\ call' = IF hits = <<>> THEN [call EXCEPT ![c] = Throws(@)] ELSE Goes(c, "checked")
  /\ UNCHANGED <<file, contexts, buffer, dirs, system, squat, harm>>

rp_split_cmd == \E c \in Calls : In(c, {"start"}) /\ (SwapDir(c, "checked", "parse") \/ Parse(c))

rp_loadseg_with_path == \E c \in Calls :
  /\ In(c, {"start"})
  /\ \/ TryName(c, build_spawn_path(dirs, system)) \/ TryChain(c)
     \/ FreeChain(c, effective_path(system)) \/ TryPath(c) \/ NotFound(c)

rp_lock_binary_dir == \E c \in Calls : In(c, {"start"}) /\ LockDrawer(c, "spawn")

\* Nothing that was locked for the child is given back when CreateNewProc fails.
startNative == \E c \in Calls :
  /\ In(c, {"start"}) /\ At(c, "spawn")
  /\ \/ \E list \in Minted : call' = [call EXCEPT ![c] = Throws([@ EXCEPT !.locks = @ \cup list])]
     \/ \E a \in FreeAddrs : call' = [call EXCEPT ![c] = Ended(Born(@, a), "returned")]
  /\ UNCHANGED <<file, contexts, buffer, resolved, dirs, system, squat, harm>>

-----------------------------------------------------------------------------
run == \E c \in Calls : In(c, {"run"}) /\ (SwapDir(c, "begun", "shell") \/ Shell(c, Minted) \/ ShellReturns(c))

captureStdoutInDir == \E c \in Calls :
  /\ In(c, {"stdoutInDir"})
  /\ SwapDir(c, "begun", "shell") \/ Shell(c, Minted) \/ ShellReturns(c) \/ ReadBack(c, {"out"}) \/ Finish(c)

others == setSpawnSearchPath \/ \E a \in Addrs : Squat(a) \/ Unsquat(a)

Next ==
  \/ begin \/ prepare \/ split \/ am_proc_loadseg_with_path \/ am_proc_lock_binary_dir
  \/ am_cap_create \/ spawn \/ am_cap_wait_for_child \/ collect \/ finish
  \/ am_cap_child_exit \/ child \/ preflight \/ rp_split_cmd \/ rp_loadseg_with_path \/ rp_lock_binary_dir
  \/ startNative \/ run \/ captureStdoutInDir \/ others
=============================================================================
