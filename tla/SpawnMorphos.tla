---------------------------- MODULE SpawnMorphos ---------------------------
(* Am.Lang.Process of the MorphOS port.  Nothing reports the exit of a      *)
(* child: the caller polls for a task of the name that all captured children *)
(* are given, a bounded number of times, and goes on in either case: when it *)
(* finds none, though its child runs under another name, or finds one still. *)
EXTENDS Spawn

\* A captured child that kept the name, whosever it is.
FindTask == \E d \in Calls : In(d, Capturing) /\ Alive(d) /\ call[d].named

begin == \E c \in Calls : Begin(c, Entry) /\ OneStdout(c)

prepare == \E c \in Calls :
  \/ In(c, Capturing) /\ SwapDir(c, "begun", "open")
  \/ OpenFiles(c)

split == \E c \in Calls : In(c, Capturing) /\ Parse(c)

am_proc_loadseg_with_path == \E c \in Calls :
  /\ In(c, Capturing)
  /\ \/ TryName(c, build_spawn_path(dirs, system)) \/ TryChain(c)
     \/ FreeChain(c, effective_path(system)) \/ TryPath(c) \/ NotFound(c)

am_proc_lock_binary_dir == \E c \in Calls : In(c, Capturing) /\ LockDrawer(c, "spawn")

spawn == \E c \in Calls :
  /\ In(c, Capturing)
  /\ \/ SpawnFails(c, Minted)
     \/ /\ At(c, "spawn") /\ \E a \in FreeAddrs : call' = [call EXCEPT ![c] = Born(@, a)]
        /\ UNCHANGED <<file, contexts, buffer, resolved, dirs, system, squat, harm>>

\* 600 looks, whatever they saw.
poll == \E c \in Calls :
  /\ In(c, Capturing) /\ (~FindTask \/ "morphos" \in Wedges)
  /\ WaitEnds(c, ~Alive(c), "close")

collect == \E c \in Calls : In(c, Capturing) /\ (CloseErr(c) \/ ReadBack(c, Stream))
finish  == \E c \in Calls : In(c, Capturing) /\ Finish(c)

child == \E c \in Calls :
  \/ ChildGone(c, "runs") \/ \E s \in Stream : ChildWrites(c, s)
  \/ In(c, Capturing) /\ Renames(c)

-----------------------------------------------------------------------------
rp_split_cmd == \E c \in Calls : In(c, {"start"}) /\ (SwapDir(c, "begun", "parse") \/ Parse(c))

rp_loadseg_with_path == \E c \in Calls :
  /\ In(c, {"start"})
  /\ \/ TryName(c, build_spawn_path(dirs, system)) \/ TryChain(c)
     \/ FreeChain(c, effective_path(system)) \/ TryPath(c) \/ NotFound(c)

rp_lock_binary_dir == \E c \in Calls : In(c, {"start"}) /\ LockDrawer(c, "spawn")

\* The drawer's lock and the directory's are given back when CreateNewProc fails.
startNative == \E c \in Calls :
  /\ In(c, {"start"})
  /\ \/ SpawnFails(c, Minted)
     \/ /\ At(c, "spawn") /\ \E a \in FreeAddrs : call' = [call EXCEPT ![c] = Ended(Born(@, a), "returned")]
        /\ UNCHANGED <<file, contexts, buffer, resolved, dirs, system, squat, harm>>

-----------------------------------------------------------------------------
run == \E c \in Calls : In(c, {"run"}) /\ (SwapDir(c, "begun", "shell") \/ Shell(c, Minted) \/ ShellReturns(c))

captureStdoutInDir == \E c \in Calls :
  /\ In(c, {"stdoutInDir"})
  /\ SwapDir(c, "begun", "shell") \/ Shell(c, NoList) \/ ShellReturns(c) \/ ReadBack(c, {"out"}) \/ Finish(c)

Next ==
  \/ begin \/ prepare \/ split \/ am_proc_loadseg_with_path \/ am_proc_lock_binary_dir
  \/ spawn \/ poll \/ collect \/ finish \/ child
  \/ rp_split_cmd \/ rp_loadseg_with_path \/ rp_lock_binary_dir \/ startNative
  \/ run \/ captureStdoutInDir \/ setSpawnSearchPath
=============================================================================
