------------------------------ MODULE SpawnAros ----------------------------
(* The AROS port has no blocking calls; its RunningProcess looks for the    *)
(* program along the path list of the process's own CLI only, and gives the *)
(* child no drawer of its own.                                              *)
EXTENDS Spawn

begin == \E c \in Calls : Begin(c, {"start"})

rp_split_cmd == \E c \in Calls : SwapDir(c, "begun", "parse") \/ Parse(c)

rp_loadseg_with_path == \E c \in Calls :
  TryName(c, <<>>) \/ FreeChain(c, system.own) \/ TryPath(c) \/ NotFound(c)

startNative == \E c \in Calls :
  /\ At(c, "home")
  /\ \/ call' = [call EXCEPT ![c] = Throws(@)]
     \/ \E a \in FreeAddrs : call' = [call EXCEPT ![c] = Ended(Born(@, a), "returned")]
  /\ UNCHANGED <<file, contexts, buffer, resolved, dirs, system, squat, harm>>

child == \E c \in Calls : ChildGone(c, "runs")

Next == begin \/ rp_split_cmd \/ rp_loadseg_with_path \/ startNative \/ child
=============================================================================
