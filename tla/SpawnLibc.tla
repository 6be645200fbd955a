------------------------------ MODULE SpawnLibc ----------------------------
(* Am.Lang.Process of the POSIX ports: popen() runs the command in a shell, *)
(* fgets() reads its output until the last writer has closed it, pclose()   *)
(* waits for the shell.  A working directory becomes a cd in the shell.     *)
(* The pipe is the file of the stream "out".                                *)
EXTENDS Spawn

begin == \E c \in Calls : Begin(c, Entry \ {"start"})

system_ == \E c \in Calls : In(c, {"run"}) /\ (SwapDir(c, "begun", "shell") \/ Shell(c, NoList) \/ ShellReturns(c))

\* A working directory needs room for the longer command.
popen == \E c \in Calls :
  /\ At(c, "begun") /\ ~In(c, {"run"})
  /\ \/ /\ call' = [call EXCEPT ![c] = Throws(@)] /\ UNCHANGED file
     \/ /\ \E a \in FreeAddrs : call' = [call EXCEPT ![c] = [Born(@, a) EXCEPT !.pc = "pipe", !.open = {"out"}]]
        /\ file' = [file EXCEPT ![temp_path(c, "out")] = 0]
  /\ UNCHANGED <<contexts, buffer, resolved, dirs, system, squat, harm>>

\* The buffer, and then its growth, take memory; without it the call throws.
fgets == \E c \in Calls :
  LET f == temp_path(c, "out")
  IN /\ At(c, "pipe")
     /\ \/ file[f] > 0 /\ file' = [file EXCEPT ![f] = @ - 1] /\ call' = [call EXCEPT ![c].got["out"] = @ + 1]
        \/ (file[f] > 0 \/ call[c].got["out"] = 0) /\ call' = Goes(c, "nomem") /\ UNCHANGED file
        \/ file[f] = 0 /\ ~Alive(c) /\ call' = Goes(c, "pclose") /\ UNCHANGED file
     /\ UNCHANGED <<contexts, buffer, resolved, dirs, system, squat, harm>>

\* The pipe is closed, and the shell waited for.
pclose == \E c \in Calls :
  /\ At(c, "pclose") \/ At(c, "nomem")
  /\ ~Alive(c)
  /\ call' = [call EXCEPT ![c] = Ended([@ EXCEPT !.open = {}, !.gone = TRUE], IF At(c, "pclose") THEN "returned" ELSE "threw")]
  /\ file' = [file EXCEPT ![temp_path(c, "out")] = -1]
  /\ UNCHANGED <<contexts, buffer, resolved, dirs, system, squat, harm>>

\* Writers to a pipe that is no longer read are ended by a signal.
child == \E c \in Calls :
  \/ ChildWrites(c, "out")
  \/ /\ call[c].child = "runs" /\ call' = [call EXCEPT ![c].child = "gone"]
     /\ UNCHANGED <<file, contexts, buffer, resolved, dirs, system, squat, harm>>

Next == begin \/ system_ \/ popen \/ fgets \/ pclose \/ child
=============================================================================
