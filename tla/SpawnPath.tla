----------------------------- MODULE SpawnPath -----------------------------
(***************************************************************************)
(* How the Amiga-family ports find the program of a command: the drawers    *)
(* set with setSpawnSearchPath, the path list of the process's own CLI or   *)
(* of one it borrows, and C:.  Drawers are values; a path list is a         *)
(* sequence of them, <<>> when there is no CLI or its list is empty.        *)
(***************************************************************************)
EXTENDS Integers, Sequences, SequencesExt

Here == "here"      \* the name as it was given
C    == "C:"

Nobody == [desktop |-> FALSE, path |-> <<>>]

\* A desktop process with a path wins outright, else the longest path.
consider_path_owner(best, p) ==
  IF p.path = <<>> \/ best.desktop THEN best
  ELSE IF p.desktop \/ Len(p.path) > Len(best.path) THEN p ELSE best

\* The path list of the CLI that is asked.  A program started from an icon has
\* none of its own and borrows the desktop's, or the longest there is.
effective_path(system) ==
  IF system.own # <<>> THEN system.own
  ELSE IF system.workbench # <<>> THEN system.workbench
  ELSE IF system.ambient # <<>> THEN system.ambient
  ELSE FoldLeft(consider_path_owner, Nobody, system.processes).path

\* Mutant of build_spawn_path: the drawers come after the user's own path.
build_spawn_pathLast(dirs, system) ==
  effective_path(system) \o SelectSeq(dirs, LAMBDA d : d \in system.drawers)

\* The chain minted for one search or one spawn; <<>> is "no chain".  A drawer
\* that has gone away is skipped.
build_spawn_path(dirs, system) ==
  IF dirs = <<>> /\ system.own # <<>> THEN <<>>
  ELSE SelectSeq(dirs, LAMBDA d : d \in system.drawers) \o effective_path(system)
=============================================================================
