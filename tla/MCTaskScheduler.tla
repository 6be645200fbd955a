-------------------------- MODULE MCTaskScheduler --------------------------
(* Two categories and three worker threads: a task can make a runner of its *)
(* own; four messages, tasks or not, in any order, from any thread.         *)
EXTENDS TaskScheduler
=============================================================================
