-------------------------- MODULE MCRunningProcess --------------------------
(* Two descriptor numbers and two process numbers, so that a freed number   *)
(* is soon somebody else's.                                                 *)
EXTENDS RunningProcess
=============================================================================
