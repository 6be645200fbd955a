------------------------------- MODULE MCTty --------------------------------
(* The consoles with a small program at the child's end.                    *)
EXTENDS Tty

Programs(own, others) == [c \in Client |-> IF c = Child THEN own ELSE others]

\* What the child asks, and what a process it starts asks, if it starts one.
MCAsks ==
  {Programs({"READ", "END"}, {}), Programs({"WRITE", "PROBE"}, {}), Programs({"WAIT", "POLL"}, {}),
   Programs({"LOCK", "QUERY"}, {}), Programs({"RAW", "COOKED"}, {}), Programs({"READ"}, {"READ"}),
   Programs({"OPEN"}, {}), Programs({"WAIT"}, {"WAIT"})}

\* What no property and no later step of the same program looks at is not told
\* apart: who got which lock, the pool when no client asks for locks, where a free
\* that is over went on, and signals once the event loop has ended.
InLoop == mpc \in {"new", "state", "handler", "handles", "pool", "load", "child", "idle", "polled", "asleep", "input"}
View ==
  <<port, queue, hpc, cpc, held, mpc, locks.slot,
    IF mpc \in {"die", "put", "free"} THEN back ELSE None,
    [st EXCEPT !.pool = IF "LOCK" \in prog.asks[Child] THEN @ ELSE {}],
    IF InLoop THEN prog ELSE [prog EXCEPT !.wake = FALSE, !.sig = FALSE]>>
=============================================================================
