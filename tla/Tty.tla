-------------------------------- MODULE Tty ---------------------------------
(* The console handlers of the three Amiga-family ports, one port in each   *)
(* behaviour, and what must hold of them all.                               *)
EXTENDS Console

CONSTANT Ports    \* the ports that are checked
VARIABLE port     \* the one this behaviour runs

Amiga   == INSTANCE TtyAmiga
Morphos == INSTANCE TtyMorphos
Aros    == INSTANCE TtyAros

ttyVars == <<consoleVars, port>>

TtyInit == ConsoleInit /\ port \in Ports

TtyNext ==
  /\ \/ port = "amigaos" /\ Amiga!Next
     \/ port = "morphos" /\ Morphos!Next
     \/ port = "aros" /\ Aros!Next
  /\ UNCHANGED port

TtySpec == TtyInit /\ [][TtyNext]_ttyVars

-----------------------------------------------------------------------------
HandlerThere == hpc \notin {"off", "gone", "removed"}
Waiting(c)   == cpc[c] \in {"wait", "cwait"}
Count(b)     == IF b THEN 1 ELSE 0

\* The amigaos callback holds a reference; that of aros has none.
InExit == port = "amigaos" /\ cpc[Child] \in {"mark", "wake", "unpin"}

\* refcount is the number of those who may still use the rp_state: the handle,
\* the handler process (one that RemTask took away keeps its own for ever), each
\* pin of the shutdown and the exit callback.
RefsExact ==
  /\ ConsoleOK
  /\ st.mem # "none" =>
    st.refs = Count(prog.state) + Count(hpc \notin {"off", "free", "gone"})
              + Cardinality(prog.pins) + Count(InExit)

\* Who steps on the rp_state next.  The shutdown of morphos and aros and the
\* exit callback of aros go through it without a reference and are left out.
Users ==
  \/ HandlerThere \/ prog.state \/ prog.pins # {} \/ mpc = "free"
  \/ InExit
  \/ port = "amigaos" /\ (cpc[Child] = "free" \/ mpc \in {"die", "put"})

\* Nobody who holds a reference finds the rp_state freed, in whatever order the
\* handle, the handler, the callback and the shutdown let go of it, and whoever
\* is to free it is the only one.
NoUseAfterFree == Users => st.mem # "freed"

\* The packet of a client that waits is in exactly one place, the port or one of
\* the two parking slots, and a client that does not wait has none anywhere: no
\* packet is replied to twice, and none is forgotten.
PacketsConserved ==
  \A c \in Client :
    Cardinality({i \in DOMAIN queue : queue[i].from = c}) + Count(st.read = c) + Count(st.wait = c)
      = Count(Waiting(c))

\* A READ or WAIT_CHAR stays parked only while there is nothing to give it.  End
\* of input counts except on morphos, whose isAlive closes it and retires nothing.
\* The timer runs for a parked WAIT_CHAR, and a parked WAIT_CHAR has a timer that
\* ends it, or a handler that is about to, or was removed.  The exception: when two
\* clients wait, the packet of the second can take the finished timer (WaitIO before
\* the parking test) from the first, which then stays parked until input or the end.
ParkedAndServed ==
  /\ (st.read # None \/ st.wait # None) => st.in = 0 /\ (st.closed => port = "morphos")
  /\ st.timer = "running" => st.wait # None
  /\ st.wait # None =>
       \/ st.timer \in {"running", "done"}
       \/ hpc \in {"tick", "final", "removed"}
       \/ \A c \in Client : prog.asks[c] \cap {"WAIT", "POLL"} # {}

\* The wake of an exit is still to come.  On aros the close of the last handle
\* gives none: a child that closed them all itself is reported when it ends.
WakeToCome ==
  \/ cpc[Child] = "wake"
  \/ port = "aros" /\ cpc[Child] \in {"run", "wait", "exit"}

\* An event loop that sleeps with no signal pending has read all output and has
\* seen the child's exit, or will be woken for it.
NoLostWake == mpc = "asleep" /\ ~prog.sig => st.out = 0 /\ (st.exited => WakeToCome)

\* On amigaos the child is never left with a packet at a handler that went,
\* unless close() gave up on it or the shutdown removed the handler.
ChildNotStranded ==
  port = "amigaos" /\ ~st.force /\ hpc # "removed"
    => cpc[Child] # "lost" /\ (Waiting(Child) => HandlerThere)
=============================================================================
