------------------------------ MODULE TtyAros -------------------------------
(* The console handler of the AROS port.  The child's exit is reported by   *)
(* NP_ExitCode with the bare rp_state, and by the close of the last handle; *)
(* there is no timer, no lock pool and no record of the child's task.       *)
EXTENDS Console

rp_fulfil_deferred(w) == FulfilRead(w)

-----------------------------------------------------------------------------
ServeRead  == Serving("READ") /\ Served(Read(Now, Asker))
ServeWrite == Serving("WRITE") /\ Served(Write(Now, Asker))

\* Answered in-band: the size goes into the input the child reads.
ServeProbe ==
  /\ Serving("PROBE")
  /\ Served(Reply(rp_fulfil_deferred(Typed), Asker))

ServeWait == (Serving("WAIT") \/ Serving("POLL")) /\ Served(Reply(Now, Asker))

LastClosed(w) == w.st.opens = 0 /\ w.st.any
ServeEnd ==
  /\ Serving("END")
  /\ LET w == [Now EXCEPT !.st.opens = rp_pop(@)]
         e == rp_fulfil_deferred([w EXCEPT !.st.exited = TRUE, !.st.closed = TRUE])
     IN Served(Reply(IF LastClosed(w) THEN e ELSE w, Asker))

ServeMode  == \E m \in {"RAW", "COOKED"} : Serving(m) /\ Served([Reply(Now, Asker) EXCEPT !.st.raw = (m = "RAW")])
ServeQuery == (Serving("QUERY") \/ Serving("LOCK")) /\ Served(Reply(Now, Asker))

\* With shutdown_requested set any packet is the last, an ACTION_DIE or not.
\* The reply to the program's own packet puts it on the port again.
DrainAndGo == Stopping /\ Drain([Now EXCEPT !.replies = Senders], OwnPackets, "final")

HandlerLeaves == HandlerFinal

rp_handler_entry ==
  \/ Entry({"none"}) \/ WakeByPacket \/ SleepAgain
  \/ ServeRead \/ ServeWrite \/ ServeProbe \/ ServeWait \/ OpenHandle \/ ServeEnd
  \/ ServeMode \/ ServeQuery \/ DrainAndGo \/ HandlerLeaves

rp_state_release == HandlerRelease \/ HandlerFree \/ ReleaseHandle \/ MainFree

\* On the child's task, without Forbid() and without a reference: the exit is
\* recorded, the writer's end of the output (nobody asks for it) is closed, and
\* the main task is signalled.
ExitMark ==
  /\ Go(Child, "exit", "wake")
  /\ st' = [st EXCEPT !.exited = TRUE]
  /\ UNCHANGED prog

ExitWake == Go(Child, "wake", "closing") /\ prog' = Signalled(prog) /\ UNCHANGED st

rp_child_exit == ExitMark \/ ExitWake

-----------------------------------------------------------------------------
Start == Main("new", "state") /\ UNCHANGED <<st, queue, cpc, back, prog, locks>>

startConsole == Start \/ StartState \/ StartHandler \/ StartHandles("load")
startProgram == StartLoad
startChild   == StartChild(FALSE) \/ StartFails

tryReadOutput == ReadOutput

isAlive == Main("polled", IF Alive(st) THEN Polled ELSE "idle") /\ UNCHANGED <<st, queue, cpc, back, prog, locks>>

writeInput == CheckInput \/ PushInput(rp_fulfil_deferred(Typed))

globalWake == setGlobalWake \/ EventArrives

HandleEnds(to) == prog.state /\ (HandlerDie("idle", to) \/ HandlerDie("failed", to)) /\ UNCHANGED <<st, prog>>
close   == HandleEnds("closing")
release == HandleEnds("dropping")

rp_handler_die == DieCheck \/ DiePut

shutdownAllNative == SweepOnce \/ NoneToStop

Next ==
  \/ Clients \/ rp_child_exit
  \/ rp_handler_entry \/ rp_state_release \/ rp_handler_die
  \/ startConsole \/ startProgram \/ startChild \/ tryReadOutput \/ isAlive \/ writeInput
  \/ globalWake \/ close \/ release \/ shutdownAllNative

Spec == ConsoleInit /\ [][Next]_consoleVars
=============================================================================
