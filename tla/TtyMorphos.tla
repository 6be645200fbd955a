----------------------------- MODULE TtyMorphos -----------------------------
(* The console handler of the MorphOS port.  Nothing reports the child's    *)
(* exit: the handler takes the close of the last handle for it, and isAlive *)
(* looks whether the child's task is still there.  Asked to stop, the       *)
(* handler answers what is queued and leaves at once.                       *)
EXTENDS Console

rp_fulfil_deferred(w) == FulfilRead(FulfilWait(w))

-----------------------------------------------------------------------------
ServeRead  == Serving("READ") /\ Served(Read(Now, Asker))
ServeWrite == Serving("WRITE") /\ Served(Write(Now, Asker))

\* Answered in-band: the size goes into the input the child reads.
ServeProbe ==
  /\ Serving("PROBE")
  /\ Served(Reply(rp_fulfil_deferred(Typed), Asker))

ServeWait ==
  \/ Serving("WAIT") /\ Served(WaitChar(Now, Asker, TRUE))
  \/ Serving("POLL") /\ Served(WaitChar(Now, Asker, FALSE))

\* The close of the last handle is the child's exit.
LastClosed(w) == w.st.opens = 0 /\ w.st.any
ServeEnd ==
  /\ Serving("END")
  /\ LET w == [Now EXCEPT !.st.opens = rp_pop(@)]
         e == rp_fulfil_deferred([w EXCEPT !.st.exited = TRUE, !.st.closed = TRUE, !.wake = TRUE])
     IN Served(Reply(IF LastClosed(w) THEN e ELSE w, Asker))

ServeMode  == \E m \in {"RAW", "COOKED"} : Serving(m) /\ Served([Reply(Now, Asker) EXCEPT !.st.raw = (m = "RAW")])
ServeQuery == Serving("QUERY") /\ Served(Reply(Now, Asker))

\* With shutdown_requested set any packet is the last, an ACTION_DIE or not.
\* The reply to the program's own packet puts it on the port again.
DrainAndGo == Stopping /\ Drain([Now EXCEPT !.replies = Senders], OwnPackets, "teardown")

HandlerLeaves == EndTimer \/ HandlerFinal

rp_handler_entry ==
  \/ Entry({"none", "idle"}) \/ WakeByTimer \/ Tick \/ WakeByPacket \/ SleepAgain
  \/ ServeRead \/ ServeWrite \/ ServeProbe \/ ServeWait \/ OpenHandle \/ ServeEnd
  \/ ServeMode \/ GrantLock \/ ServeQuery \/ DrainAndGo \/ HandlerLeaves

rp_state_release == HandlerRelease \/ HandlerFree \/ ReleaseHandle \/ MainFree

\* The child ends: DOS closes its handles, or the exit path of ixemul does not.
ChildEnds == (\E to \in {"closing", "gone"} : Go(Child, "exit", to)) /\ UNCHANGED <<st, prog>>

-----------------------------------------------------------------------------
Start == Main("new", "state") /\ UNCHANGED <<st, queue, cpc, back, prog, locks>>

startConsole == Start \/ StartState \/ StartHandler \/ StartHandles("pool")
startProgram == StartPool \/ StartLoad
startChild   == StartChild(TRUE) \/ StartFails

tryReadOutput == ReadOutput

\* A child that went without closing its handles is marked exited here.
isAlive ==
  /\ LET vanished == ~st.exited /\ st.task /\ ~TaskExists(Child)
     IN st' = IF vanished THEN [st EXCEPT !.exited = TRUE, !.closed = TRUE, !.task = FALSE] ELSE st
  /\ Main("polled", IF Alive(st') THEN Polled ELSE "idle")
  /\ UNCHANGED <<queue, cpc, back, prog, locks>>

writeInput == CheckInput \/ PushInput(rp_fulfil_deferred(Typed))

interrupt == Terminate
globalWake == setGlobalWake \/ EventArrives

close == prog.state /\ (HandlerDie("idle", "closing") \/ HandlerDie("failed", "closing")) /\ UNCHANGED <<st, prog>>

\* The handle's release gives the locks of the pool back first.
release ==
  \/ /\ prog.state /\ (Main("idle", "unlock") \/ Main("failed", "unlock"))
     /\ UNCHANGED <<st, queue, cpc, back, prog, locks>>
  \/ UnlockLook("drop") \/ UnlockSlot
  \/ HandlerDie("drop", "dropping") /\ UNCHANGED <<st, prog>>

rp_handler_die == DieCheck \/ DiePut

shutdownAllNative == SweepOnce \/ NoneToStop

Next ==
  \/ Clients \/ ChildEnds
  \/ rp_handler_entry \/ rp_state_release \/ rp_handler_die
  \/ startConsole \/ startProgram \/ startChild \/ tryReadOutput \/ isAlive \/ writeInput
  \/ interrupt \/ globalWake \/ close \/ release \/ shutdownAllNative

Spec == ConsoleInit /\ [][Next]_consoleVars
=============================================================================
