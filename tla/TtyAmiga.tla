------------------------------ MODULE TtyAmiga ------------------------------
(* The console handler of the AmigaOS port: the child's exit is reported by *)
(* NP_ExitCode on the child's own task, before DOS closes its handles, and  *)
(* close() waits for the child before it stops the handler.                 *)
EXTENDS Console

rp_fulfil_deferred(w) == FulfilRead(FulfilWait(w))

\* A packet is replied to when its sender is still there.
rp_can_reply(c) == ~st.exited \/ TaskExists(c)
Replied(w, S) == [w EXCEPT !.replies = @ \cup {c \in S \cap Client : rp_can_reply(c)}]

-----------------------------------------------------------------------------
ServeRead  == Serving("READ") /\ Served(IF st.exited THEN Reply(Now, Asker) ELSE Read(Now, Asker))
ServeWrite == Serving("WRITE") /\ Served(IF st.exited THEN Reply(Now, Asker) ELSE Write(Now, Asker))

\* Answered in-band: the size goes into the input the child reads.
ServeProbe ==
  /\ Serving("PROBE")
  /\ Served(Reply(rp_fulfil_deferred(Typed), Asker))

ServeWait ==
  \/ Serving("WAIT") /\ Served(WaitChar(Now, Asker, TRUE))
  \/ Serving("POLL") /\ Served(WaitChar(Now, Asker, FALSE))

\* The branch that leaves when the last handle is closed after the exit is never
\* reached: the exit callback asks for the shutdown in the same section.
ServeEnd   == Serving("END") /\ Served([Reply(Now, Asker) EXCEPT !.st.opens = rp_pop(@)])
ServeMode  == \E m \in {"RAW", "COOKED"} : Serving(m) /\ Served([Reply(Now, Asker) EXCEPT !.st.raw = (m = "RAW")])
ServeQuery == Serving("QUERY") /\ Served(Reply(Now, Asker))

\* Mutant of KeepServing: the exit callback is taken for the end of the child.
KeepServingUntilExit == ~st.force /\ ~st.exited

\* Asked to stop: while the child's task is there, answer and stay, unless it
\* was given up on; otherwise answer all that is queued and go.
KeepServing == ~st.force /\ TaskExists(Child)
ServeStopping == Stopping /\ KeepServing /\ Served(Replied(Now, {Asker}))
DrainAndGo ==
  /\ Stopping /\ ~KeepServing
  /\ Drain(Replied(Now, Senders), <<>>, "teardown")

rp_handler_entry ==
  \/ Entry({"none", "idle"}) \/ WakeByTimer \/ Tick \/ WakeByPacket \/ SleepAgain
  \/ ServeRead \/ ServeWrite \/ ServeProbe \/ ServeWait \/ OpenHandle \/ ServeEnd
  \/ ServeMode \/ GrantLock \/ ServeQuery
  \/ ServeStopping \/ DrainAndGo \/ EndTimer \/ HandlerFinal

rp_state_release == HandlerRelease \/ HandlerFree \/ ReleaseHandle \/ MainFree

-----------------------------------------------------------------------------
(* rp_child_exit, on the child's task.                                      *)

\* Mutant of ExitFind: the state is used without a reference.
ExitFindUnpinned ==
  /\ Go(Child, "exit", IF st.listed /\ st.task /\ st.refs > 0 THEN "mark" ELSE "closing")
  /\ UNCHANGED <<st, prog>>

\* The state is found by its child_task, if it is still listed, and pinned.
ExitFind ==
  /\ LET found == st.listed /\ st.task /\ st.refs > 0
     IN /\ Go(Child, "exit", IF found THEN "mark" ELSE "closing")
        /\ st' = IF found THEN Pinned(st) ELSE st
  /\ UNCHANGED prog

ExitMark ==
  /\ cpc[Child] = "mark"
  /\ LET w == rp_fulfil_deferred([Now EXCEPT !.st.exited = TRUE, !.st.task = FALSE,
                                             !.st.shutdown = TRUE, !.st.closed = TRUE])
     IN /\ st' = w.st
        /\ cpc' = [c \in Client |-> IF c = Child THEN "wake"
                                    ELSE IF c \in w.replies THEN Resumed(cpc[c]) ELSE cpc[c]]
  /\ UNCHANGED <<queue, hpc, held, mpc, back, prog, locks>>

ExitWake == Go(Child, "wake", "unpin") /\ prog' = Signalled(prog) /\ UNCHANGED st

ExitRelease ==
  /\ Go(Child, "unpin", IF st.refs = 1 THEN "free" ELSE "closing")
  /\ st' = Released(st) /\ UNCHANGED prog

ExitFree == Go(Child, "free", "closing") /\ st' = Freed(st) /\ UNCHANGED prog

rp_child_exit == ExitFind \/ ExitMark \/ ExitWake \/ ExitRelease \/ ExitFree

-----------------------------------------------------------------------------
\* The command is looked for before anything is built.
Preflight ==
  /\ Main("new", "state") \/ Main("new", "failed")
  /\ UNCHANGED <<st, queue, cpc, back, prog, locks>>

isAlive ==
  /\ Main("polled", IF Alive(st) THEN Polled ELSE "idle")
  /\ UNCHANGED <<st, queue, cpc, back, prog, locks>>

close ==
  /\ prog.state /\ (Main("idle", "unlock") \/ Main("failed", "unlock"))
  /\ UNCHANGED <<st, queue, cpc, back, prog, locks>>

\* A running child is asked to stop the way Ctrl-C does: its task is read under
\* Forbid() and signalled after Permit(), when it may be on its way out, or gone.
CloseInterrupts ==
  /\ \/ Main("interrupt", IF ~st.exited /\ st.task THEN "signal" ELSE "grace") /\ UNCHANGED cpc
     \/ Main("signal", "grace") /\ Interrupt
  /\ UNCHANGED <<st, queue, back, prog, locks>>

\* A child that is still there after the grace period is given up on.
CloseGrace ==
  /\ Main("grace", "stop")
  /\ st' = [st EXCEPT !.force = TaskExists(Child)]
  /\ UNCHANGED <<queue, cpc, back, prog, locks>>

CloseStops == HandlerDie("stop", "closing") /\ UNCHANGED <<st, prog>>

release ==
  /\ prog.state /\ (HandlerDie("idle", "dropping") \/ HandlerDie("failed", "dropping"))
  /\ UNCHANGED <<st, prog>>

-----------------------------------------------------------------------------
(* shutdownAllNative.                                                       *)

\* Every listed state is told to stop; those with a handler are pinned.
SweepInto(from, pin, to) ==
  /\ st' = [st EXCEPT !.shutdown = st.listed \/ @, !.refs = IF st.listed /\ st.port THEN @ + 1 ELSE @]
  /\ prog' = [prog EXCEPT !.pins = IF st.listed /\ st.port THEN @ \cup {pin} ELSE @,
                          !.rounds = IF pin = "round" THEN @ + 1 ELSE @]
  /\ IF st.listed /\ st.port THEN HandlerDie(from, to)
     ELSE mpc = from /\ mpc' = to /\ UNCHANGED <<queue, hpc, cpc, held, back, locks>>

Sweep == prog.live > 0 /\ \E pc \in AtRest : SweepInto(pc, "all", "swept")

MoreRounds == prog.live > 0 /\ prog.rounds < Rounds
SweepAgain == mpc = "swept" /\ MoreRounds /\ SweepInto("swept", "round", "round")

Unpin(from, pin, to) ==
  IF pin \in prog.pins
  THEN ReleaseState(from, to) /\ prog' = [prog EXCEPT !.pins = @ \ {pin}]
  ELSE Main(from, to) /\ UNCHANGED <<st, queue, cpc, back, prog, locks>>

SweepUnpins ==
  \/ Unpin("round", "round", "swept")
  \/ mpc = "swept" /\ ~MoreRounds /\ Unpin("swept", "all", "reap")

\* Last resort: a handler that still has its port is removed.
SweepReaps ==
  /\ mpc = "reap" /\ mpc' = "exit"
  /\ IF prog.live > 0 /\ st.listed /\ st.port
     THEN /\ hpc' = "removed" /\ st' = [st EXCEPT !.port = FALSE]
          /\ prog' = [prog EXCEPT !.live = @ - 1]
     ELSE UNCHANGED <<st, hpc, prog>>
  /\ UNCHANGED <<queue, cpc, held, back, locks>>

shutdownAllNative == Sweep \/ SweepAgain \/ SweepUnpins \/ SweepReaps

-----------------------------------------------------------------------------
startNative ==
  \/ Preflight \/ StartState \/ StartHandler \/ StartHandles("pool")
  \/ StartPool \/ StartLoad \/ StartChild(TRUE) \/ StartFails

eventLoop == ReadOutput \/ isAlive \/ EventArrives \/ setGlobalWake

writeInput == CheckInput \/ PushInput(rp_fulfil_deferred(Typed))

closing ==
  \/ close \/ UnlockLook("interrupt") \/ UnlockSlot
  \/ CloseInterrupts \/ CloseGrace \/ CloseStops

rp_handler_die == DieCheck \/ DiePut

Next ==
  \/ Clients \/ rp_child_exit
  \/ rp_handler_entry \/ rp_state_release \/ rp_handler_die
  \/ startNative \/ eventLoop \/ writeInput \/ Terminate \/ closing \/ release
  \/ shutdownAllNative \/ NoneToStop

Spec == ConsoleInit /\ [][Next]_consoleVars
=============================================================================
