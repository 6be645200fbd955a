--------------------------- MODULE TaskScheduler ---------------------------
(***************************************************************************)
(* TaskScheduler.aml and TaskRunner.aml: tasks are messages, a runner is a *)
(* thread with a mailbox, and the runners a thread made are its own, in    *)
(* its copy of the statics.  Main tasks queue in the mailbox of the main   *)
(* thread, with whatever other messages it gets, until the application     *)
(* drains it.  When main() returns the runners it made are stopped and     *)
(* joined, and the process ends.                                           *)
(***************************************************************************)
EXTENDS Integers, Sequences, FiniteSets, SequencesExt

CONSTANTS
  Main,         \* the main thread
  Worker,       \* the threads runners may be given (a bound)
  Category,     \* thread types other than TaskThreadType.Main
  MaxMessages,  \* bound: tasks and other messages made in one run
  Null

ASSUME SchedulerAssumption ==
  /\ Main \notin Worker \cup Category
  /\ Null \notin Worker \cup {Main} /\ Null \notin Nat
  /\ MaxMessages \in Nat

Thread == Worker \cup {Main}

TaskMsg(n) == <<"task", n>>
RawMsg(n)  == <<"raw", n>>
TaskStop   == <<"stop", 0>>
IsTask(m)  == m[1] = "task"
IsRaw(m)   == m[1] = "raw"

VARIABLES
  mailbox,
  mainThread,           \* TaskScheduler.mainThread of every thread
  runners, allRunners,  \* the statics of every thread
  home,                 \* the handle a runner carries to its thread
  pc, task,             \* what every thread is doing, the task it executes
  others, i,            \* handleMainTasks: messages to put back; loop counters
  made,                 \* messages made so far
  sent, ran,            \* per thread: tasks in the order of their submission, of their start
  raws                  \* the other messages sent

threadVars == <<mainThread, runners, allRunners, home>>
vars == <<mailbox, threadVars, pc, task, others, i, made, sent, ran, raws>>

Init ==
  /\ mailbox = [t \in Thread |-> <<>>]
  /\ mainThread = [t \in Thread |-> Null]
  /\ runners = [t \in Thread |-> [c \in Category |-> Null]]
  /\ allRunners = [t \in Thread |-> <<>>]
  /\ home = [w \in Worker |-> Null]
  /\ pc = [t \in Thread |-> IF t = Main THEN "run" ELSE "none"]
  /\ task = [t \in Thread |-> Null]
  /\ others = <<>> /\ i = 1
  /\ made = 0
  /\ sent = [t \in Thread |-> <<>>] /\ ran = [t \in Thread |-> <<>>]
  /\ raws = {}

At(t, l) == pc[Main] # "done" /\ pc[t] = l
Go(t, l) == pc' = [pc EXCEPT ![t] = l]

\* Code of the application runs: main() itself, or a task.
Executes(t) == At(t, "run") \/ At(t, "task")

\* send() on a mailbox that is open.
Deliver(t, m) == mailbox' = [mailbox EXCEPT ![t] = Append(@, m)]

-----------------------------------------------------------------------------
(* schedule().                                                             *)

SubmitTask(t) ==
  /\ made' = made + 1
  /\ Deliver(t, TaskMsg(made + 1))
  /\ sent' = [sent EXCEPT ![t] = Append(@, made + 1)]

\* mainThread ?? Thread.getCurrent()
MainFor(t) == IF mainThread[t] = Null THEN t ELSE mainThread[t]

ScheduleMain(t) ==
  /\ Executes(t) /\ made < MaxMessages
  /\ SubmitTask(MainFor(t))
  /\ UNCHANGED <<threadVars, pc, task, others, i, ran, raws>>

ScheduleRunner(t, c) ==
  /\ Executes(t) /\ made < MaxMessages
  /\ runners[t][c] # Null
  /\ SubmitTask(runners[t][c])
  /\ UNCHANGED <<threadVars, pc, task, others, i, ran, raws>>

Unused == {w \in Worker : pc[w] = "none"}

StartRunner(t, c, w) ==
  /\ runners' = [runners EXCEPT ![t][c] = w]
  /\ allRunners' = [allRunners EXCEPT ![t] = Append(@, w)]
  /\ home' = [home EXCEPT ![w] = MainFor(t)]
  /\ Go(w, "start")
  /\ SubmitTask(w)
  /\ UNCHANGED <<mainThread, task, others, i, ran, raws>>

\* ensureRunner(): the runner is registered, its thread started.
ScheduleNewRunner(t, c) ==
  /\ Executes(t) /\ made < MaxMessages
  /\ runners[t][c] = Null /\ Unused # {}
  /\ StartRunner(t, c, CHOOSE w \in Unused : TRUE)

\* Some thread sends the main thread a message that is not a task.
SendRaw ==
  /\ pc[Main] # "done" /\ made < MaxMessages
  /\ made' = made + 1
  /\ Deliver(Main, RawMsg(made + 1))
  /\ raws' = raws \cup {made + 1}
  /\ UNCHANGED <<threadVars, pc, task, others, i, sent, ran>>

-----------------------------------------------------------------------------
(* The thread of a runner.                                                 *)

Take(t)     == mailbox' = [mailbox EXCEPT ![t] = Tail(@)]
Execute(t, n) ==
  /\ task' = [task EXCEPT ![t] = n]
  /\ ran' = [ran EXCEPT ![t] = Append(@, n)]
  /\ Go(t, "task")

AttachMain(w) ==
  /\ At(w, "start")
  /\ mainThread' = [mainThread EXCEPT ![w] = home[w]]
  /\ Go(w, "loop")
  /\ UNCHANGED <<mailbox, runners, allRunners, home, task, others, i, made, sent, ran, raws>>

RunnerReceive(w) ==
  /\ At(w, "loop") /\ mailbox[w] # <<>>
  /\ Take(w)
  /\ LET m == Head(mailbox[w])
     IN  \/ m = TaskStop /\ Go(w, "exited") /\ UNCHANGED <<task, ran>>
         \/ IsTask(m) /\ Execute(w, m[2])
  /\ UNCHANGED <<threadVars, others, i, made, sent, raws>>

\* A task returns or throws; execute() catches what it throws.
TaskEnds(t) ==
  /\ At(t, "task")
  /\ task' = [task EXCEPT ![t] = Null]
  /\ Go(t, IF t = Main THEN "drain" ELSE "loop")
  /\ UNCHANGED <<mailbox, threadVars, others, i, made, sent, ran, raws>>

-----------------------------------------------------------------------------
(* handleMainTasks(), called between two steps of main().                  *)

HandleMainTasks ==
  /\ At(Main, "run")
  /\ Go(Main, "drain")
  /\ UNCHANGED <<mailbox, threadVars, task, others, i, made, sent, ran, raws>>

\* Mutant of DrainTake: a message that is not a task ends the drain.
DrainTakeStops(m) ==
  /\ IsRaw(m) /\ Go(Main, "putBack") /\ i' = 1
  /\ UNCHANGED <<task, ran, others>>

DrainTake(m) ==
  /\ IsRaw(m) /\ others' = Append(others, m)
  /\ UNCHANGED <<pc, task, ran, i>>

DrainStep ==
  /\ At(Main, "drain")
  /\ \/ /\ mailbox[Main] = <<>>
        /\ Go(Main, "putBack") /\ i' = 1
        /\ UNCHANGED <<mailbox, task, ran, others>>
     \/ /\ mailbox[Main] # <<>> /\ Take(Main)
        /\ LET m == Head(mailbox[Main])
           IN  \/ IsTask(m) /\ Execute(Main, m[2]) /\ UNCHANGED <<others, i>>
               \/ DrainTake(m)
  /\ UNCHANGED <<threadVars, made, sent, raws>>

PutBack ==
  /\ At(Main, "putBack")
  /\ \/ /\ i <= Len(others)
        /\ Deliver(Main, others[i]) /\ i' = i + 1
        /\ UNCHANGED <<pc, others>>
     \/ /\ i > Len(others)
        /\ Go(Main, "run") /\ others' = <<>> /\ i' = 1
        /\ UNCHANGED mailbox
  /\ UNCHANGED <<threadVars, task, made, sent, ran, raws>>

-----------------------------------------------------------------------------
(* stopAll(), which the compiler calls after main() has returned.          *)

Exit ==
  /\ At(Main, "run")
  /\ Go(Main, "stop") /\ i' = 1
  /\ UNCHANGED <<mailbox, threadVars, task, others, made, sent, ran, raws>>

Runner(n) == allRunners[Main][n]

\* Mutant of StopMessage: the stop overtakes what is queued.
StopMessageFirst(w) == mailbox' = [mailbox EXCEPT ![w] = <<TaskStop>> \o @]

\* Mutant of StopMessage: the runner is not told.
StopMessageNever(w) == UNCHANGED mailbox

StopMessage(w) == Deliver(w, TaskStop)

StopRunner ==
  /\ At(Main, "stop")
  /\ \/ /\ i <= Len(allRunners[Main])
        /\ StopMessage(Runner(i)) /\ i' = i + 1
        /\ UNCHANGED pc
     \/ /\ i > Len(allRunners[Main])
        /\ Go(Main, "join") /\ i' = 1
        /\ UNCHANGED mailbox
  /\ UNCHANGED <<threadVars, task, others, made, sent, ran, raws>>

JoinRunner ==
  /\ At(Main, "join")
  /\ \/ /\ i <= Len(allRunners[Main])
        /\ pc[Runner(i)] = "exited" /\ i' = i + 1
        /\ UNCHANGED pc
     \/ /\ i > Len(allRunners[Main])
        /\ Go(Main, "done") /\ UNCHANGED i
  /\ UNCHANGED <<mailbox, threadVars, task, others, made, sent, ran, raws>>

ProcessOver == pc[Main] = "done" /\ UNCHANGED vars

-----------------------------------------------------------------------------
WorkerStep(w) == AttachMain(w) \/ RunnerReceive(w) \/ TaskEnds(w)
StopStep      == StopRunner \/ JoinRunner

Next ==
  \/ \E t \in Thread :
       \/ ScheduleMain(t)
       \/ \E c \in Category :
            ScheduleRunner(t, c) \/ ScheduleNewRunner(t, c)
  \/ \E w \in Worker : WorkerStep(w)
  \/ SendRaw \/ HandleMainTasks \/ DrainStep \/ TaskEnds(Main) \/ PutBack
  \/ Exit \/ StopStep \/ ProcessOver

Spec == Init /\ [][Next]_vars

\* Threads run, tasks end, and stopAll() goes on.
FairSpec == Spec /\ (\A w \in Worker : WF_vars(WorkerStep(w))) /\ WF_vars(StopStep)

-----------------------------------------------------------------------------
Message == {TaskMsg(n) : n \in 1 .. MaxMessages} \cup {RawMsg(n) : n \in 1 .. MaxMessages} \cup {TaskStop}

\* Only the thread a task runs on has one, and only Main is ever anybody's main.
TypeOK ==
  /\ mailbox \in [Thread -> Seq(Message)]
  /\ mainThread \in [Thread -> {Main, Null}] /\ home \in [Worker -> {Main, Null}]
  /\ runners \in [Thread -> [Category -> Worker \cup {Null}]]
  /\ allRunners \in [Thread -> Seq(Worker)]
  /\ pc \in [Thread -> {"none", "start", "loop", "task", "exited",
                        "run", "drain", "putBack", "stop", "join", "done"}]
  /\ task \in [Thread -> 1 .. MaxMessages \cup {Null}]
  /\ \A t \in Thread : task[t] # Null <=> pc[t] = "task"
  /\ others \in Seq(Message) /\ i \in Nat /\ made \in 0 .. MaxMessages
  /\ sent \in [Thread -> Seq(1 .. made)] /\ ran \in [Thread -> Seq(1 .. made)]
  /\ raws \subseteq 1 .. made

\* The numbers of the tasks among some messages, in their order.
TaskNumbers(s) ==
  LET upTo[n \in 0 .. Len(s)] ==
        IF n = 0 THEN <<>>
        ELSE IF IsTask(s[n]) THEN Append(upTo[n - 1], s[n][2]) ELSE upTo[n - 1]
  IN  upTo[Len(s)]

Tasks(t) == TaskNumbers(mailbox[t])

\* What is in the main thread's mailbox, or waits to be put back there.
Held == mailbox[Main] \o
          (IF pc[Main] = "putBack" THEN SubSeq(others, i, Len(others)) ELSE others)

(* TaskScheduler.aml:64,78-80: every task is started at most once, on the   *)
(* thread it was submitted to, in the order of submission; the messages     *)
(* that are not tasks survive any number of drains, none of them twice.     *)
MessagesKept ==
  /\ TypeOK
  /\ \A t \in Thread : ran[t] \o Tasks(t) = sent[t]
  /\ {m \in ToSet(Held) : IsRaw(m)} = {RawMsg(n) : n \in raws}
  /\ \A j, k \in DOMAIN Held : IsRaw(Held[j]) /\ Held[j] = Held[k] => j = k

(* TaskScheduler.aml:142-143: when stopAll() returns every runner of the    *)
(* main thread has finished all its tasks and its thread is over.           *)
StoppedAfterTasks ==
  pc[Main] = "done" =>
    \A w \in ToSet(allRunners[Main]) :
      ran[w] = sent[w] /\ task[w] = Null /\ pc[w] = "exited"

\* stopAll() returns if the tasks do, whatever they schedule meanwhile.
StopAllReturns == pc[Main] = "stop" ~> pc[Main] = "done"
=============================================================================
