----------------------------- MODULE MCIsolate -----------------------------
(* Instances of Isolate for TLC: handles, messages and workers are         *)
(* interchangeable in the safety runs.                                     *)
EXTENDS IsolateInv, TLC

Symmetry == Permutations(Handle) \cup Permutations(Msg) \cup Permutations(Worker)

(* The liveness run leaves symmetry out and so needs a smaller program: it *)
(* starts, joins and drops threads, and handles reach other threads in    *)
(* the boot message.                                                       *)
LiveProgram(i) ==
  \/ BuildFail(i) \/ Return(i)
  \/ \E h \in Handle :
       \/ Drop(i, h) \/ JoinClaim(i, h) \/ JoinPoll(i, h)
       \/ \E h2 \in Handle : CopyHandle(i, h, h2)
       \/ \E w \in Worker, m \in Msg : StartCreate(i, w, h, m)

LiveSpec == /\ Init /\ [][\E i \in Iso : Runtime(i) \/ LiveProgram(i)]_vars
            /\ \A i \in Iso : WF_vars(Runtime(i))
=============================================================================
