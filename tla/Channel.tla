------------------------------ MODULE Channel ------------------------------
(***************************************************************************)
(* What a mailbox promises: a message goes in at one end or is refused     *)
(* because the owner has closed it; each comes out once, oldest first; a   *)
(* take that waits comes back without a message only from a closed one --  *)
(* or a deaf one, whose owner cannot be woken and polls instead.           *)
(***************************************************************************)
EXTENDS Sequences

CONSTANTS Msg, Null

VARIABLES
  queue,   \* the messages posted and not yet taken
  closed,
  deaf,
  last     \* the last call and what it returned

vars == <<queue, closed, deaf, last>>

Init ==
  /\ queue = <<>>
  /\ closed = FALSE
  /\ deaf = FALSE
  /\ last = <<"none">>

Post(m) ==
  /\ last' = <<"post", m, ~closed>>
  /\ queue' = IF closed THEN queue ELSE Append(queue, m)
  /\ UNCHANGED <<closed, deaf>>

Take(wait) ==
  /\ queue # <<>>
  /\ last' = <<"take", wait, Head(queue)>>
  /\ queue' = Tail(queue)
  /\ UNCHANGED <<closed, deaf>>

TakeNothing(wait) ==
  /\ queue = <<>>
  /\ wait => closed \/ deaf
  /\ last' = <<"take", wait, Null>>
  /\ UNCHANGED <<queue, closed, deaf>>

Close ==
  /\ closed' = TRUE
  /\ UNCHANGED <<queue, deaf, last>>

Deafen ==
  /\ deaf' = TRUE
  /\ UNCHANGED <<queue, closed, last>>

Next ==
  \/ \E m \in Msg : Post(m)
  \/ \E wait \in BOOLEAN : Take(wait) \/ TakeNothing(wait)
  \/ Close \/ Deafen

Spec == Init /\ [][Next]_vars
=============================================================================
