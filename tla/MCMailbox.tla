----------------------------- MODULE MCMailbox -----------------------------
(* Two senders and three message structs, on both platforms: posts overlap  *)
(* each other, the owner's check, its sleep and its close, and structs are  *)
(* used again after they were opened.                                       *)
EXTENDS Mailbox
=============================================================================
