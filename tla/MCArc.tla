------------------------------- MODULE MCArc -------------------------------
(* Three objects of two slots each, two statics, one handle per object:     *)
(* self-cycles, cycles of two and three, through slots, statics, interface  *)
(* objects and native owners, with every address used again.                *)
EXTENDS Arc, TLC

Symmetry == Permutations(Obj) \cup Permutations(Slot)
=============================================================================
