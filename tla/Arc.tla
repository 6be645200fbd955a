-------------------------------- MODULE Arc --------------------------------
(***************************************************************************)
(* The heap of one isolate: reference counting (core_inline_functions.h,   *)
(* core.c), the cycle collector (GC.c, gc_graph.h) and the exit sweep.     *)
(* An object counts its owners twice over: ref for local handles and for   *)
(* the interface objects that wrap it, prop for the slots that hold it     *)
(* (properties, array elements, statics).  It dies when both are zero; its *)
(* death releases what it owned, so deaths cascade.  The C recursion of a  *)
(* cascade is the variable stack: the program runs again when it is empty. *)
(***************************************************************************)
EXTENDS Integers, Sequences, FiniteSets, SequencesExt

CONSTANTS
  Obj,        \* addresses; one is used again after its object is freed
  Class,      \* the class statics, slots that belong to no object
  Slot,       \* property indexes, or array elements
  Static,     \* static property indexes
  MaxLocals,  \* bound: local handles the program holds on one object
  Null

ASSUME ArcAssumption ==
  /\ IsFiniteSet(Obj) /\ IsFiniteSet(Slot) /\ IsFiniteSet(Static)
  /\ Class \notin Obj /\ Null \notin Obj \cup {Class} \cup Slot \cup Static
  /\ MaxLocals \in Nat

Holder == Obj \cup {Class}
Cell   == (Obj \X Slot) \cup ({Class} \X Static)
Kind   == {"free", "class", "native", "iface"}

VARIABLES
  kind,         \* "native": a class with a release hook; "iface": a wrapper
  impl,         \* the implementation an interface object wraps
  slot,         \* nullable_value.value.object_value of every property
  local,        \* the handles the program's variables own
  ref, prop,    \* reference_count, property_reference_count
  pending,      \* pending_deallocation
  listed,       \* first_object: what the collector and the sweep look at
  detached,     \* first_detached_object
  stack,        \* the calls in progress, innermost first
  mode,         \* run, mark, clear, unpin, collected, statics, sweep, ended
  nodes, live, queue, pinned,         \* the collector's graph
  before,       \* what could be reached when the collection began
  visited, old_count, new_count       \* the sweep's cursor and counters

heapVars  == <<kind, impl, slot, local>>
gcVars    == <<nodes, live, queue, pinned, before>>
sweepVars == <<visited, old_count, new_count>>
vars == <<heapVars, ref, prop, pending, listed, detached, stack, mode, gcVars, sweepVars>>

Frame(op, o, i, v) == [op |-> op, obj |-> o, at |-> i, val |-> v]
Do(op, o)          == <<Frame(op, o, Null, Null)>>

Init ==
  /\ kind = [o \in Obj |-> "free"]
  /\ impl = [o \in Obj |-> Null]
  /\ slot = [c \in Cell |-> Null]
  /\ local = [o \in Obj |-> 0]
  /\ ref = [o \in Obj |-> 0] /\ prop = [o \in Obj |-> 0]
  /\ pending = {} /\ listed = {} /\ detached = {}
  /\ stack = <<>>
  /\ mode = "run"
  /\ nodes = {} /\ live = {} /\ queue = {} /\ pinned = {}
  /\ before = [used |-> {}, kept |-> {}]
  /\ visited = {} /\ old_count = 0 /\ new_count = 0

-----------------------------------------------------------------------------
(* The counts.  rest is what the caller does when the release is over.     *)

DecRef(o, rest) ==
  /\ ref' = [ref EXCEPT ![o] = @ - 1]
  /\ stack' = (IF ref[o] = 1 /\ prop[o] = 0 THEN Do("dealloc", o) ELSE <<>>) \o rest

\* Mutant of DecProp: an object leaves the list only when it dies.
DecPropKeepsListed(o, rest) ==
  LET dies == prop[o] = 1 /\ o \notin pending /\ ref[o] = 0
  IN  /\ prop' = [prop EXCEPT ![o] = @ - 1]
      /\ listed' = IF dies THEN listed \ {o} ELSE listed
      /\ stack' = (IF dies THEN Do("dealloc", o) ELSE <<>>) \o rest

DecProp(o, rest) ==
  LET last == prop[o] = 1 /\ o \notin pending
  IN  /\ prop' = [prop EXCEPT ![o] = @ - 1]
      /\ listed' = IF last THEN listed \ {o} ELSE listed
      /\ stack' = (IF last /\ ref[o] = 0 THEN Do("dealloc", o) ELSE <<>>) \o rest

\* __increase_property_reference_count: the first holder links it.
IncProp(v) ==
  /\ prop' = [prop EXCEPT ![v] = @ + 1]
  /\ listed' = listed \cup {v}

Index(o)       == IF o = Class THEN Static ELSE Slot
Slots(o)       == {i \in Index(o) : slot[<<o, i>>] # Null}
HasSlots(o)    == kind[o] \in {"class", "native"}
Freed(S)       == [o \in Obj |-> IF o \in S THEN "free" ELSE kind[o]]
Zeroed(f, S, z) == [o \in Obj |-> IF o \in S THEN z ELSE f[o]]

\* The memory of S goes back to the allocator, with all that was in it.
Release(S) ==
  /\ kind' = Freed(S)
  /\ impl' = Zeroed(impl, S, Null)
  /\ slot' = [c \in Cell |-> IF c[1] \in S THEN Null ELSE slot[c]]
  /\ ref' = Zeroed(ref, S, 0) /\ prop' = Zeroed(prop, S, 0)
  /\ pending' = pending \ S
  /\ UNCHANGED local

-----------------------------------------------------------------------------
(* The calls in progress.                                                  *)

Top       == Head(stack)
Rest      == Tail(stack)
Calls(op) == stack # <<>> /\ Top.op = op

\* __deallocate_object up to the first release: at most once per object.
Dealloc ==
  /\ Calls("dealloc")
  /\ LET o == Top.obj
     IN  /\ pending' = pending \cup {o}
         /\ \/ o \in pending /\ stack' = Rest /\ UNCHANGED ref
            \/ /\ o \notin pending /\ kind[o] = "iface"
               /\ DecRef(impl[o], Do("free", o) \o Rest)
            \/ /\ o \notin pending /\ HasSlots(o)
               /\ stack' = Do("detach", o) \o Do("free", o) \o Rest
               /\ UNCHANGED ref
  /\ UNCHANGED <<heapVars, prop, listed, detached, mode, gcVars, sweepVars>>

\* __detach_object, and the release of an array: one slot after the other.
Detach ==
  /\ Calls("detach")
  /\ \/ /\ Slots(Top.obj) = {} /\ stack' = Rest
        /\ UNCHANGED <<prop, listed>>
     \/ \E i \in Slots(Top.obj) :
          DecProp(slot[<<Top.obj, i>>], <<Frame("clear", Top.obj, i, Null)>> \o stack)
  /\ UNCHANGED <<heapVars, ref, pending, detached, mode, gcVars, sweepVars>>

\* The slot is cleared after what it held was released.
Clear ==
  /\ Calls("clear")
  /\ slot' = [slot EXCEPT ![<<Top.obj, Top.at>>] = Null]
  /\ stack' = Rest
  /\ UNCHANGED <<kind, impl, local, ref, prop, pending, listed, detached, mode, gcVars, sweepVars>>

\* The end of __set_property: the new value is counted and stored.
Store ==
  /\ Calls("store")
  /\ IF Top.val = Null THEN UNCHANGED <<prop, listed>> ELSE IncProp(Top.val)
  /\ slot' = [slot EXCEPT ![<<Top.obj, Top.at>>] = Top.val]
  /\ stack' = Rest
  /\ UNCHANGED <<kind, impl, local, ref, pending, detached, mode, gcVars, sweepVars>>

Free ==
  /\ Calls("free")
  /\ Release({Top.obj})
  /\ stack' = Rest
  /\ UNCHANGED <<listed, detached, mode, gcVars, sweepVars>>

\* The end of __detach_object_from_sweep: from one list to the other.
Unlink ==
  /\ Calls("unlink")
  /\ listed' = listed \ {Top.obj}
  /\ detached' = detached \cup {Top.obj}
  /\ stack' = Rest
  /\ UNCHANGED <<heapVars, ref, prop, pending, mode, gcVars, sweepVars>>

Return == Dealloc \/ Detach \/ Clear \/ Store \/ Free \/ Unlink

-----------------------------------------------------------------------------
(* The program.                                                            *)

In(m)   == mode = m /\ stack = <<>>
Owns(o) == o \in Obj /\ local[o] > 0

\* A new object, held by the variable it is created into.
Allocate(o, k) ==
  /\ In("run") /\ kind[o] = "free" /\ MaxLocals > 0
  /\ kind' = [kind EXCEPT ![o] = k]
  /\ local' = [local EXCEPT ![o] = 1]
  /\ ref' = [ref EXCEPT ![o] = 1]
  /\ UNCHANGED <<impl, slot, prop, pending, listed, detached, stack, mode, gcVars, sweepVars>>

AllocateIface(o, x) ==
  /\ In("run") /\ kind[o] = "free" /\ MaxLocals > 0
  /\ Owns(x) /\ HasSlots(x)
  /\ kind' = [kind EXCEPT ![o] = "iface"]
  /\ impl' = [impl EXCEPT ![o] = x]
  /\ local' = [local EXCEPT ![o] = 1]
  /\ ref' = [ref EXCEPT ![o] = 1, ![x] = @ + 1]
  /\ UNCHANGED <<slot, prop, pending, listed, detached, stack, mode, gcVars, sweepVars>>

\* __retain_slot_read: what is read out of a slot is owned.
Read(p, i) ==
  /\ In("run") /\ (p = Class \/ Owns(p))
  /\ slot[<<p, i>>] # Null
  /\ LET v == slot[<<p, i>>]
     IN  /\ local[v] < MaxLocals
         /\ local' = [local EXCEPT ![v] = @ + 1]
         /\ ref' = [ref EXCEPT ![v] = @ + 1]
  /\ UNCHANGED <<kind, impl, slot, prop, pending, listed, detached, stack, mode, gcVars, sweepVars>>

\* A variable goes out of scope: __decrease_reference_count.
Drop(o) ==
  /\ In("run") /\ Owns(o)
  /\ local' = [local EXCEPT ![o] = @ - 1]
  /\ DecRef(o, <<>>)
  /\ UNCHANGED <<kind, impl, slot, prop, pending, listed, detached, mode, gcVars, sweepVars>>

\* The old value is released, whatever that sets off, before the slot changes.
SetProperty(p, i, v) ==
  /\ In("run")
  /\ p = Class \/ (Owns(p) /\ HasSlots(p))
  /\ v = Null \/ Owns(v)
  /\ LET store == <<Frame("store", p, i, v)>>
     IN  IF slot[<<p, i>>] = Null
         THEN stack' = store /\ UNCHANGED <<prop, listed>>
         ELSE DecProp(slot[<<p, i>>], store)
  /\ UNCHANGED <<heapVars, ref, pending, detached, mode, gcVars, sweepVars>>

-----------------------------------------------------------------------------
(* GC.collect.                                                             *)

Wraps(w, o) == w \in Obj /\ kind[w] = "iface" /\ w \notin pending /\ impl[w] = o

\* Everything on the list, and what is held through a wrapper on the list only.
Nodes == listed \cup {o \in Obj : \E w \in listed : Wraps(w, o)}

\* The owning references to o that come from within N.
Internal(N, o) ==
  Cardinality({c \in N \X Slot : slot[c] = o}) + Cardinality({w \in N : Wraps(w, o)})

\* Mutant of Roots: an owner the graph does not know is overlooked.
RootsOnlyNative(N) == {o \in N : kind[o] = "native"}

\* An owner outside the graph, or a release hook the collector does not know.
Roots(N) ==
  {o \in N : ref[o] + prop[o] # Internal(N, o) \/ kind[o] = "native" \/ o \in pending}

Edges(o) == {slot[<<o, i>>] : i \in Slots(o)} \cup {x \in Obj : Wraps(o, x)}

\* The smallest set that holds the roots and what its objects own.
Reach(roots) ==
  {o \in Obj : \A S \in SUBSET Obj : roots \subseteq S /\ (\A x \in S : Edges(x) \subseteq S) => o \in S}

\* What the program's variables and statics lead to.
ProgramRoots == {o \in Obj : local[o] > 0} \cup {slot[<<Class, i>>] : i \in Slots(Class)}

Collect ==
  /\ In("run") /\ detached = {}
  /\ nodes' = Nodes
  /\ live' = Roots(Nodes) /\ queue' = Roots(Nodes)
  /\ before' = [used |-> Reach(ProgramRoots),
                kept |-> Reach(ProgramRoots \cup {o \in Obj : kind[o] = "native"})]
  /\ mode' = "mark"
  /\ UNCHANGED <<heapVars, ref, prop, pending, listed, detached, stack, pinned, sweepVars>>

Mark(o) ==
  /\ In("mark") /\ o \in queue
  /\ LET new == (Edges(o) \cap nodes) \ live
     IN  live' = live \cup new /\ queue' = (queue \ {o}) \cup new
  /\ UNCHANGED <<heapVars, ref, prop, pending, listed, detached, stack, mode, nodes, pinned, before, sweepVars>>

Garbage == nodes \ live

\* Every candidate is pinned before any of them is touched.
Pin ==
  /\ In("mark") /\ queue = {}
  /\ ref' = [o \in Obj |-> IF o \in Garbage THEN ref[o] + 1 ELSE ref[o]]
  /\ pinned' = Garbage
  /\ mode' = "clear"
  /\ UNCHANGED <<heapVars, prop, pending, listed, detached, stack, nodes, live, queue, before, sweepVars>>

\* gc_clear_edge: the slot first, then the count.
ClearEdge(o, i) ==
  /\ In("clear") /\ o \in pinned /\ slot[<<o, i>>] # Null
  /\ slot' = [slot EXCEPT ![<<o, i>>] = Null]
  /\ DecProp(slot[<<o, i>>], <<>>)
  /\ UNCHANGED <<kind, impl, local, ref, pending, detached, mode, gcVars, sweepVars>>

AllCleared ==
  /\ In("clear") /\ \A o \in pinned : Slots(o) = {}
  /\ mode' = "unpin"
  /\ UNCHANGED <<heapVars, ref, prop, pending, listed, detached, stack, gcVars, sweepVars>>

Unpin(o) ==
  /\ In("unpin") /\ o \in pinned
  /\ pinned' = pinned \ {o}
  /\ DecRef(o, <<>>)
  /\ UNCHANGED <<heapVars, prop, pending, listed, detached, mode, nodes, live, queue, before, sweepVars>>

Collected ==
  /\ In("unpin") /\ pinned = {}
  /\ mode' = "collected"
  /\ nodes' = {} /\ live' = {}
  /\ UNCHANGED <<heapVars, ref, prop, pending, listed, detached, stack, queue, pinned, before, sweepVars>>

Resume ==
  /\ In("collected")
  /\ mode' = "run"
  /\ before' = [used |-> {}, kept |-> {}]
  /\ UNCHANGED <<heapVars, ref, prop, pending, listed, detached, stack, nodes, live, queue, pinned, sweepVars>>

GarbageCollector ==
  \/ Collect \/ Pin \/ AllCleared \/ Collected \/ Resume
  \/ \E o \in Obj : Mark(o) \/ Unpin(o) \/ \E i \in Slot : ClearEdge(o, i)

-----------------------------------------------------------------------------
(* The end of the isolate: no variable is left; the statics are released,  *)
(* then the cycles nobody collected are swept.  Nothing is marked: the     *)
(* statics, the only roots of the mark, are gone.                          *)

Exit ==
  /\ In("run") /\ \A o \in Obj : local[o] = 0
  /\ mode' = "statics"
  /\ UNCHANGED <<heapVars, ref, prop, pending, listed, detached, stack, gcVars, sweepVars>>

DereferenceStatic(i) ==
  /\ In("statics") /\ slot[<<Class, i>>] # Null
  /\ DecProp(slot[<<Class, i>>], <<Frame("clear", Class, i, Null)>>)
  /\ UNCHANGED <<heapVars, ref, pending, detached, mode, gcVars, sweepVars>>

BeginSweep ==
  /\ In("statics") /\ Slots(Class) = {}
  /\ mode' = "sweep"
  /\ UNCHANGED <<heapVars, ref, prop, pending, listed, detached, stack, gcVars, sweepVars>>

Sweepable(o) == ref[o] = 0 /\ o \notin pending

SweepSkip(o) ==
  /\ In("sweep") /\ o \in listed \ visited /\ ~Sweepable(o)
  /\ visited' = visited \cup {o}
  /\ UNCHANGED <<heapVars, ref, prop, pending, listed, detached, stack, mode, gcVars, old_count, new_count>>

\* __detach_object_from_sweep: the object gives up what it owns and moves over.
SweepDetach(o) ==
  /\ In("sweep") /\ o \in listed \ visited /\ Sweepable(o)
  /\ visited' = visited \cup {o}
  /\ new_count' = new_count + 1
  /\ pending' = pending \cup {o}
  /\ \/ kind[o] = "iface" /\ DecRef(impl[o], Do("unlink", o))
     \/ HasSlots(o) /\ stack' = Do("detach", o) \o Do("unlink", o) /\ UNCHANGED ref
  /\ UNCHANGED <<heapVars, prop, listed, detached, mode, gcVars, old_count>>

PassOver == In("sweep") /\ listed \subseteq visited

\* Mutant of Again: one pass is enough.
AgainNever == FALSE

\* The sweep is over when two passes in a row detached equally many.
Again == old_count # new_count

NextPass ==
  /\ PassOver /\ Again
  /\ old_count' = new_count /\ new_count' = 0 /\ visited' = {}
  /\ UNCHANGED <<heapVars, ref, prop, pending, listed, detached, stack, mode, gcVars>>

FreeDetached ==
  /\ PassOver /\ ~Again
  /\ Release(detached)
  /\ detached' = {}
  /\ mode' = "ended"
  /\ UNCHANGED <<listed, stack, gcVars, sweepVars>>

Ended == mode = "ended" /\ UNCHANGED vars

Teardown ==
  \/ Exit \/ BeginSweep \/ NextPass \/ FreeDetached \/ Ended
  \/ \E i \in Static : DereferenceStatic(i)
  \/ \E o \in Obj : SweepSkip(o) \/ SweepDetach(o)

-----------------------------------------------------------------------------
Program ==
  \/ \E o \in Obj :
       Drop(o) \/ \E k \in {"class", "native"} : Allocate(o, k)
  \/ \E o, x \in Obj : AllocateIface(o, x)
  \/ \E p \in Holder : \E i \in Index(p) :
       Read(p, i) \/ \E v \in Obj \cup {Null} : SetProperty(p, i, v)

Next == Return \/ Program \/ GarbageCollector \/ Teardown

Spec == Init /\ [][Next]_vars

-----------------------------------------------------------------------------
Op == {"dealloc", "detach", "clear", "store", "free", "unlink"}
FrameType == [op : Op, obj : Holder, at : Slot \cup Static \cup {Null}, val : Obj \cup {Null}]

Mode == {"run", "mark", "clear", "unpin", "collected", "statics", "sweep", "ended"}

TypeOK ==
  /\ kind \in [Obj -> Kind]
  /\ impl \in [Obj -> Obj \cup {Null}]
  /\ slot \in [Cell -> Obj \cup {Null}]
  /\ local \in [Obj -> 0 .. MaxLocals]
  /\ ref \in [Obj -> Nat] /\ prop \in [Obj -> Nat]
  /\ pending \subseteq Obj /\ listed \subseteq Obj /\ detached \subseteq Obj
  /\ stack \in Seq(FrameType)
  /\ mode \in Mode
  /\ nodes \subseteq Obj /\ live \subseteq nodes /\ queue \subseteq live /\ pinned \subseteq nodes
  /\ before \in [used : SUBSET Obj, kept : SUBSET Obj]
  /\ visited \subseteq Obj /\ old_count \in Nat /\ new_count \in Nat

\* The slots whose value a call in progress has released already, or, for a
\* slot that was empty, is about to write.
Stale == {<<f.obj, f.at>> : f \in {g \in ToSet(stack) : g.op \in {"clear", "store"}}}

HoldingCells(o) == {c \in Cell : slot[c] = o /\ c \notin Stale}
Wrappers(o)     == {w \in Obj : Wraps(w, o)}

(* Both counts are exact in every state, in the middle of a cascade, a      *)
(* collection and the sweep as well: prop counts the slots that hold the    *)
(* object, ref its handles, its wrappers and the collector's pin; the list  *)
(* has exactly the objects some slot holds; a freed object has no owner.    *)
CountsOwners ==
  /\ TypeOK
  /\ \A o \in Obj :
    /\ prop[o] = Cardinality(HoldingCells(o))
    /\ ref[o] = local[o] + Cardinality(Wrappers(o)) + (IF o \in pinned THEN 1 ELSE 0)
    /\ kind[o] = "free" => ref[o] = 0 /\ prop[o] = 0 /\ o \notin listed \cup detached
    /\ o \notin pending => (o \in listed <=> prop[o] > 0)

(* GC.aml:3-12: a collection reclaims every cycle neither the program nor a *)
(* native owner could reach, and leaves all that the program could reach.   *)
CollectExact ==
  mode = "collected" =>
    LET left == {o \in Obj : kind[o] # "free"}
    IN  before.used \subseteq left /\ left \subseteq before.kept

(* core.c:2264-2266: after the sweep the heap is empty, whatever cycles the *)
(* program left and through however many interfaces.                        *)
ExitEmpties == mode = "ended" => \A o \in Obj : kind[o] = "free"
=============================================================================
