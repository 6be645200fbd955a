------------------------------ MODULE MCSpawn ------------------------------
(* Blocking commands and the search for programs on the four ports, one port *)
(* in each behaviour.                                                        *)
EXTENDS Spawn

CONSTANT Ports    \* the ports that are checked
VARIABLE port     \* the one this behaviour runs

Amiga   == INSTANCE SpawnAmiga
Morphos == INSTANCE SpawnMorphos
Aros    == INSTANCE SpawnAros
Libc    == INSTANCE SpawnLibc

MCInit == Init /\ port \in Ports

\* Bounds: the long searches are taken by a single call, between whose steps the
\* drawers may be set; where calls overlap the search ends at the first place,
\* and the first of them is a capture in a directory.
Bounded ==
  IF system.drawers # {} THEN call'[2].pc = "new"
  ELSE dirs' = dirs /\ (call'[2].pc # "new" => call'[1].entry \in {"captureInDir"} /\ call'[2].bare)

MCNext ==
  /\ \/ port = "amigaos" /\ Amiga!Next
     \/ port = "morphos" /\ Morphos!Next
     \/ port = "aros" /\ Aros!Next
     \/ port = "libc" /\ Libc!Next
  /\ UNCHANGED port /\ Bounded

MCSpec == MCInit /\ [][MCNext]_<<vars, port>>

-----------------------------------------------------------------------------
\* A program started from a Shell, with a path of its own ...
FromShell ==
  [own |-> <<"Work">>, workbench |-> <<"Tools">>, ambient |-> <<>>, processes |-> <<>>,
   drawers |-> {"Ext", "Work", "Tools"}, holds |-> [b \in BOOLEAN |-> IF b THEN {"Ext", "Work", "C:"} ELSE {}]]

\* ... and from an icon, on a system whose desktop goes by another name.
FromIcon ==
  [own |-> <<>>, workbench |-> <<>>, ambient |-> <<>>,
   processes |-> <<[desktop |-> FALSE, path |-> <<"Ext", "Work">>], [desktop |-> TRUE, path |-> <<"Tools">>],
                   [desktop |-> FALSE, path |-> <<"Work">>]>>,
   drawers |-> {"Work", "Tools"}, holds |-> [b \in BOOLEAN |-> IF b THEN {"Tools", "C:"} ELSE {"here"}]]

\* Names are found where they are, or not at all.
Bare ==
  [own |-> <<>>, workbench |-> <<>>, ambient |-> <<>>, processes |-> <<>>, drawers |-> {},
   holds |-> [b \in BOOLEAN |-> IF b THEN {"here"} ELSE {}]]

MCSystems == {FromShell, FromIcon, Bare}
MCDirs    == {<<>>, <<"Gone", "Ext">>}

-----------------------------------------------------------------------------
Symm == Permutations(Threads) \cup Permutations(Addrs)

\* What neither a later step nor a property looks at is not told apart: what a
\* search left behind, and of an ended call the text, once it was compared.
Seen(k) ==
  [k EXCEPT !.prog = None, !.seg = None, !.drawer = None, !.mixed = FALSE, !.short = FALSE,
            !.bare = @ \/ (Searching = {} /\ k.pc \notin {"begun", "open"}),
            !.found = IF k.child = "exits" THEN @ ELSE 0,
            !.wrote = IF k.pc = "done" /\ k.child = "gone" THEN k.got = k.wrote ELSE @,
            !.got = IF k.pc = "done" /\ k.child = "gone" THEN <<>> ELSE @]
View ==
  <<port, file, contexts, dirs, system, squat, harm,
    IF Searching = {} THEN <<>> ELSE <<buffer, resolved>>,
    [c \in Calls |-> LET k == [call[c] EXCEPT !.named = @ \/ "morphos" \in Wedges, !.addr = IF port = "amigaos" THEN @ ELSE None]
                      IN IF c \in Searching THEN k ELSE Seen(k)]>>

Returned(c) == call[c].end = "returned"
Captured(c) == call[c].entry \in {"capture", "captureInDir", "stdoutInDir"}
Outlived(c) == call[c].pc \in {"close", "read", "finish", "done"} /\ call[c].entry \in Capturing
                 /\ call[c].child # "none" /\ ~call[c].gone
GaveUp(c)   == port = "amigaos" /\ Outlived(c)
Cut(c)      == port = "morphos" /\ Outlived(c)

\* All that the child wrote to the captured streams was returned, except when a
\* capture says in the text that it gave up on it; a read that failed goes unnoticed.
Complete(c) ==
  Returned(c) /\ Captured(c) /\ ~call[c].blind /\ ~GaveUp(c)
    => ~Alive(c) /\ \A s \in Stream : call[c].got[s] = call[c].wrote[s]

\* Process.aml:26 says of a capture that it "waits for it to finish and returns
\* what it wrote to stdout".  MorphOS goes on after 600 looks, or at once when the
\* child runs under another name, and nothing in the text says so.
CapturesComplete == \A c \in Calls : Complete(c)

\* What a capture returns is all that its own child wrote, also when other threads
\* capture at the same time and whatever becomes of a capture that gave up on its
\* child, or on MorphOS was cut short (CapturesComplete).
WholeOrMarked == \A c \in Calls : Cut(c) \/ Complete(c)

\* The two handles the parent and the child divide between them are closed once,
\* each by its owner, and not while the child still writes through it; the exit
\* hook writes to the context of its own capture, which is still there.  Only the
\* child of a capture that MorphOS cut short finds its error stream closed.
NoHarm ==
  /\ \A h \in harm : Cut(h[2])
  /\ \A c \in Calls : Alive(c) /\ call[c].entry \in Capturing /\ port # "libc" /\ ~Cut(c) => call[c].open = Stream

\* Locks that a failed spawn keeps: everywhere those of the list minted for the
\* child (amigaos Process.c:66-67: "leaking a lock beats a double free"), and all
\* that startNative of amigaos took (RunningProcess.c:2401-2409).
Kept(c) ==
  IF call[c].child # "none" THEN {}
  ELSE IF port = "amigaos" /\ call[c].entry = "start" THEN {"home", "cwd", "path"} ELSE {"path"}

\* A call that has ended left nothing of its own: the working directory is put
\* back, the chain it searched is freed, what was locked for its child is the
\* child's, no context is kept, no handle is open and no temp file exists.
\* A failed spawn keeps the locks of Kept; a capture that gave up, or was cut short,
\* leaves its files and its context to the child; and one that could not open its
\* files leaves those it did.
NothingLeftBehind ==
  \A c \in Calls :
    call[c].pc = "done" =>
      /\ call[c].dir # "swapped" /\ ~call[c].held /\ call[c].ctx # "own"
      /\ call[c].locks \subseteq Kept(c)
      /\ ~Outlived(c) => call[c].ctx # "listed" /\ call[c].open = {}
      /\ (\A d \in Calls : call[d].by = call[c].by => call[d].pc = "done" /\ ~Outlived(d) /\ call[d].end # "unopened")
           => \A s \in {"out", "err", "cap"} : file[<<call[c].by, s>>] = -1

\* The places of a search, in the order the comments promise: as given, the
\* drawers that were set, the path list, C:.
Order(c) ==
  <<Here>> \o (IF port = "aros" \/ call[c].short THEN <<>> ELSE SelectSeq(dirs, LAMBDA d : d \in system.drawers))
           \o (IF port = "aros" THEN system.own ELSE effective_path(system)) \o <<C>>

\* Left to itself a call runs its own command, from the first of the places that
\* has it, and its PROGDIR: is that place: nothing of another call that searches
\* at the same time gets in.  AROS gives no PROGDIR:.
RunsTheFirst ==
  \A c \in Calls :
    call[c].seg # None /\ call[c].pc \in {"home", "ctx", "spawn"} /\ ~call[c].mixed =>
      /\ call[c].prog = c
      /\ call[c].seg = SelectSeq(Order(c), LAMBDA p : p \in system.holds[call[c].bare])[1]
      /\ call[c].drawer \in {None, call[c].seg}
=============================================================================
