------------------------------ MODULE Sortable ------------------------------
(***************************************************************************)
(* The sorting of thumbnails with the mouse (the plugin sortable.js) as    *)
(* the upload widget uses it: one list, no animation, no delay.  While an  *)
(* element is dragged it is moved about in the document itself; where it   *)
(* came from is a number noted when the mouse button went down.            *)
(*                                                                         *)
(* An element is a record; those of gen 0 and those in a box of their own  *)
(* do not match the selector of draggable elements.  Positions start at 1. *)
(* Next to each thumbnail is its hidden copy for the zoom, which stays     *)
(* where it is: a thumbnail that was moved at all has another neighbour.   *)
(***************************************************************************)
EXTENDS Selection

CONSTANT None

VARIABLES
  page,   \* the elements in the order of the document
  boxed,  \* those that are no children of the list yet
  drag    \* dragEl, oldIndex, KvSortable.active, dragEl.nextSibling !== nextEl; or None

Elements == {page[n] : n \in DOMAIN page}

Draggable(x) == x.gen > 0 /\ x \notin boxed

Without(x) == Only(page, Elements \ {x})

\* Mutant: one off.
IndexFromZero(x) ==
  IF x \notin Elements THEN -1
  ELSE Cardinality({n \in DOMAIN page : /\ Draggable(page[n])
                                        /\ n < CHOOSE m \in DOMAIN page : page[m] = x})

\* _index: the place among the draggable elements, -1 for one that was removed.
Index(x) ==
  IF x \notin Elements THEN -1
  ELSE 1 + Cardinality({n \in DOMAIN page : /\ Draggable(page[n])
                                            /\ n < CHOOSE m \in DOMAIN page : page[m] = x})

\* A press while something is dragged is ignored.
TapStart(x) ==
  /\ drag = None
  /\ x \in Elements /\ Draggable(x)
  /\ drag' = [frame |-> x, oldIndex |-> Index(x), active |-> FALSE, moved |-> FALSE]
  /\ UNCHANGED <<page, boxed>>

DragStarted ==
  /\ drag # None /\ ~drag.active
  /\ drag' = [drag EXCEPT !.active = TRUE]
  /\ UNCHANGED <<page, boxed>>

\* Before or after the element under the mouse, or last, wherever the dragged
\* element is then: if it was removed meanwhile this puts it back.
Placed(x) ==
  LET rest == Without(x)
      at == {n \in DOMAIN rest : Draggable(rest[n])}
  IN {Seqs!InsertAt(rest, n, x) : n \in at \cup {m + 1 : m \in at} \cup {Len(rest) + 1}}

DragOver ==
  /\ drag # None /\ drag.active
  /\ page' \in Placed(drag.frame)
  /\ drag' = [drag EXCEPT !.moved = TRUE]
  /\ UNCHANGED boxed

\* _onDrop announces a sort if the element is elsewhere now and still there.
Announced == drag.moved /\ Index(drag.frame) > 0

Drop ==
  /\ drag # None
  /\ drag' = None
  /\ UNCHANGED <<page, boxed>>

\* destroy drops without an event; kvsortable is made anew only for a list that
\* has draggable elements.
Renewed(p, b) == IF \E n \in DOMAIN p : p[n].gen > 0 /\ p[n] \notin b THEN None ELSE drag

=============================================================================
