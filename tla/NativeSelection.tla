--------------------------- MODULE NativeSelection ---------------------------
(***************************************************************************)
(* The selection of a screenshot session: what the pointer does in the     *)
(* native interaction window (native_interaction_backend_windows.rs), what *)
(* the overlay page asks of it (update_runtime), and what the page is      *)
(* told.  The window's thread sends an event for each change it makes; the *)
(* service sends one with the state it asked for, which may be older by    *)
(* the time it is sent.  The page keeps the newer by its revision numbers. *)
(***************************************************************************)
EXTENDS SelectionGeometry

CONSTANTS
    PageRects,   \* the selections the page may ask for, in its own units
    PageShapes,  \* the shapes the page has drawn, in its own units
    MaxRevision  \* bound: changes within a session

Spot == [Axes -> Int]
Segment == [start: Spot, end: Spot]
Shape == [id: {x.id: x \in PageShapes}, kind: {"line", "rect"}, start: Spot, end: Spot]
Selection == {None} \cup Rect

\* What the page is told: the revisions, and what they are of.
Told == [rev: Nat, shapeRev: Nat, selection: Selection, shape: {None} \cup Shape]

ASSUME NativeSelectionAssumption ==
    /\ PageRects \subseteq Rect
    /\ PageShapes \subseteq Shape
    /\ None \notin Rect \cup Shape \cup Told
    /\ MaxRevision \in Nat

VARIABLES
    state,    \* what the window's thread and the service share
    shown,    \* whether the window is shown
    request,  \* the page's request under way: what it still has to do
    owed,     \* the state the service read and has yet to send
    page,     \* the last state the page took
    last      \* the pointer's last move in a drag

vars == <<state, shown, request, owed, page, last>>

SelectionDrags == {"create", "move", "resize"}
DraftDrags == {"line", "rect"}
ShapeDrags == {"shapeMove", "shapeStart", "shapeEnd", "shapeResize"}
Mode == {"selection"} \cup DraftDrags

NoHandle == [i \in Axes |-> "none"]
NoDrag == [mode |-> "none", handle |-> NoHandle, from |-> [i \in Axes |-> 0],
           selection |-> None, shape |-> None]

Drag == [mode: {"none"} \cup SelectionDrags \cup DraftDrags \cup ShapeDrags,
         handle: [Axes -> Side], from: Spot, selection: Selection, shape: {None} \cup Shape]

State == [mode: Mode, selection: Selection, draft: Selection \cup Segment,
          shape: {None} \cup Shape, shapeDraft: {None} \cup Shape,
          candidates: SUBSET Shape, drag: Drag, rev: Nat, shapeRev: Nat]

NewState == [mode |-> "selection", selection |-> None, draft |-> None, shape |-> None,
             shapeDraft |-> None, candidates |-> {}, drag |-> NoDrag, rev |-> 0, shapeRev |-> 0]

\* What a drag began with is there for as long as it lasts.
TypeOK ==
    /\ state \in State
    /\ state.drag.mode \in {"move", "resize"} => state.drag.selection # None
    /\ state.drag.mode \in ShapeDrags => state.drag.shape # None
    /\ shown \in BOOLEAN
    /\ request \in {"none", "show", "hide", "read"}
    /\ {owed, page} \subseteq {None} \cup Told
    /\ last \in {None} \cup Point

Init ==
    /\ state = NewState
    /\ shown = FALSE /\ request = "none" /\ owed = None /\ page = None
    /\ last = None

----------------------------------------------------------------------------
(* Changes, with the revision that tells them. *)

Selected(s, r) == IF s.selection = r THEN s ELSE [s EXCEPT !.selection = r, !.rev = @ + 1]
Shaped(s, x) == IF s.shape = x THEN s ELSE [s EXCEPT !.shape = x, !.shapeRev = @ + 1]
Drafted(s, x) == IF s.shapeDraft = x THEN s
                 ELSE [s EXCEPT !.shapeDraft = x, !.shapeRev = @ + 1]

\* What the page is told of a state.
View(s) == [rev |-> s.rev, shapeRev |-> s.shapeRev, selection |-> s.selection,
            shape |-> s.shape]

\* (mutant) The page takes what it was sent last.
LastSent(view) == view

\* isNativeStateCurrent.
Newer(view) ==
    IF page = None \/ (view.rev >= page.rev /\ view.shapeRev >= page.shapeRev)
      THEN view ELSE page
Tell(s) == page' = Newer(View(s))

----------------------------------------------------------------------------
(* A drag. *)

\* The bounds of what is drawn.
Bounds(s) == IF s.selection = None THEN Spanned(s.drag.from, s.drag.from) ELSE s.selection

\* What a drag that began at d makes of the selection when the pointer is at p.
DraggedSelection(d, p) ==
    CASE d.mode = "create" -> Spanned(d.from, p)
      [] d.mode = "move" -> Shifted(d.selection, d.from, p)
      [] d.mode = "resize" -> Stretched(d.selection, d.handle, p)

\* The rectangle around a shape, and the shape moved with it within the bounds.
Around(x) == [i \in Axes |-> Span(x.start[i], x.end[i])]
Offset(s, delta, bound) ==
    Clamp(s.lo + delta, bound.lo, Larger(High(bound) - s.size, bound.lo)) - s.lo
MovedShape(x, from, p, bounds) ==
    LET by(i) == Offset(Around(x)[i], p[i] - from[i], bounds[i])
    IN [x EXCEPT !.start = [i \in Axes |-> @[i] + by(i)],
                 !.end = [i \in Axes |-> @[i] + by(i)]]

\* resize_shape_annotation: resize_selection_rect with the selection as display, at
\* scale 1.
ResizedShape(x, h, p, bounds) ==
    LET side(i) == Stretch([lo |-> Around(x)[i].lo - bounds[i].lo, size |-> Around(x)[i].size],
                           h[i], p[i] - bounds[i].lo, bounds[i].size, MinShape)
    IN [x EXCEPT !.start = [i \in Axes |-> bounds[i].lo + side(i).lo],
                 !.end = [i \in Axes |-> bounds[i].lo + High(side(i))]]

DraggedShape(s, p) ==
    LET d == s.drag
    IN CASE d.mode = "shapeMove" -> MovedShape(d.shape, d.from, p, Bounds(s))
         [] d.mode = "shapeStart" -> [d.shape EXCEPT !.start = NearestIn(p, Bounds(s))]
         [] d.mode = "shapeEnd" -> [d.shape EXCEPT !.end = NearestIn(p, Bounds(s))]
         [] d.mode = "shapeResize" -> ResizedShape(d.shape, d.handle, p, Bounds(s))

\* handle_mouse_move during a drag.
Dragged(s, p) ==
    CASE s.drag.mode \in SelectionDrags -> Selected(s, DraggedSelection(s.drag, p))
      [] s.drag.mode = "line" ->
           [s EXCEPT !.draft = [start |-> s.drag.from, end |-> NearestIn(p, Bounds(s))]]
      [] s.drag.mode = "rect" ->
           [s EXCEPT !.draft = CutTo(Spanned(s.drag.from, p), Bounds(s))]
      [] s.drag.mode \in ShapeDrags -> Drafted(s, DraggedShape(s, p))

\* The end of handle_left_button_up: a shape that was dragged replaces the active one.
Dropped(s) ==
    IF s.drag.mode \in ShapeDrags /\ s.shapeDraft # None
      THEN [Shaped(s, s.shapeDraft) EXCEPT !.shapeDraft = None, !.drag = NoDrag]
      ELSE [s EXCEPT !.draft = None, !.drag = NoDrag]

\* WM_CAPTURECHANGED: the drag is given up, the selection stays as it is.
Abandoned(s) == [s EXCEPT !.drag = NoDrag, !.draft = None, !.shapeDraft = None]

\* What a press on a shape, or on a part of it, begins.
ShapeHits(x) ==
    {<<"shapeMove", NoHandle>>} \cup
    (IF x.kind = "line" THEN {<<"shapeStart", NoHandle>>, <<"shapeEnd", NoHandle>>}
     ELSE {"shapeResize"} \X Handle)

\* A press on a shape that is not the active one makes it that.
Activated(s, x) ==
    IF s.shape # None /\ s.shape.id = x.id THEN s
    ELSE [Shaped(s, x) EXCEPT !.shapeDraft = None]

\* handle_left_button_down.  How near a shape the pointer is is left open; of
\* several handles under it the code takes the first.
GrabShape(s, hit, p) ==
    [Drafted([s EXCEPT !.shapeDraft = None], s.shape) EXCEPT !.draft = None,
        !.drag = [mode |-> hit[1], handle |-> hit[2], from |-> p,
                  selection |-> s.selection, shape |-> s.shape]]

PressedShape(s, p) ==
    UNION {{GrabShape(Activated(s, x), hit, p): hit \in ShapeHits(x)}:
              x \in ({s.shape} \ {None}) \cup s.candidates}

PressedSelection(s, p) ==
    LET begin(m, h, r) ==
          [Selected(s, r) EXCEPT !.draft = None,
             !.drag = [mode |-> m, handle |-> h, from |-> p, selection |-> r, shape |-> None]]
        on == {h \in Handle: OnHandle(s.selection, h, p)}
    IN IF s.selection = None THEN {begin("create", NoHandle, Spanned(p, p))}
       ELSE IF on # {} THEN {begin("resize", h, s.selection): h \in on}
       ELSE IF Covers(s.selection, p) THEN {begin("move", NoHandle, s.selection)}
       ELSE {}

PressedDraft(s, p) ==
    IF s.selection = None THEN {}
    ELSE IF ~Covers(s.selection, p) THEN {}
    ELSE {[s EXCEPT
             !.draft = IF s.mode = "line" THEN [start |-> p, end |-> p] ELSE Spanned(p, p),
             !.drag = [mode |-> s.mode, handle |-> NoHandle, from |-> p,
                       selection |-> s.selection, shape |-> None]]}

Pressed(s, p) ==
    PressedShape(s, p) \cup
      IF s.mode = "selection" THEN PressedSelection(s, p) ELSE PressedDraft(s, p)

----------------------------------------------------------------------------
(* The window's thread. *)

InBound(s) == s.rev + s.shapeRev <= MaxRevision
Put(s) == state' = s /\ InBound(s)

Down(p) ==
    /\ shown
    /\ state.drag = NoDrag
    /\ \E s \in Pressed(state, p): Put(s) /\ Tell(s)
    /\ last' = None
    /\ UNCHANGED <<shown, request, owed>>

\* An event that comes too soon after the last one is not sent.
Move(p) ==
    /\ shown
    /\ state.drag # NoDrag
    /\ Put(Dragged(state, p))
    /\ Tell(Dragged(state, p)) \/ UNCHANGED page
    /\ last' = p
    /\ UNCHANGED <<shown, request, owed>>

\* The pointer moves over another part of the window.
Hover ==
    /\ shown
    /\ state.drag = NoDrag
    /\ Tell(state)
    /\ UNCHANGED <<state, shown, request, owed, last>>

\* (mutant) The release ends the drag where the last move left it.
UpAtLastMove(p) ==
    /\ shown
    /\ state.drag # NoDrag
    /\ LET s == Dropped(state) IN Put(s) /\ Tell(s)
    /\ last' = None
    /\ UNCHANGED <<shown, request, owed>>

\* The release takes the pointer's last place first.
Up(p) ==
    /\ shown
    /\ state.drag # NoDrag
    /\ LET s == Dropped(Dragged(state, p)) IN Put(s) /\ Tell(s)
    /\ last' = None
    /\ UNCHANGED <<shown, request, owed>>

CaptureLost ==
    /\ shown
    /\ state.drag # NoDrag
    /\ state' = Abandoned(state)
    /\ Tell(Abandoned(state))
    /\ last' = None
    /\ UNCHANGED <<shown, request, owed>>

\* What the window shows is drawn after every turn of the thread's loop; when that
\* fails (report_render_failure) the window is hidden, and the page is told.
RenderFails ==
    /\ shown' = FALSE
    /\ state' = IF shown THEN Abandoned(state) ELSE state
    /\ Tell(state)
    /\ last' = None
    /\ UNCHANGED <<request, owed>>

\* native_interaction_window_proc.
Pointer == \E p \in Point: Down(p) \/ Move(p) \/ Up(p)

----------------------------------------------------------------------------
(* The service. *)

\* prepare_session: the revisions begin again, and so does the page.
Prepare ==
    /\ request = "none"
    /\ ~shown
    /\ state # NewState
    /\ state' = NewState
    /\ page' = None
    /\ UNCHANGED <<shown, request, owed, last>>

\* (mutant) The page's request is taken during a drag too.
UpdatedInDrag(s, mode, r, x, more) ==
    [Shaped(IF r = None THEN s ELSE Selected(s, r), x) EXCEPT !.candidates = more]

\* update_runtime in the window's thread; nothing is changed during a drag.
Updated(s, mode, r, x, more) ==
    LET t == Shaped(IF r = None THEN s ELSE Selected(s, r), x)
        u == IF mode # "selection" \/ x = None THEN Drafted(t, None) ELSE t
    IN IF s.drag # NoDrag THEN s
       ELSE [u EXCEPT !.mode = mode, !.candidates = more,
                      !.draft = IF mode = s.mode THEN @ ELSE None]

UpdateRuntime(mode, r, x, more) ==
    /\ request = "none"
    /\ LET rect == IF r = None THEN None ELSE ToPhysical(r)
           shape == IF x = None THEN None ELSE ToShape(x)
           shapes == {ToShape(y): y \in more} \ {None}
       IN Put(Updated(state, mode, rect, shape, shapes))
    /\ request' \in {"show", "hide"}
    /\ UNCHANGED <<shown, owed, page, last>>

ShowForPage ==
    /\ request = "show"
    /\ shown' = TRUE
    /\ request' = "read"
    /\ UNCHANGED <<state, owed, page, last>>

\* Hiding releases the capture, and so gives the drag up.
HideForPage ==
    /\ request = "hide"
    /\ shown' = FALSE
    /\ state' = Abandoned(state)
    /\ IF state.drag = NoDrag THEN UNCHANGED page ELSE Tell(Abandoned(state))
    /\ request' = "read"
    /\ last' = None
    /\ UNCHANGED owed

ReadState ==
    /\ request = "read"
    /\ owed = None
    /\ owed' = View(state)
    /\ UNCHANGED <<state, shown, request, page, last>>

SendState ==
    /\ owed # None
    /\ page' = Newer(owed)
    /\ owed' = None
    /\ request' = "none"
    /\ UNCHANGED <<state, shown, last>>

Next ==
    \/ Pointer \/ Hover \/ CaptureLost \/ RenderFails
    \/ Prepare
    \/ \E mode \in Mode, r \in PageRects \cup {None},
          x \in PageShapes \cup {None}, more \in {{}, PageShapes}:
            UpdateRuntime(mode, r, x, more)
    \/ ShowForPage \/ HideForPage \/ ReadState \/ SendState

Spec == Init /\ [][Next]_vars

----------------------------------------------------------------------------
(* Properties. *)

\* While it is dragged the selection is what the drag's beginning and the pointer's
\* last place make of it: nothing the page asks for comes between.
DragFollowsPointer ==
    state.drag.mode \in SelectionDrags /\ last # None =>
        state.selection = DraggedSelection(state.drag, last)

\* The selection a drag leaves is the one for the place of the release, even when
\* no move was reported for it (handle_left_button_up).
ReleaseTakesLastPoint ==
    [][\A p \in Point:
         Up(p) /\ state.drag.mode \in SelectionDrags =>
             state'.selection = DraggedSelection(state.drag, p)]_vars

\* A selection reaches beyond the display only by the least size a handle leaves
\* (resize_selection_rect), and never at the low side.
SelectionOnDisplay ==
    state.selection # None => \A i \in Axes:
        LET s == state.selection[i]
        IN s.lo >= 0 /\ s.lo < Extent[i] /\ (High(s) <= Extent[i] \/ s.size <= MinSize)

\* What is being drawn stays within the selection.
DraftInSelection ==
    state.drag.mode \in DraftDrags /\ state.draft # None =>
        IF state.drag.mode = "rect"
          THEN \A i \in Axes: /\ state.selection[i].lo <= state.draft[i].lo
                              /\ High(state.draft[i]) <= High(state.selection[i])
          ELSE Covers(state.selection, state.draft.start) /\ Covers(state.selection, state.draft.end)

\* A state the service read before a drag and sends after it does not bring an old
\* selection or shape back: once the window is at rest the page has its own.
PageHasTheSelection ==
    request = "none" /\ state.drag = NoDrag /\ page # None =>
        page.selection = state.selection /\ page.shape = state.shape
=============================================================================
