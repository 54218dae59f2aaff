------------------------ MODULE NativeSelectionProofs ------------------------
(***************************************************************************)
(* Proofs about NativeSelection, for displays of every size, every scale   *)
(* of the page's units, any shapes and requests of the page, and any       *)
(* number of changes: TypeCorrect, DragCorrect, PageCorrect,               *)
(* ReleaseCorrect, DisplayCorrect and DraftCorrect.  They rest on IInv     *)
(* (the drag, and what the page and the service know) and on Placed (where *)
(* the selection is), which every step keeps.                              *)
(***************************************************************************)
EXTENDS NativeSelection, TLAPS

-----------------------------------------------------------------------------
(* Geometry: the operations stay within their types. *)

USE DEF Spot

LEMMA Clamped ==
    ASSUME NEW v \in Int, NEW lo \in Int, NEW hi \in Int
    PROVE  /\ Clamp(v, lo, hi) \in Int
           /\ lo <= hi => lo <= Clamp(v, lo, hi) /\ Clamp(v, lo, hi) <= hi
BY DEF Clamp

LEMMA Extents ==
    ASSUME NEW i \in Axes
    PROVE  Extent[i] \in Nat /\ MinSize \in Nat \ {0} /\ MinSize <= Extent[i]
BY GeometryAssumption

LEMMA NoneIsNoShape == None \notin Rect /\ None \notin Shape /\ None \notin Told
BY NativeSelectionAssumption

LEMMA PointIsSpot == ASSUME NEW p \in Point PROVE p \in Spot
<1>1. \A x \in Pixels: x \in Int
  BY Extents DEF Pixels
<1> QED
  BY <1>1 DEF Point

LEMMA IntervalParts ==
    ASSUME NEW s \in Interval
    PROVE  s.lo \in Int /\ s.size \in Nat \ {0} /\ High(s) \in Int /\ High(s) = s.lo + s.size
BY DEF Interval, High

LEMMA RectParts ==
    ASSUME NEW r \in Rect, NEW i \in Axes
    PROVE  r[i] \in Interval
BY DEF Rect

LEMMA SpanType ==
    ASSUME NEW a \in Int, NEW b \in Int
    PROVE  Span(a, b) \in Interval
BY DEF Span, Smaller, Larger, Interval

LEMMA SpannedType ==
    ASSUME NEW p \in Spot, NEW q \in Spot
    PROVE  Spanned(p, q) \in Rect
BY SpanType DEF Spanned, Rect

LEMMA ShiftType ==
    ASSUME NEW s \in Interval, NEW delta \in Int, NEW extent \in Int
    PROVE  Shift(s, delta, extent) \in Interval
BY IntervalParts DEF Shift, Clamp, Larger, Interval

LEMMA ShiftedType ==
    ASSUME NEW r \in Rect, NEW p \in Spot, NEW q \in Spot
    PROVE  Shifted(r, p, q) \in Rect
<1>1. ASSUME NEW i \in Axes PROVE Shift(r[i], q[i] - p[i], Extent[i]) \in Interval
  BY RectParts, Extents, ShiftType
<1> QED
  BY <1>1 DEF Shifted, Rect

LEMMA StretchType ==
    ASSUME NEW s \in Interval, NEW side, NEW v \in Int, NEW extent \in Int,
           NEW least \in Nat \ {0}
    PROVE  Stretch(s, side, v, extent, least) \in Interval
BY IntervalParts DEF Stretch, Clamp, Larger, Smaller, Interval

LEMMA StretchedType ==
    ASSUME NEW r \in Rect, NEW h, NEW p \in Spot
    PROVE  Stretched(r, h, p) \in Rect
<1>1. ASSUME NEW i \in Axes PROVE Stretch(r[i], h[i], p[i], Extent[i], MinSize) \in Interval
  BY RectParts, Extents, StretchType
<1> QED
  BY <1>1 DEF Stretched, Rect

LEMMA CutType ==
    ASSUME NEW s \in Interval, NEW b \in Interval
    PROVE  Cut(s, b) \in Interval
BY IntervalParts DEF Cut, Larger, Smaller, Interval

LEMMA CutToType ==
    ASSUME NEW r \in Rect, NEW b \in Rect
    PROVE  CutTo(r, b) \in Rect
<1>1. ASSUME NEW i \in Axes PROVE Cut(r[i], b[i]) \in Interval
  BY RectParts, CutType
<1> QED
  BY <1>1 DEF CutTo, Rect

LEMMA NearestType ==
    ASSUME NEW p \in Spot, NEW r \in Rect
    PROVE  NearestIn(p, r) \in Spot
<1>1. ASSUME NEW i \in Axes
      PROVE  Clamp(p[i], r[i].lo, Larger(High(r[i]) - 1, r[i].lo)) \in Int
  BY RectParts, IntervalParts DEF Clamp, Larger
<1> QED
  BY <1>1 DEF NearestIn

LEMMA FloorType ==
    ASSUME NEW v \in Int
    PROVE  Floor(v) \in Int /\ Ceiling(v) \in Int
BY GeometryAssumption DEF Floor, Ceiling

LEMMA ToPhysicalType ==
    ASSUME NEW r \in Rect
    PROVE  ToPhysical(r) \in Selection
<1> DEFINE rect == [i \in Axes |-> InPixels(r[i], Extent[i])]
<1>1. ASSUME NEW i \in Axes, rect[i].size > 0 PROVE rect[i] \in Interval
  <2>1. r[i].lo \in Int /\ High(r[i]) \in Int /\ Extent[i] \in Nat
    BY RectParts, IntervalParts, Extents
  <2>2. Floor(r[i].lo) \in Int /\ Ceiling(High(r[i])) \in Int
    BY <2>1, FloorType
  <2> QED
    BY <1>1, <2>1, <2>2 DEF InPixels, Interval, Clamp
<1>2. (\A i \in Axes: rect[i].size > 0) => rect \in Rect
  BY <1>1 DEF Rect
<1> QED
  BY <1>2 DEF ToPhysical, Selection

LEMMA ToShapeType ==
    ASSUME NEW x \in Shape
    PROVE  ToShape(x) \in {None} \cup Shape
<1>1. ASSUME NEW p \in Spot PROVE PixelAt(p) \in Spot
  BY FloorType DEF PixelAt, Larger
<1>2. x.start \in Spot /\ x.end \in Spot
  BY DEF Shape
<1>3. PixelAt(x.start) \in Spot /\ PixelAt(x.end) \in Spot
  BY <1>1, <1>2
<1>4. [x EXCEPT !.start = PixelAt(x.start), !.end = PixelAt(x.end)] \in Shape
  BY <1>3 DEF Shape
<1> QED
  BY <1>4 DEF ToShape

LEMMA AroundType ==
    ASSUME NEW x \in Shape
    PROVE  Around(x) \in Rect
<1>1. x.start \in Spot /\ x.end \in Spot
  BY DEF Shape
<1> QED
  BY <1>1, SpanType DEF Around, Rect

LEMMA OffsetType ==
    ASSUME NEW s \in Interval, NEW delta \in Int, NEW b \in Interval
    PROVE  Offset(s, delta, b) \in Int
BY IntervalParts DEF Offset, Clamp, Larger

\* A shape with other ends.
LEMMA EndsMoved ==
    ASSUME NEW x \in Shape, NEW p \in Spot, NEW q \in Spot
    PROVE  /\ [x EXCEPT !.start = p, !.end = q] \in Shape
           /\ [x EXCEPT !.start = p] \in Shape
           /\ [x EXCEPT !.end = q] \in Shape
BY DEF Shape

LEMMA MovedType ==
    ASSUME NEW x \in Shape, NEW from \in Spot, NEW p \in Spot, NEW b \in Rect
    PROVE  MovedShape(x, from, p, b) \in Shape
<1> DEFINE by(i) == Offset(Around(x)[i], p[i] - from[i], b[i])
           start == [i \in Axes |-> x.start[i] + by(i)]
           end == [i \in Axes |-> x.end[i] + by(i)]
<1>1. x.start \in Spot /\ x.end \in Spot
  BY DEF Shape
<1>2. ASSUME NEW i \in Axes PROVE by(i) \in Int
  BY AroundType, RectParts, OffsetType
<1>3. start \in Spot /\ end \in Spot
  BY <1>1, <1>2
<1>4. MovedShape(x, from, p, b) = [x EXCEPT !.start = start, !.end = end]
  BY DEF MovedShape
<1> HIDE DEF start, end
<1>5. [x EXCEPT !.start = start, !.end = end] \in Shape
  BY <1>3, EndsMoved, Zenon
<1> QED
  BY <1>4, <1>5, Zenon

LEMMA ResizedType ==
    ASSUME NEW x \in Shape, NEW h, NEW p \in Spot, NEW b \in Rect
    PROVE  ResizedShape(x, h, p, b) \in Shape
<1> DEFINE box(i) == [lo |-> Around(x)[i].lo - b[i].lo, size |-> Around(x)[i].size]
           side(i) == Stretch(box(i), h[i], p[i] - b[i].lo, b[i].size, MinShape)
           start == [i \in Axes |-> b[i].lo + side(i).lo]
           end == [i \in Axes |-> b[i].lo + High(side(i))]
<1>1. ASSUME NEW i \in Axes PROVE side(i) \in Interval
  <2>1. Around(x)[i] \in Interval /\ b[i] \in Interval
    BY AroundType, RectParts
  <2>2. box(i) \in Interval /\ p[i] - b[i].lo \in Int /\ b[i].size \in Int
    BY <2>1 DEF Interval
  <2> QED
    BY <2>2, StretchType, GeometryAssumption
<1>2. ASSUME NEW i \in Axes PROVE b[i].lo + side(i).lo \in Int /\ b[i].lo + High(side(i)) \in Int
  <2>1. b[i].lo \in Int
    BY RectParts, IntervalParts
  <2> HIDE DEF side
  <2> QED
    BY <1>1, <2>1, IntervalParts
<1>3. start \in Spot /\ end \in Spot
  BY <1>2
<1>4. ResizedShape(x, h, p, b) = [x EXCEPT !.start = start, !.end = end]
  BY DEF ResizedShape
<1> HIDE DEF start, end
<1>5. [x EXCEPT !.start = start, !.end = end] \in Shape
  BY <1>3, EndsMoved, Zenon
<1> QED
  BY <1>4, <1>5, Zenon

-----------------------------------------------------------------------------
(* Changes of a state. *)

\* A drag that has what its mode needs.
WellBegun(d) ==
    /\ d.mode \in {"move", "resize"} => d.selection # None
    /\ d.mode \in ShapeDrags => d.shape # None

LEMMA StateParts ==
    ASSUME NEW s \in State
    PROVE  /\ s.mode \in Mode /\ s.selection \in Selection /\ s.shape \in {None} \cup Shape
           /\ s.shapeDraft \in {None} \cup Shape /\ s.drag \in Drag
           /\ s.candidates \in SUBSET Shape /\ s.draft \in Selection \cup Segment
           /\ s.rev \in Nat /\ s.shapeRev \in Nat
BY DEF State

LEMMA DragParts ==
    ASSUME NEW d \in Drag
    PROVE  /\ d.from \in Spot /\ d.selection \in Selection /\ d.shape \in {None} \cup Shape
           /\ d.mode \in {"none"} \cup SelectionDrags \cup DraftDrags \cup ShapeDrags
BY DEF Drag

\* t is s with a change in it: what differs for the page has a newer revision.
Follows(t, s) ==
    /\ t \in State
    /\ s.rev <= t.rev /\ s.shapeRev <= t.shapeRev
    /\ s.rev = t.rev => t.selection = s.selection
    /\ s.shapeRev = t.shapeRev => t.shape = s.shape

LEMMA FollowsItself == ASSUME NEW s \in State PROVE Follows(s, s)
BY StateParts DEF Follows

LEMMA FollowsOn ==
    ASSUME NEW s \in State, NEW t, NEW u, Follows(t, s), Follows(u, t)
    PROVE  Follows(u, s)
<1>1. t \in State /\ u \in State
  BY DEF Follows
<1>2. /\ s.rev \in Nat /\ t.rev \in Nat /\ u.rev \in Nat
      /\ s.shapeRev \in Nat /\ t.shapeRev \in Nat /\ u.shapeRev \in Nat
  BY <1>1, StateParts
<1> QED
  BY <1>1, <1>2 DEF Follows

LEMMA SelectedFollows ==
    ASSUME NEW s \in State, NEW r \in Selection
    PROVE  /\ Follows(Selected(s, r), s)
           /\ Selected(s, r).selection = r
           /\ Selected(s, r).drag = s.drag
           /\ Selected(s, r).draft = s.draft
           /\ Selected(s, r).mode = s.mode
           /\ Selected(s, r).shape = s.shape
<1>1. CASE s.selection = r
  BY <1>1, FollowsItself DEF Selected
<1>2. CASE s.selection # r
  <2> DEFINE t == [s EXCEPT !.selection = r, !.rev = s.rev + 1]
  <2>1. s.rev \in Nat /\ s.rev + 1 \in Nat /\ s.shapeRev \in Nat
    BY StateParts
  <2>2. t \in State
    BY <2>1, Zenon DEF State
  <2>3. /\ t.selection = r /\ t.drag = s.drag /\ t.draft = s.draft /\ t.mode = s.mode
        /\ t.shape = s.shape /\ t.rev = s.rev + 1 /\ t.shapeRev = s.shapeRev
    BY DEF State
  <2>4. Selected(s, r) = t
    BY <1>2 DEF Selected
  <2> HIDE DEF t
  <2> QED
    BY <2>1, <2>2, <2>3, <2>4 DEF Follows
<1> QED
  BY <1>1, <1>2

LEMMA ShapedFollows ==
    ASSUME NEW s \in State, NEW x \in {None} \cup Shape
    PROVE  /\ Follows(Shaped(s, x), s)
           /\ Shaped(s, x).selection = s.selection
           /\ Shaped(s, x).shape = x
           /\ Shaped(s, x).drag = s.drag
           /\ Shaped(s, x).draft = s.draft
           /\ Shaped(s, x).mode = s.mode
<1>1. CASE s.shape = x
  BY <1>1, FollowsItself DEF Shaped
<1>2. CASE s.shape # x
  <2> DEFINE t == [s EXCEPT !.shape = x, !.shapeRev = s.shapeRev + 1]
  <2>1. s.shapeRev \in Nat /\ s.shapeRev + 1 \in Nat /\ s.rev \in Nat
    BY StateParts
  <2>2. t \in State
    BY <2>1, Zenon DEF State
  <2>3. /\ t.selection = s.selection /\ t.drag = s.drag /\ t.draft = s.draft /\ t.mode = s.mode
        /\ t.shape = x /\ t.rev = s.rev /\ t.shapeRev = s.shapeRev + 1
    BY DEF State
  <2>4. Shaped(s, x) = t
    BY <1>2 DEF Shaped
  <2> HIDE DEF t
  <2> QED
    BY <2>1, <2>2, <2>3, <2>4 DEF Follows
<1> QED
  BY <1>1, <1>2

LEMMA DraftedFollows ==
    ASSUME NEW s \in State, NEW x \in {None} \cup Shape
    PROVE  /\ Follows(Drafted(s, x), s)
           /\ Drafted(s, x).selection = s.selection
           /\ Drafted(s, x).shape = s.shape
           /\ Drafted(s, x).drag = s.drag
           /\ Drafted(s, x).draft = s.draft
           /\ Drafted(s, x).mode = s.mode
<1>1. CASE s.shapeDraft = x
  BY <1>1, FollowsItself DEF Drafted
<1>2. CASE s.shapeDraft # x
  <2> DEFINE t == [s EXCEPT !.shapeDraft = x, !.shapeRev = s.shapeRev + 1]
  <2>1. s.shapeRev \in Nat /\ s.shapeRev + 1 \in Nat /\ s.rev \in Nat
    BY StateParts
  <2>2. t \in State
    BY <2>1, Zenon DEF State
  <2>3. /\ t.selection = s.selection /\ t.drag = s.drag /\ t.draft = s.draft /\ t.mode = s.mode
        /\ t.shape = s.shape /\ t.rev = s.rev /\ t.shapeRev = s.shapeRev + 1
    BY DEF State
  <2>4. Drafted(s, x) = t
    BY <1>2 DEF Drafted
  <2> HIDE DEF t
  <2> QED
    BY <2>1, <2>2, <2>3, <2>4 DEF Follows
<1> QED
  BY <1>1, <1>2

\* The fields the page is not told of.
LEMMA DraftFollows ==
    ASSUME NEW s \in State, NEW x \in Selection \cup Segment
    PROVE  LET t == [s EXCEPT !.draft = x]
           IN /\ Follows(t, s) /\ t.draft = x /\ t.drag = s.drag /\ t.mode = s.mode
              /\ t.selection = s.selection /\ t.shape = s.shape
<1> DEFINE t == [s EXCEPT !.draft = x]
<1>1. t \in State /\ s.rev \in Nat /\ s.shapeRev \in Nat
  BY Zenon DEF State
<1>2. /\ t.draft = x /\ t.drag = s.drag /\ t.mode = s.mode /\ t.selection = s.selection
      /\ t.shape = s.shape /\ t.rev = s.rev /\ t.shapeRev = s.shapeRev
  BY DEF State
<1> HIDE DEF t
<1>3. Follows(t, s)
  BY <1>1, <1>2 DEF Follows
<1> QED
  BY <1>2, <1>3 DEF t

Grab(s, x, d) == [s EXCEPT !.draft = x, !.drag = d]

LEMMA GrabFollows ==
    ASSUME NEW s \in State, NEW x \in Selection \cup Segment, NEW d \in Drag
    PROVE  /\ Follows(Grab(s, x, d), s) /\ Grab(s, x, d).drag = d
           /\ Grab(s, x, d).selection = s.selection /\ Grab(s, x, d).draft = x
<1> DEFINE t == [s EXCEPT !.draft = x, !.drag = d]
<1>1. t \in State /\ s.rev \in Nat /\ s.shapeRev \in Nat
  BY Zenon DEF State
<1>2. /\ t.drag = d /\ t.draft = x /\ t.selection = s.selection
      /\ t.shape = s.shape /\ t.rev = s.rev /\ t.shapeRev = s.shapeRev
  BY DEF State
<1> HIDE DEF t
<1>3. Follows(t, s)
  BY <1>1, <1>2 DEF Follows
<1> QED
  BY <1>2, <1>3 DEF t, Grab

LEMMA UndraftedFollows ==
    ASSUME NEW s \in State
    PROVE  LET t == [s EXCEPT !.shapeDraft = None]
           IN /\ Follows(t, s) /\ t.draft = s.draft /\ t.drag = s.drag /\ t.mode = s.mode
              /\ t.selection = s.selection /\ t.shape = s.shape
<1> DEFINE t == [s EXCEPT !.shapeDraft = None]
<1>1. t \in State /\ s.rev \in Nat /\ s.shapeRev \in Nat
  BY Zenon DEF State
<1>2. /\ t.draft = s.draft /\ t.drag = s.drag /\ t.mode = s.mode /\ t.selection = s.selection
      /\ t.shape = s.shape /\ t.rev = s.rev /\ t.shapeRev = s.shapeRev
  BY DEF State
<1> HIDE DEF t
<1>3. Follows(t, s)
  BY <1>1, <1>2 DEF Follows
<1> QED
  BY <1>2, <1>3 DEF t

LEMMA NoDragType == NoDrag \in Drag /\ NoDrag.mode = "none"
BY DEF NoDrag, Drag, NoHandle, Side, Selection

LEMMA AbandonedFollows ==
    ASSUME NEW s \in State
    PROVE  /\ Follows(Abandoned(s), s) /\ Abandoned(s).drag = NoDrag
           /\ Abandoned(s).draft = None /\ View(Abandoned(s)) = View(s)
           /\ Abandoned(s).selection = s.selection
<1> DEFINE t == [s EXCEPT !.drag = NoDrag, !.draft = None, !.shapeDraft = None]
<1>1. t \in State /\ s.rev \in Nat /\ s.shapeRev \in Nat
  <2>1. None \in Selection \cup Segment
    BY DEF Selection
  <2> QED
    BY <2>1, NoDragType, Zenon DEF State
<1>2. /\ t.drag = NoDrag /\ t.draft = None /\ t.selection = s.selection
      /\ t.shape = s.shape /\ t.rev = s.rev /\ t.shapeRev = s.shapeRev
  BY DEF State
<1>3. t = Abandoned(s)
  BY DEF Abandoned
<1> HIDE DEF t
<1>4. Follows(t, s) /\ View(t) = View(s)
  BY <1>1, <1>2 DEF Follows, View
<1> QED
  BY <1>2, <1>3, <1>4

\* The end of a drag, for a shape and for anything else.
LEMMA EndedFollows ==
    ASSUME NEW s \in State
    PROVE  /\ LET t == [s EXCEPT !.shapeDraft = None, !.drag = NoDrag]
              IN Follows(t, s) /\ t.drag = NoDrag /\ t.selection = s.selection
           /\ LET t == [s EXCEPT !.draft = None, !.drag = NoDrag]
              IN Follows(t, s) /\ t.drag = NoDrag /\ t.selection = s.selection
<1>1. s.rev \in Nat /\ s.shapeRev \in Nat /\ NoDrag \in Drag /\ None \in Selection
  BY StateParts, NoDragType DEF Selection
<1>2. LET t == [s EXCEPT !.shapeDraft = None, !.drag = NoDrag]
      IN Follows(t, s) /\ t.drag = NoDrag /\ t.selection = s.selection
  <2> DEFINE t == [s EXCEPT !.shapeDraft = None, !.drag = NoDrag]
  <2>1. t \in State
    BY <1>1, Zenon DEF State
  <2>2. /\ t.drag = NoDrag /\ t.selection = s.selection /\ t.shape = s.shape
        /\ t.rev = s.rev /\ t.shapeRev = s.shapeRev
    BY DEF State
  <2> HIDE DEF t
  <2>3. Follows(t, s)
    BY <1>1, <2>1, <2>2 DEF Follows
  <2> QED
    BY <2>2, <2>3 DEF t
<1>3. LET t == [s EXCEPT !.draft = None, !.drag = NoDrag]
      IN Follows(t, s) /\ t.drag = NoDrag /\ t.selection = s.selection
  <2> DEFINE t == [s EXCEPT !.draft = None, !.drag = NoDrag]
  <2>1. t \in State
    BY <1>1, Zenon DEF State
  <2>2. /\ t.drag = NoDrag /\ t.selection = s.selection /\ t.shape = s.shape
        /\ t.rev = s.rev /\ t.shapeRev = s.shapeRev
    BY DEF State
  <2> HIDE DEF t
  <2>3. Follows(t, s)
    BY <1>1, <2>1, <2>2 DEF Follows
  <2> QED
    BY <2>2, <2>3 DEF t
<1> QED
  BY <1>2, <1>3

LEMMA DroppedFollows ==
    ASSUME NEW s \in State
    PROVE  /\ Follows(Dropped(s), s) /\ Dropped(s).drag = NoDrag
           /\ Dropped(s).selection = s.selection
<1>1. CASE s.drag.mode \in ShapeDrags /\ s.shapeDraft # None
  <2> DEFINE u == Shaped(s, s.shapeDraft)
             t == [u EXCEPT !.shapeDraft = None, !.drag = NoDrag]
  <2>1. s.shapeDraft \in {None} \cup Shape
    BY StateParts
  <2>2. Follows(u, s) /\ u.selection = s.selection
    BY <2>1, ShapedFollows
  <2>3. u \in State
    BY <2>2 DEF Follows
  <2> HIDE DEF u
  <2>4. Follows(t, u) /\ t.drag = NoDrag /\ t.selection = u.selection
    BY <2>3, EndedFollows, Zenon
  <2>5. Dropped(s) = t
    BY <1>1, Zenon DEF Dropped, u
  <2> HIDE DEF t
  <2> QED
    BY <2>2, <2>4, <2>5, FollowsOn
<1>2. CASE ~(s.drag.mode \in ShapeDrags /\ s.shapeDraft # None)
  <2>1. Dropped(s) = [s EXCEPT !.draft = None, !.drag = NoDrag]
    BY <1>2, Zenon DEF Dropped
  <2> QED
    BY <2>1, EndedFollows, Zenon
<1> QED
  BY <1>1, <1>2

-----------------------------------------------------------------------------
(* What a drag makes of a state. *)

LEMMA BoundsType == ASSUME NEW s \in State PROVE Bounds(s) \in Rect
<1>1. s.drag.from \in Spot /\ s.selection \in Selection
  BY StateParts, DragParts
<1> QED
  BY <1>1, SpannedType DEF Bounds, Selection

LEMMA DraggedSelectionType ==
    ASSUME NEW d \in Drag, WellBegun(d), d.mode \in SelectionDrags, NEW p \in Spot
    PROVE  DraggedSelection(d, p) \in Rect
<1>1. d.from \in Spot /\ (d.mode \in {"move", "resize"} => d.selection \in Rect)
  BY DragParts DEF WellBegun, Selection
<1>2. CASE d.mode = "create"
  <2>1. DraggedSelection(d, p) = Spanned(d.from, p)
    BY <1>2 DEF DraggedSelection
  <2> QED
    BY <1>1, <2>1, SpannedType
<1>3. CASE d.mode = "move"
  <2>1. DraggedSelection(d, p) = Shifted(d.selection, d.from, p)
    BY <1>3 DEF DraggedSelection
  <2> QED
    BY <1>1, <1>3, <2>1, ShiftedType
<1>4. CASE d.mode = "resize"
  <2>1. DraggedSelection(d, p) = Stretched(d.selection, d.handle, p)
    BY <1>4 DEF DraggedSelection
  <2> QED
    BY <1>1, <1>4, <2>1, StretchedType
<1> QED
  BY <1>2, <1>3, <1>4 DEF SelectionDrags

LEMMA DraggedShapeType ==
    ASSUME NEW s \in State, WellBegun(s.drag), s.drag.mode \in ShapeDrags, NEW p \in Spot
    PROVE  DraggedShape(s, p) \in Shape
<1>1. s.drag.shape \in Shape /\ s.drag.from \in Spot
  BY StateParts, DragParts DEF WellBegun
<1>2. Bounds(s) \in Rect /\ NearestIn(p, Bounds(s)) \in Spot
  BY BoundsType, NearestType
<1>3. CASE s.drag.mode = "shapeMove"
  <2>1. DraggedShape(s, p) = MovedShape(s.drag.shape, s.drag.from, p, Bounds(s))
    BY <1>3 DEF DraggedShape
  <2> QED
    BY <1>1, <1>2, <2>1, MovedType
<1>4. CASE s.drag.mode = "shapeStart"
  <2>1. DraggedShape(s, p) = [s.drag.shape EXCEPT !.start = NearestIn(p, Bounds(s))]
    BY <1>4 DEF DraggedShape
  <2> QED
    BY <1>1, <1>2, <2>1, EndsMoved
<1>5. CASE s.drag.mode = "shapeEnd"
  <2>1. DraggedShape(s, p) = [s.drag.shape EXCEPT !.end = NearestIn(p, Bounds(s))]
    BY <1>5 DEF DraggedShape
  <2> QED
    BY <1>1, <1>2, <2>1, EndsMoved
<1>6. CASE s.drag.mode = "shapeResize"
  <2>1. DraggedShape(s, p) = ResizedShape(s.drag.shape, s.drag.handle, p, Bounds(s))
    BY <1>6 DEF DraggedShape
  <2> QED
    BY <1>1, <1>2, <2>1, ResizedType
<1> QED
  BY <1>3, <1>4, <1>5, <1>6 DEF ShapeDrags

\* What is drawn is within the selection, which has the place it began at.
Drawn(s) ==
    s.drag.mode \in DraftDrags =>
      /\ s.selection \in Rect /\ Covers(s.selection, s.drag.from)
      /\ s.draft # None =>
           IF s.drag.mode = "rect" THEN Inside(s.draft, s.selection)
           ELSE Covers(s.selection, s.draft.start) /\ Covers(s.selection, s.draft.end)

LEMMA NearestCovered ==
    ASSUME NEW r \in Rect, NEW p \in Spot
    PROVE  Covers(r, NearestIn(p, r))
<1>1. ASSUME NEW i \in Axes
      PROVE  LET v == Clamp(p[i], r[i].lo, Larger(High(r[i]) - 1, r[i].lo))
             IN r[i].lo <= v /\ v < High(r[i])
  BY RectParts, IntervalParts DEF Clamp, Larger
<1> QED
  BY <1>1 DEF Covers, NearestIn

LEMMA CutInside ==
    ASSUME NEW r \in Rect, NEW from \in Spot, Covers(r, from), NEW p \in Spot
    PROVE  Inside(CutTo(Spanned(from, p), r), r)
<1>1. ASSUME NEW i \in Axes
      PROVE  LET s == Cut(Span(from[i], p[i]), r[i])
             IN r[i].lo <= s.lo /\ High(s) <= High(r[i])
  <2>1. r[i].lo \in Int /\ r[i].size \in Nat \ {0} /\ High(r[i]) = r[i].lo + r[i].size
    BY RectParts, IntervalParts
  <2>2. from[i] \in Int /\ p[i] \in Int /\ r[i].lo <= from[i] /\ from[i] < High(r[i])
    BY DEF Covers
  <2> QED
    BY <2>1, <2>2 DEF Cut, Span, Smaller, Larger, High
<1> QED
  BY <1>1 DEF Inside, CutTo, Spanned

LEMMA DraggedFollows ==
    ASSUME NEW s \in State, WellBegun(s.drag), s.drag.mode # "none", NEW p \in Spot
    PROVE  /\ Follows(Dragged(s, p), s) /\ Dragged(s, p).drag = s.drag
           /\ s.drag.mode \in SelectionDrags =>
                Dragged(s, p).selection = DraggedSelection(s.drag, p)
           /\ s.drag.mode \notin SelectionDrags => Dragged(s, p).selection = s.selection
           /\ Drawn(s) => Drawn(Dragged(s, p))
<1> DEFINE d == s.drag
<1>1. d \in Drag /\ d.from \in Spot /\ d.mode \in SelectionDrags \cup DraftDrags \cup ShapeDrags
  BY StateParts, DragParts
<1>2. Bounds(s) \in Rect
  BY BoundsType
<1>3. CASE d.mode \in SelectionDrags
  <2>1. Dragged(s, p) = Selected(s, DraggedSelection(d, p))
    BY <1>3, Zenon DEF Dragged, SelectionDrags, ShapeDrags
  <2>2. DraggedSelection(d, p) \in Selection
    BY <1>1, <1>3, DraggedSelectionType DEF Selection
  <2> QED
    BY <1>3, <2>1, <2>2, SelectedFollows DEF Drawn, SelectionDrags, DraftDrags
<1>4. CASE d.mode = "line"
  <2> DEFINE x == [start |-> d.from, end |-> NearestIn(p, Bounds(s))]
  <2>1. Dragged(s, p) = [s EXCEPT !.draft = x]
    BY <1>4, Zenon DEF Dragged, SelectionDrags, ShapeDrags
  <2>2. x \in Selection \cup Segment
    BY <1>1, <1>2, NearestType DEF Segment
  <2>3. ASSUME s.selection \in Rect PROVE Covers(s.selection, NearestIn(p, Bounds(s)))
    <3>1. Bounds(s) = s.selection
      BY <2>3, NoneIsNoShape DEF Bounds
    <3> QED
      BY <2>3, <3>1, NearestCovered
  <2>4. x.start = d.from /\ x.end = NearestIn(p, Bounds(s))
    OBVIOUS
  <2> HIDE DEF x
  <2>5. Follows(Dragged(s, p), s) /\ Dragged(s, p).drag = d /\ Dragged(s, p).draft = x
        /\ Dragged(s, p).selection = s.selection
    BY <2>1, <2>2, DraftFollows
  <2>6. Drawn(s) => Drawn(Dragged(s, p))
    BY <1>4, <2>3, <2>4, <2>5 DEF Drawn, DraftDrags
  <2> QED
    BY <1>4, <2>5, <2>6 DEF SelectionDrags
<1>5. CASE d.mode = "rect"
  <2> DEFINE x == CutTo(Spanned(d.from, p), Bounds(s))
  <2>1. Dragged(s, p) = [s EXCEPT !.draft = x]
    BY <1>5, Zenon DEF Dragged, SelectionDrags, ShapeDrags
  <2>2. x \in Selection \cup Segment
    BY <1>1, <1>2, SpannedType, CutToType DEF Selection
  <2>3. ASSUME s.selection \in Rect, Covers(s.selection, d.from) PROVE Inside(x, s.selection)
    <3>1. Bounds(s) = s.selection
      BY <2>3, NoneIsNoShape DEF Bounds
    <3> QED
      BY <1>1, <2>3, <3>1, CutInside
  <2> HIDE DEF x
  <2>4. Follows(Dragged(s, p), s) /\ Dragged(s, p).drag = d /\ Dragged(s, p).draft = x
        /\ Dragged(s, p).selection = s.selection
    BY <2>1, <2>2, DraftFollows
  <2>5. Drawn(s) => Drawn(Dragged(s, p))
    BY <1>5, <2>3, <2>4 DEF Drawn, DraftDrags
  <2> QED
    BY <1>5, <2>4, <2>5 DEF SelectionDrags
<1>6. CASE d.mode \in ShapeDrags
  <2>1. Dragged(s, p) = Drafted(s, DraggedShape(s, p))
    BY <1>6 DEF Dragged, SelectionDrags, ShapeDrags
  <2>2. DraggedShape(s, p) \in {None} \cup Shape
    BY <1>6, DraggedShapeType
  <2> QED
    BY <1>6, <2>1, <2>2, DraftedFollows DEF SelectionDrags, ShapeDrags, Drawn, DraftDrags
<1> QED
  BY <1>1, <1>3, <1>4, <1>5, <1>6 DEF DraftDrags

-----------------------------------------------------------------------------
(* What a press begins. *)

\* The pointer has begun a drag at p, which has what it needs.
Began(t, s, p) ==
    /\ Follows(t, s) /\ WellBegun(t.drag) /\ t.drag.mode # "none"
    /\ t.drag.from = p /\ Drawn(t)
    /\ {t.selection, t.drag.selection} \subseteq {s.selection, Spanned(p, p)}

LEMMA ActivatedFollows ==
    ASSUME NEW s \in State, NEW x \in Shape
    PROVE  /\ Follows(Activated(s, x), s) /\ Activated(s, x).shape # None
           /\ Activated(s, x).selection = s.selection
<1>1. CASE s.shape # None /\ s.shape.id = x.id
  BY <1>1, FollowsItself DEF Activated
<1>2. CASE ~(s.shape # None /\ s.shape.id = x.id)
  <2> DEFINE u == Shaped(s, x)
             t == [u EXCEPT !.shapeDraft = None]
  <2>1. Follows(u, s) /\ u.shape = x /\ u.selection = s.selection
    BY ShapedFollows
  <2>2. u \in State
    BY <2>1 DEF Follows
  <2> HIDE DEF u
  <2>3. Follows(t, u) /\ t.shape = u.shape /\ t.selection = u.selection
    BY <2>2, UndraftedFollows, Zenon
  <2>4. Activated(s, x) = t
    BY <1>2, Zenon DEF Activated, u
  <2>5. x # None
    BY NoneIsNoShape
  <2> HIDE DEF t
  <2> QED
    BY <2>1, <2>3, <2>4, <2>5, FollowsOn
<1> QED
  BY <1>1, <1>2

LEMMA HitParts ==
    ASSUME NEW x, NEW hit \in ShapeHits(x)
    PROVE  hit[1] \in ShapeDrags /\ hit[2] \in [Axes -> Side]
<1>1. NoHandle \in [Axes -> Side]
  BY DEF NoHandle, Side
<1>2. \A h \in Handle: h \in [Axes -> Side]
  BY DEF Handle
<1>3. hit \in ShapeDrags \X [Axes -> Side]
  BY <1>1, <1>2 DEF ShapeHits, ShapeDrags
<1> QED
  BY <1>3

LEMMA GrabShapeBegins ==
    ASSUME NEW s \in State, s.shape # None, NEW x, NEW hit \in ShapeHits(x), NEW p \in Spot
    PROVE  Began(GrabShape(s, hit, p), s, p)
<1> DEFINE t == [s EXCEPT !.shapeDraft = None]
           u == Drafted(t, s.shape)
           d == [mode |-> hit[1], handle |-> hit[2], from |-> p,
                 selection |-> s.selection, shape |-> s.shape]
           v == Grab(u, None, d)
<1>1. /\ Follows(t, s) /\ t.selection = s.selection
      /\ s.shape \in {None} \cup Shape /\ s.selection \in Selection
  BY UndraftedFollows, StateParts, Zenon
<1>2. t \in State
  BY <1>1 DEF Follows
<1>3. hit[1] \in ShapeDrags /\ hit[2] \in [Axes -> Side]
  BY HitParts
<1>4. d \in Drag
  BY <1>1, <1>3 DEF Drag
<1>5. /\ WellBegun(d) /\ d.mode \notin {"none"} \cup DraftDrags
      /\ d.from = p /\ d.selection = s.selection
  BY <1>3 DEF WellBegun, ShapeDrags, DraftDrags
<1>6. GrabShape(s, hit, p) = v
  BY Zenon DEF GrabShape, Grab
<1>7. None \in Selection \cup Segment
  BY DEF Selection
<1> HIDE DEF t, d
<1>8. Follows(u, t) /\ u.selection = s.selection
  BY <1>1, <1>2, DraftedFollows
<1>9. u \in State
  BY <1>8 DEF Follows
<1> HIDE DEF u
<1>10. Follows(v, u) /\ v.drag = d /\ v.selection = u.selection
  BY <1>4, <1>7, <1>9, GrabFollows
<1> HIDE DEF v
<1>11. Follows(v, s)
  BY <1>1, <1>2, <1>8, <1>9, <1>10, FollowsOn
<1> QED
  BY <1>5, <1>6, <1>8, <1>10, <1>11 DEF Began, Drawn

LEMMA PressedShapeBegins ==
    ASSUME NEW s \in State, NEW p \in Spot, NEW t \in PressedShape(s, p)
    PROVE  Began(t, s, p)
<1>1. PICK x \in ({s.shape} \ {None}) \cup s.candidates:
        \E hit \in ShapeHits(x): t = GrabShape(Activated(s, x), hit, p)
  BY Zenon DEF PressedShape
<1>2. x \in Shape
  BY StateParts
<1>3. /\ Follows(Activated(s, x), s) /\ Activated(s, x).shape # None
      /\ Activated(s, x).selection = s.selection
  BY <1>2, ActivatedFollows
<1>4. Activated(s, x) \in State
  BY <1>3 DEF Follows
<1>5. Began(t, Activated(s, x), p)
  BY <1>1, <1>3, <1>4, GrabShapeBegins
<1> QED
  BY <1>3, <1>5, FollowsOn DEF Began

\* begin of PressedSelection.
Beginning(s, m, h, r, p) ==
    Grab(Selected(s, r), None,
         [mode |-> m, handle |-> h, from |-> p, selection |-> r, shape |-> None])

LEMMA BeginsSelection ==
    ASSUME NEW s \in State, NEW m \in SelectionDrags, NEW h \in [Axes -> Side],
           NEW p \in Spot, NEW r \in Rect, r \in {s.selection, Spanned(p, p)}
    PROVE  Began(Beginning(s, m, h, r, p), s, p)
<1> DEFINE d == [mode |-> m, handle |-> h, from |-> p, selection |-> r, shape |-> None]
           u == Selected(s, r)
           t == Beginning(s, m, h, r, p)
<1>1. d \in Drag
  BY DEF Drag, Selection
<1>2. /\ WellBegun(d) /\ d.mode \notin {"none"} \cup DraftDrags
      /\ d.from = p /\ d.selection = r
  <2>1. r # None
    BY NoneIsNoShape
  <2> QED
    BY <2>1 DEF WellBegun, SelectionDrags, ShapeDrags, DraftDrags
<1>3. Follows(u, s) /\ u.selection = r
  BY SelectedFollows DEF Selection
<1>4. u \in State
  BY <1>3 DEF Follows
<1>5. None \in Selection \cup Segment
  BY DEF Selection
<1>6. t = Grab(u, None, d)
  BY Zenon DEF Beginning
<1> HIDE DEF d, u, t
<1>7. Follows(t, u) /\ t.drag = d /\ t.selection = u.selection
  BY <1>1, <1>4, <1>5, <1>6, GrabFollows
<1>8. Began(t, s, p)
  BY <1>2, <1>3, <1>7, FollowsOn DEF Began, Drawn
<1> QED
  BY <1>8 DEF t

LEMMA PressedSelectionBegins ==
    ASSUME NEW s \in State, NEW p \in Spot, NEW t \in PressedSelection(s, p)
    PROVE  Began(t, s, p)
<1>1. NoHandle \in [Axes -> Side] /\ \A h \in Handle: h \in [Axes -> Side]
  BY DEF NoHandle, Side, Handle
<1>2. s.selection \in Selection
  BY StateParts
<1>3. CASE s.selection = None
  <2>1. t = Beginning(s, "create", NoHandle, Spanned(p, p), p)
    BY <1>3, Zenon DEF PressedSelection, Beginning, Grab
  <2> QED
    BY <1>1, <2>1, SpannedType, BeginsSelection DEF SelectionDrags
<1>4. CASE s.selection # None
  <2>1. s.selection \in Rect
    BY <1>2, <1>4 DEF Selection
  <2>2. \/ \E h \in Handle: t = Beginning(s, "resize", h, s.selection, p)
        \/ t = Beginning(s, "move", NoHandle, s.selection, p)
    BY <1>4, Zenon DEF PressedSelection, Beginning, Grab
  <2>3. CASE \E h \in Handle: t = Beginning(s, "resize", h, s.selection, p)
    BY <1>1, <2>1, <2>3, BeginsSelection DEF SelectionDrags
  <2>4. CASE t = Beginning(s, "move", NoHandle, s.selection, p)
    BY <1>1, <2>1, <2>4, BeginsSelection DEF SelectionDrags
  <2> QED
    BY <2>2, <2>3, <2>4
<1> QED
  BY <1>3, <1>4

LEMMA PressedDraftBegins ==
    ASSUME NEW s \in State, NEW p \in Spot, NEW t \in PressedDraft(s, p),
           s.mode # "selection"
    PROVE  Began(t, s, p)
<1> DEFINE x == IF s.mode = "line" THEN [start |-> p, end |-> p] ELSE Spanned(p, p)
           d == [mode |-> s.mode, handle |-> NoHandle, from |-> p,
                 selection |-> s.selection, shape |-> None]
<1>1. t = Grab(s, x, d)
  BY Zenon DEF PressedDraft, Grab
<1>2. s.mode \in DraftDrags /\ s.selection \in Selection
  BY StateParts DEF Mode
<1>3. d \in Drag
  BY <1>2 DEF Drag, NoHandle, Side
<1>4. WellBegun(d) /\ d.mode # "none" /\ d.from = p /\ d.selection = s.selection
  BY <1>2 DEF WellBegun, DraftDrags, ShapeDrags
<1>5. x \in Selection \cup Segment
  BY SpannedType DEF Selection, Segment
<1> HIDE DEF x, d
<1>6. /\ Follows(Grab(s, x, d), s) /\ Grab(s, x, d).drag = d
      /\ Grab(s, x, d).selection = s.selection /\ Grab(s, x, d).draft = x
  BY <1>3, <1>5, GrabFollows
<1>7. s.selection \in Rect /\ Covers(s.selection, p)
  <2>1. s.selection # None /\ Covers(s.selection, p)
    BY Zenon DEF PressedDraft
  <2> QED
    BY <1>2, <2>1 DEF Selection
<1>8. IF d.mode = "rect" THEN Inside(x, s.selection)
      ELSE Covers(s.selection, x.start) /\ Covers(s.selection, x.end)
  <2>1. d.mode = s.mode
    BY DEF d
  <2>2. CASE s.mode = "line"
    <3>1. x.start = p /\ x.end = p
      BY <2>2 DEF x
    <3> QED
      BY <1>7, <2>1, <2>2, <3>1
  <2>3. CASE s.mode = "rect"
    <3>1. x = Spanned(p, p)
      BY <2>3 DEF x
    <3>2. ASSUME NEW i \in Axes
          PROVE  /\ s.selection[i].lo <= Span(p[i], p[i]).lo
                 /\ High(Span(p[i], p[i])) <= High(s.selection[i])
      <4>1. s.selection[i].lo \in Int /\ High(s.selection[i]) \in Int /\ p[i] \in Int
        BY <1>7, RectParts, IntervalParts
      <4>2. s.selection[i].lo <= p[i] /\ p[i] < High(s.selection[i])
        BY <1>7 DEF Covers
      <4>3. Span(p[i], p[i]).lo = p[i] /\ High(Span(p[i], p[i])) = p[i] + 1
        BY <4>1 DEF Span, Smaller, Larger, High
      <4> QED
        BY <4>1, <4>2, <4>3
    <3> QED
      BY <2>1, <2>3, <3>1, <3>2 DEF Inside, Spanned
  <2> QED
    BY <1>2, <2>2, <2>3 DEF DraftDrags
<1> QED
  BY <1>1, <1>4, <1>6, <1>7, <1>8 DEF Began, Drawn

LEMMA PressedBegins ==
    ASSUME NEW s \in State, NEW p \in Spot, NEW t \in Pressed(s, p)
    PROVE  Began(t, s, p)
<1>1. CASE t \in PressedShape(s, p)
  BY <1>1, PressedShapeBegins
<1>2. CASE s.mode = "selection" /\ t \in PressedSelection(s, p)
  BY <1>2, PressedSelectionBegins
<1>3. CASE s.mode # "selection" /\ t \in PressedDraft(s, p)
  BY <1>3, PressedDraftBegins
<1> QED
  BY <1>1, <1>2, <1>3, Zenon DEF Pressed

-----------------------------------------------------------------------------
(* What the page's request makes of a state. *)

Settled(s, mode, more, x) == [s EXCEPT !.mode = mode, !.candidates = more, !.draft = x]

LEMMA SettledFollows ==
    ASSUME NEW s \in State, NEW mode \in Mode, NEW more \in SUBSET Shape,
           NEW x \in Selection \cup Segment
    PROVE  /\ Follows(Settled(s, mode, more, x), s)
           /\ Settled(s, mode, more, x).drag = s.drag
           /\ Settled(s, mode, more, x).selection = s.selection
<1> DEFINE t == [s EXCEPT !.mode = mode, !.candidates = more, !.draft = x]
<1>1. t \in State /\ s.rev \in Nat /\ s.shapeRev \in Nat
  BY Zenon DEF State
<1>2. /\ t.drag = s.drag /\ t.selection = s.selection
      /\ t.shape = s.shape /\ t.rev = s.rev /\ t.shapeRev = s.shapeRev
  BY DEF State
<1> HIDE DEF t, Settled
<1>3. Follows(t, s)
  BY <1>1, <1>2 DEF Follows
<1> QED
  BY <1>2, <1>3 DEF t, Settled

LEMMA UpdatedFollows ==
    ASSUME NEW s \in State, NEW mode \in Mode, NEW r \in Selection,
           NEW x \in {None} \cup Shape, NEW more \in SUBSET Shape
    PROVE  /\ Follows(Updated(s, mode, r, x, more), s)
           /\ Updated(s, mode, r, x, more).drag = s.drag
           /\ Updated(s, mode, r, x, more).selection \in {s.selection, r}
           /\ r = None => Updated(s, mode, r, x, more).selection = s.selection
           /\ s.drag # NoDrag => Updated(s, mode, r, x, more) = s
<1>1. CASE s.drag # NoDrag
  <2>1. Updated(s, mode, r, x, more) = s
    BY <1>1, Zenon DEF Updated
  <2> QED
    BY <2>1, FollowsItself
<1>2. CASE s.drag = NoDrag
  <2> DEFINE q == IF r = None THEN s ELSE Selected(s, r)
             t == Shaped(q, x)
             u == IF mode # "selection" \/ x = None THEN Drafted(t, None) ELSE t
             y == IF mode = s.mode THEN u.draft ELSE None
             v == Settled(u, mode, more, y)
  <2>1. /\ Follows(q, s) /\ q.drag = s.drag
        /\ q.selection = IF r = None THEN s.selection ELSE r
    BY SelectedFollows, FollowsItself
  <2>2. q \in State
    BY <2>1 DEF Follows
  <2> HIDE DEF q
  <2>3. Follows(t, q) /\ t.drag = q.drag /\ t.selection = q.selection
    BY <2>2, ShapedFollows
  <2>4. t \in State
    BY <2>3 DEF Follows
  <2> HIDE DEF t
  <2>5. Follows(u, t) /\ u.drag = t.drag /\ u.selection = t.selection
    BY <2>4, DraftedFollows, FollowsItself
  <2>6. u \in State
    BY <2>5 DEF Follows
  <2>7. Updated(s, mode, r, x, more) = v
    BY <1>2, Zenon DEF Updated, Settled, q, t
  <2> HIDE DEF u
  <2>8. y \in Selection \cup Segment
    BY <2>6, StateParts DEF Selection
  <2> HIDE DEF y
  <2>9. Follows(v, u) /\ v.drag = u.drag /\ v.selection = u.selection
    BY <2>6, <2>8, SettledFollows
  <2> HIDE DEF v
  <2>10. Follows(v, s)
    BY <2>1, <2>2, <2>3, <2>4, <2>5, <2>6, <2>9, FollowsOn
  <2> QED
    BY <1>2, <2>1, <2>3, <2>5, <2>7, <2>9, <2>10
<1> QED
  BY <1>1, <1>2

-----------------------------------------------------------------------------
(* What the page knows. *)

\* v was once told of s, or of a state s follows.
Known(v, s) ==
    /\ v \in Told
    /\ v.rev <= s.rev /\ v.shapeRev <= s.shapeRev
    /\ v.rev = s.rev => v.selection = s.selection
    /\ v.shapeRev = s.shapeRev => v.shape = s.shape

LEMMA ViewKnown == ASSUME NEW s \in State PROVE Known(View(s), s) /\ View(s) # None
<1>1. View(s) \in Told
  BY StateParts DEF View, Told
<1>2. View(s) # None
  BY <1>1, NoneIsNoShape
<1> QED
  BY <1>1, <1>2, StateParts DEF Known, View

LEMMA KnownOn ==
    ASSUME NEW s \in State, NEW t, Follows(t, s), NEW v, Known(v, s)
    PROVE  Known(v, t)
<1>1. t \in State /\ v \in Told
  BY DEF Follows, Known
<1>2. /\ s.rev \in Nat /\ t.rev \in Nat /\ v.rev \in Nat
      /\ s.shapeRev \in Nat /\ t.shapeRev \in Nat /\ v.shapeRev \in Nat
  BY <1>1, StateParts DEF Told
<1> QED
  BY <1>1, <1>2 DEF Follows, Known

LEMMA KnownAndNewer ==
    ASSUME NEW s \in State, NEW v, Known(v, s), v.rev >= s.rev, v.shapeRev >= s.shapeRev
    PROVE  v.selection = s.selection /\ v.shape = s.shape
<1>1. v.rev \in Nat /\ v.shapeRev \in Nat /\ s.rev \in Nat /\ s.shapeRev \in Nat
  BY StateParts DEF Known, Told
<1> QED
  BY <1>1 DEF Known

\* A state told as it is reaches the page, whatever the page had.
LEMMA NewestIsTaken ==
    ASSUME state \in State, NEW s, Follows(s, state), page = None \/ Known(page, state)
    PROVE  Newer(View(s)) = View(s)
<1>1. CASE page = None
  BY <1>1 DEF Newer
<1>2. CASE page # None
  <2>1. Known(page, s)
    BY <1>2, KnownOn
  <2>2. View(s).rev = s.rev /\ View(s).shapeRev = s.shapeRev
    BY DEF View
  <2>3. s \in State
    BY DEF Follows
  <2>4. /\ page.rev \in Nat /\ page.shapeRev \in Nat /\ s.rev \in Nat /\ s.shapeRev \in Nat
        /\ page.rev <= s.rev /\ page.shapeRev <= s.shapeRev
    BY <2>1, <2>3, StateParts DEF Known, Told
  <2>5. s.rev >= page.rev /\ s.shapeRev >= page.shapeRev
    BY <2>4
  <2> QED
    BY <2>2, <2>5, Zenon DEF Newer
<1> QED
  BY <1>1, <1>2

-----------------------------------------------------------------------------
(* The inductive invariant. *)

DragOK == WellBegun(state.drag) /\ (state.drag.mode = "none" => state.drag = NoDrag)

\* The page and the service have states the window was in; unless the pointer drags,
\* the page has its selection as soon as no request is under way, and one of the two
\* has it while the service owes the page a state.
PagesOK ==
    /\ page = None \/ Known(page, state)
    /\ owed = None \/ (Known(owed, state) /\ request = "read")
    /\ state.drag = NoDrag =>
         /\ request = "none" /\ page # None =>
              page.selection = state.selection /\ page.shape = state.shape
         /\ owed = None \/ View(state) \in {owed, page}

IInv == TypeOK /\ DragOK /\ DragFollowsPointer /\ PagesOK

LEMMA InvBegins == ASSUME Init PROVE IInv
<1>1. NewState \in State
  BY NoDragType DEF NewState, State, Mode, Selection
<1>2. NewState.drag = NoDrag
  BY DEF NewState
<1>3. TypeOK
  BY <1>1, <1>2, NoDragType DEF Init, TypeOK, ShapeDrags
<1>4. DragOK
  BY <1>2, NoDragType DEF Init, DragOK, WellBegun, ShapeDrags
<1>5. DragFollowsPointer
  BY DEF Init, DragFollowsPointer
<1>6. PagesOK
  BY DEF Init, PagesOK
<1> QED
  BY <1>3, <1>4, <1>5, <1>6 DEF IInv

\* Any change the page is told of at once keeps PagesOK.
LEMMA ToldInv ==
    ASSUME IInv, Follows(state', state), Tell(state'), UNCHANGED owed,
           owed = None \/ UNCHANGED request
    PROVE  PagesOK' /\ page' \in Told
<1>1. state \in State /\ (page = None \/ Known(page, state)) /\ (owed = None \/ Known(owed, state))
  BY DEF IInv, TypeOK, PagesOK
<1>2. page' = View(state')
  BY <1>1, NewestIsTaken DEF Tell
<1>3. state' \in State
  BY DEF Follows
<1>4. Known(View(state'), state')
  BY <1>3, ViewKnown
<1>5. owed = None \/ Known(owed, state')
  BY <1>1, KnownOn
<1>6. page'.selection = state'.selection /\ page'.shape = state'.shape
  BY <1>2 DEF View
<1>7. PagesOK'
  BY <1>2, <1>4, <1>5, <1>6, Zenon DEF IInv, PagesOK
<1> QED
  BY <1>2, <1>4, <1>7 DEF Known

-----------------------------------------------------------------------------
(* Each step keeps the invariant. *)

LEMMA DownKeeps == ASSUME IInv, NEW p \in Point, Down(p) PROVE IInv'
<1>1. state \in State /\ p \in Spot
  BY PointIsSpot DEF IInv, TypeOK
<1>2. state' \in Pressed(state, p) /\ Tell(state')
  BY DEF Down, Put
<1>3. Began(state', state, p)
  BY <1>1, <1>2, PressedBegins
<1>4. PagesOK' /\ page' \in Told
  BY <1>2, <1>3, ToldInv DEF Down, Began
<1>5. TypeOK'
  BY <1>3, <1>4 DEF IInv, TypeOK, Down, Began, Follows, WellBegun
<1>6. DragOK' /\ DragFollowsPointer'
  BY <1>3 DEF Down, Began, DragOK, DragFollowsPointer
<1> QED
  BY <1>4, <1>5, <1>6 DEF IInv

\* A drag that is under way can be carried on.
LEMMA UnderWay ==
    ASSUME IInv, state.drag # NoDrag
    PROVE  state \in State /\ WellBegun(state.drag) /\ state.drag.mode # "none"
BY DEF IInv, TypeOK, DragOK

LEMMA MoveKeeps == ASSUME IInv, NEW p \in Point, Move(p) PROVE IInv'
<1>1. state' = Dragged(state, p) /\ state.drag # NoDrag /\ p \in Spot
  BY PointIsSpot DEF Move, Put
<1>2. state \in State /\ WellBegun(state.drag) /\ state.drag.mode # "none"
  BY <1>1, UnderWay
<1>3. /\ Follows(state', state) /\ state'.drag = state.drag
      /\ state.drag.mode \in SelectionDrags =>
           state'.selection = DraggedSelection(state.drag, p)
  BY <1>1, <1>2, DraggedFollows
<1>4. PagesOK' /\ page' \in {None} \cup Told
  <2>1. CASE Tell(state')
    BY <1>3, <2>1, ToldInv DEF Move
  <2>2. CASE UNCHANGED page
    <3>1. page' = None \/ Known(page', state')
      BY <1>2, <1>3, <2>2, KnownOn DEF IInv, PagesOK
    <3>2. owed' = None \/ (Known(owed', state') /\ request' = "read")
      BY <1>2, <1>3, KnownOn DEF IInv, PagesOK, Move
    <3>3. state'.drag # NoDrag
      BY <1>1, <1>3
    <3>4. page' \in {None} \cup Told
      BY <2>2 DEF IInv, TypeOK
    <3> QED
      BY <3>1, <3>2, <3>3, <3>4 DEF PagesOK
  <2> QED
    BY <1>1, <2>1, <2>2 DEF Move
<1>5. last' = p /\ shown' = shown /\ request' = request /\ owed' = owed
  BY DEF Move
<1>6. TypeOK'
  BY <1>2, <1>3, <1>4, <1>5 DEF IInv, TypeOK, Follows, WellBegun
<1>7. DragOK'
  BY <1>2, <1>3 DEF DragOK, WellBegun
<1>8. DragFollowsPointer'
  BY <1>3, <1>5 DEF DragFollowsPointer
<1> QED
  BY <1>4, <1>6, <1>7, <1>8 DEF IInv

\* A step that leaves no drag, and tells the page of the state it leaves.
LEMMA RestKeeps ==
    ASSUME IInv, Follows(state', state), state'.drag = NoDrag, Tell(state'), UNCHANGED owed,
           owed = None \/ UNCHANGED request, request' \in {"none", "show", "hide", "read"},
           shown' \in BOOLEAN, last' \in {None} \cup Point
    PROVE  IInv'
<1>1. PagesOK' /\ page' \in Told
  BY ToldInv
<1>2. NoDrag.mode \notin SelectionDrags /\ NoDrag.mode \notin ShapeDrags
  BY NoDragType DEF SelectionDrags, ShapeDrags
<1>3. TypeOK'
  BY <1>1, <1>2 DEF IInv, TypeOK, Follows, SelectionDrags
<1>4. DragOK' /\ DragFollowsPointer'
  BY <1>2 DEF DragOK, DragFollowsPointer, WellBegun, SelectionDrags
<1> QED
  BY <1>1, <1>3, <1>4 DEF IInv

LEMMA UpKeeps == ASSUME IInv, NEW p \in Point, Up(p) PROVE IInv'
<1> DEFINE t == Dragged(state, p)
<1>1. state' = Dropped(t) /\ Tell(state') /\ state.drag # NoDrag /\ p \in Spot
  BY PointIsSpot DEF Up, Put
<1>2. state \in State /\ WellBegun(state.drag) /\ state.drag.mode # "none"
  BY <1>1, UnderWay
<1>3. Follows(t, state)
  BY <1>1, <1>2, DraggedFollows
<1>4. t \in State
  BY <1>3 DEF Follows
<1> HIDE DEF t
<1>5. Follows(state', t) /\ state'.drag = NoDrag
  BY <1>1, <1>4, DroppedFollows
<1>6. Follows(state', state)
  BY <1>2, <1>3, <1>5, FollowsOn
<1>7. /\ UNCHANGED <<shown, request, owed>> /\ last' = None
      /\ shown \in BOOLEAN /\ request \in {"none", "show", "hide", "read"}
  BY DEF Up, IInv, TypeOK
<1> QED
  BY <1>1, <1>5, <1>6, <1>7, RestKeeps

LEMMA HoverKeeps == ASSUME IInv, Hover PROVE IInv'
<1>1. state \in State /\ state' = state /\ Tell(state') /\ state'.drag = NoDrag
  BY DEF IInv, TypeOK, Hover, Tell
<1>2. /\ UNCHANGED <<shown, request, owed, last>> /\ last \in {None} \cup Point
      /\ shown \in BOOLEAN /\ request \in {"none", "show", "hide", "read"}
  BY DEF Hover, IInv, TypeOK
<1> QED
  BY <1>1, <1>2, FollowsItself, RestKeeps

LEMMA CaptureLostKeeps == ASSUME IInv, CaptureLost PROVE IInv'
<1>1. state \in State /\ state' = Abandoned(state) /\ Tell(state')
  BY DEF IInv, TypeOK, CaptureLost
<1>2. /\ UNCHANGED <<shown, request, owed>> /\ last' = None
      /\ shown \in BOOLEAN /\ request \in {"none", "show", "hide", "read"}
  BY DEF CaptureLost, IInv, TypeOK
<1> QED
  BY <1>1, <1>2, AbandonedFollows, RestKeeps

LEMMA RenderFailsKeeps == ASSUME IInv, RenderFails PROVE IInv'
<1>1. /\ state \in State /\ shown' = FALSE /\ UNCHANGED <<request, owed>> /\ last' = None
      /\ request \in {"none", "show", "hide", "read"}
  BY DEF RenderFails, IInv, TypeOK
<1>2. CASE shown
  <2>1. state' = Abandoned(state)
    BY <1>2 DEF RenderFails
  <2>2. Follows(state', state) /\ state'.drag = NoDrag /\ View(state') = View(state)
    BY <1>1, <2>1, AbandonedFollows
  <2>3. Tell(state')
    BY <2>2 DEF RenderFails, Tell
  <2> QED
    BY <1>1, <2>2, <2>3, RestKeeps
<1>3. CASE ~shown
  <2>1. state' = state /\ Tell(state')
    BY <1>3 DEF RenderFails, Tell
  <2>2. PagesOK' /\ page' \in Told
    BY <1>1, <2>1, FollowsItself, ToldInv
  <2>3. TypeOK'
    BY <1>1, <2>1, <2>2 DEF IInv, TypeOK
  <2>4. DragOK' /\ DragFollowsPointer'
    BY <1>1, <2>1 DEF IInv, DragOK, DragFollowsPointer
  <2> QED
    BY <2>2, <2>3, <2>4 DEF IInv
<1> QED
  BY <1>2, <1>3

LEMMA NewStateIsAtRest ==
    NewState \in State /\ NewState.drag = NoDrag /\ NoDrag.mode \notin SelectionDrags \cup ShapeDrags
BY NoDragType DEF NewState, State, Mode, Selection, SelectionDrags, ShapeDrags

LEMMA PrepareKeeps == ASSUME IInv, Prepare PROVE IInv'
<1>1. /\ state' = NewState /\ page' = None /\ UNCHANGED <<shown, request, owed, last>>
      /\ request = "none"
  BY DEF Prepare
<1>2. owed = None
  BY <1>1 DEF IInv, PagesOK
<1>3. TypeOK'
  BY <1>1, NewStateIsAtRest DEF IInv, TypeOK, SelectionDrags
<1>4. DragOK' /\ DragFollowsPointer'
  BY <1>1, NewStateIsAtRest DEF DragOK, DragFollowsPointer, WellBegun, SelectionDrags
<1>5. PagesOK'
  BY <1>1, <1>2 DEF PagesOK
<1> QED
  BY <1>3, <1>4, <1>5 DEF IInv

LEMMA UpdateRuntimeKeeps ==
    ASSUME IInv, NEW mode \in Mode, NEW r \in PageRects \cup {None},
           NEW x \in PageShapes \cup {None}, NEW more \in {{}, PageShapes},
           UpdateRuntime(mode, r, x, more)
    PROVE  IInv'
<1> DEFINE rect == IF r = None THEN None ELSE ToPhysical(r)
           shape == IF x = None THEN None ELSE ToShape(x)
           shapes == {ToShape(y): y \in more} \ {None}
<1>1. state' = Updated(state, mode, rect, shape, shapes)
  BY Zenon DEF UpdateRuntime, Put
<1>2. rect \in Selection
  <2>1. r # None => r \in Rect
    BY NativeSelectionAssumption
  <2> QED
    BY <2>1, ToPhysicalType DEF Selection
<1>3. shape \in {None} \cup Shape
  <2>1. x # None => x \in Shape
    BY NativeSelectionAssumption
  <2> QED
    BY <2>1, ToShapeType
<1>4. shapes \in SUBSET Shape
  <2>1. \A y \in more: y \in Shape
    BY NativeSelectionAssumption
  <2> QED
    BY <2>1, ToShapeType
<1>5. state \in State
  BY DEF IInv, TypeOK
<1> HIDE DEF rect, shape, shapes
<1>6. /\ Follows(state', state) /\ state'.drag = state.drag
      /\ state.drag # NoDrag => state' = state
  BY <1>1, <1>2, <1>3, <1>4, <1>5, UpdatedFollows
<1>7. /\ UNCHANGED <<shown, owed, page, last>> /\ request = "none"
      /\ request' \in {"show", "hide"}
  BY DEF UpdateRuntime
<1>8. owed = None
  BY <1>7 DEF IInv, PagesOK
<1>9. page' = None \/ Known(page', state')
  BY <1>5, <1>6, <1>7, KnownOn DEF IInv, PagesOK
<1>10. PagesOK'
  BY <1>7, <1>8, <1>9 DEF PagesOK
<1>11. TypeOK'
  BY <1>6, <1>7 DEF IInv, TypeOK, Follows
<1>12. DragOK'
  BY <1>6 DEF IInv, DragOK, WellBegun
<1>13. DragFollowsPointer'
  <2>1. CASE state.drag # NoDrag
    BY <1>6, <1>7, <2>1 DEF IInv, DragFollowsPointer
  <2>2. CASE state.drag = NoDrag
    BY <1>6, <2>2, NewStateIsAtRest DEF DragFollowsPointer
  <2> QED
    BY <2>1, <2>2
<1> QED
  BY <1>10, <1>11, <1>12, <1>13 DEF IInv

LEMMA ShowForPageKeeps == ASSUME IInv, ShowForPage PROVE IInv'
<1>1. /\ request = "show" /\ shown' = TRUE /\ request' = "read"
      /\ UNCHANGED <<state, owed, page, last>>
  BY DEF ShowForPage
<1>2. owed = None
  BY <1>1 DEF IInv, PagesOK
<1>3. PagesOK'
  BY <1>1, <1>2 DEF IInv, PagesOK
<1>4. TypeOK' /\ DragOK' /\ DragFollowsPointer'
  BY <1>1 DEF IInv, TypeOK, DragOK, DragFollowsPointer
<1> QED
  BY <1>3, <1>4 DEF IInv

LEMMA HideForPageKeeps == ASSUME IInv, HideForPage PROVE IInv'
<1>1. /\ request = "hide" /\ shown' = FALSE /\ request' = "read" /\ last' = None
      /\ UNCHANGED owed /\ state' = Abandoned(state) /\ state \in State
  BY DEF HideForPage, IInv, TypeOK
<1>2. owed = None
  BY <1>1 DEF IInv, PagesOK
<1>3. Follows(state', state) /\ state'.drag = NoDrag
  BY <1>1, AbandonedFollows
<1>4. CASE state.drag = NoDrag
  <2>1. UNCHANGED page
    BY <1>4 DEF HideForPage
  <2>2. page' = None \/ Known(page', state')
    BY <1>1, <1>3, <2>1, KnownOn DEF IInv, PagesOK
  <2>3. PagesOK'
    BY <1>1, <1>2, <2>2 DEF PagesOK
  <2>4. TypeOK'
    BY <1>1, <1>3, <2>1, NewStateIsAtRest DEF IInv, TypeOK, Follows, SelectionDrags
  <2>5. DragOK' /\ DragFollowsPointer'
    BY <1>3, NewStateIsAtRest DEF DragOK, DragFollowsPointer, WellBegun, SelectionDrags
  <2> QED
    BY <2>3, <2>4, <2>5 DEF IInv
<1>5. CASE state.drag # NoDrag
  <2>1. Tell(state')
    BY <1>1, <1>5 DEF HideForPage
  <2> QED
    BY <1>1, <1>2, <1>3, <2>1, RestKeeps
<1> QED
  BY <1>4, <1>5

LEMMA ReadStateKeeps == ASSUME IInv, ReadState PROVE IInv'
<1>1. /\ request = "read" /\ owed' = View(state) /\ state \in State
      /\ UNCHANGED <<state, shown, request, page, last>>
  BY DEF ReadState, IInv, TypeOK
<1>2. Known(owed', state') /\ owed' # None
  BY <1>1, ViewKnown
<1>3. PagesOK'
  <2>1. View(state') = owed'
    BY <1>1
  <2> QED
    BY <1>1, <1>2, <2>1 DEF IInv, PagesOK
<1>4. TypeOK'
  BY <1>1, <1>2 DEF IInv, TypeOK, Known
<1>5. DragOK' /\ DragFollowsPointer'
  BY <1>1 DEF IInv, DragOK, DragFollowsPointer
<1> QED
  BY <1>3, <1>4, <1>5 DEF IInv

LEMMA SendStateKeeps == ASSUME IInv, SendState PROVE IInv'
<1>1. /\ owed # None /\ page' = Newer(owed) /\ owed' = None /\ request' = "none"
      /\ UNCHANGED <<state, shown, last>> /\ state \in State
  BY DEF SendState, IInv, TypeOK
<1>2. Known(owed, state) /\ (page = None \/ Known(page, state))
  BY <1>1 DEF IInv, PagesOK
<1>3. Newer(owed) \in {owed, page} /\ (page = None => Newer(owed) = owed)
  BY Zenon DEF Newer
<1>4. Known(page', state')
  BY <1>1, <1>2, <1>3
<1>5. ASSUME state.drag = NoDrag
      PROVE  page'.selection = state.selection /\ page'.shape = state.shape
  <2>1. /\ View(state).rev = state.rev /\ View(state).shapeRev = state.shapeRev
        /\ View(state).selection = state.selection /\ View(state).shape = state.shape
    BY DEF View
  <2>2. View(state) \in {owed, page}
    BY <1>1, <1>5 DEF IInv, PagesOK
  <2>3. CASE View(state) = page' 
    BY <2>1, <2>3
  <2>4. CASE page' = page /\ View(state) = owed /\ page # None
    <3>1. ~(owed.rev >= page.rev /\ owed.shapeRev >= page.shapeRev) \/ page' = owed
      BY <1>1, Zenon DEF Newer
    <3>2. /\ page.rev \in Nat /\ page.shapeRev \in Nat
          /\ state.rev \in Nat /\ state.shapeRev \in Nat
          /\ page.rev <= state.rev /\ page.shapeRev <= state.shapeRev
      BY <1>1, <1>2, <2>4, StateParts DEF Known, Told
    <3> QED
      BY <2>1, <2>4, <3>1, <3>2
  <2>5. CASE page' = owed /\ View(state) = page
    <3>1. page # None
      BY <1>1, <2>5, ViewKnown
    <3>2. (owed.rev >= page.rev /\ owed.shapeRev >= page.shapeRev) \/ page' = page
      BY <1>1, <3>1, Zenon DEF Newer
    <3> QED
      BY <1>1, <1>2, <2>1, <2>5, <3>2, KnownAndNewer
  <2> QED
    BY <1>1, <1>3, <2>2, <2>3, <2>4, <2>5
<1>6. PagesOK'
  BY <1>1, <1>4, <1>5 DEF PagesOK
<1>7. TypeOK'
  BY <1>1, <1>4 DEF IInv, TypeOK, Known
<1>8. DragOK' /\ DragFollowsPointer'
  BY <1>1 DEF IInv, DragOK, DragFollowsPointer
<1> QED
  BY <1>6, <1>7, <1>8 DEF IInv

LEMMA StutterKeeps == ASSUME IInv, UNCHANGED vars PROVE IInv'
<1>1. TypeOK' /\ DragOK'
  BY DEF IInv, TypeOK, DragOK, vars
<1>2. DragFollowsPointer'
  BY DEF IInv, DragFollowsPointer, vars
<1>3. PagesOK'
  BY DEF IInv, PagesOK, vars
<1> QED
  BY <1>1, <1>2, <1>3 DEF IInv

LEMMA StepKeeps == ASSUME IInv, [Next]_vars PROVE IInv'
<1>1. CASE Pointer
  BY <1>1, DownKeeps, MoveKeeps, UpKeeps DEF Pointer
<1>2. CASE Hover \/ CaptureLost \/ RenderFails
  BY <1>2, HoverKeeps, CaptureLostKeeps, RenderFailsKeeps
<1>3. CASE Prepare
  BY <1>3, PrepareKeeps
<1>4. CASE \E mode \in Mode, r \in PageRects \cup {None},
              x \in PageShapes \cup {None}, more \in {{}, PageShapes}:
                UpdateRuntime(mode, r, x, more)
  BY <1>4, UpdateRuntimeKeeps
<1>5. CASE ShowForPage \/ HideForPage \/ ReadState \/ SendState
  BY <1>5, ShowForPageKeeps, HideForPageKeeps, ReadStateKeeps, SendStateKeeps
<1>6. CASE UNCHANGED vars
  BY <1>6, StutterKeeps
<1> QED
  BY <1>1, <1>2, <1>3, <1>4, <1>5, <1>6 DEF Next

\* The invariant the theorems rest on: in every state the program reaches, whatever
\* the page and the pointer do.
THEOREM InvHolds == Spec => []IInv
<1>1. Init => IInv
  BY InvBegins
<1>2. IInv /\ [Next]_vars => IInv'
  BY StepKeeps
<1> QED
  BY <1>1, <1>2, PTL DEF Spec

-----------------------------------------------------------------------------
(* Theorems. *)

\* The window's state keeps its shape: what a drag began with lasts as long as the
\* drag (handle_left_button_down, handle_mouse_move, handle_left_button_up).
THEOREM TypeCorrect == Spec => []TypeOK
<1>1. IInv => TypeOK
  BY DEF IInv
<1> QED
  BY <1>1, InvHolds, PTL

\* Nothing the page asks for comes between a drag and the pointer (update_runtime).
THEOREM DragCorrect == Spec => []DragFollowsPointer
<1>1. IInv => DragFollowsPointer
  BY DEF IInv
<1> QED
  BY <1>1, InvHolds, PTL

\* A state the service sends late does not bring an old selection or shape back
\* (isNativeStateCurrent).
THEOREM PageCorrect == Spec => []PageHasTheSelection
<1>1. IInv => PageHasTheSelection
  BY DEF IInv, PagesOK, PageHasTheSelection
<1> QED
  BY <1>1, InvHolds, PTL

\* The selection a release leaves is the one for its own place, not that of the
\* last move (handle_left_button_up).
THEOREM ReleaseCorrect == Spec => ReleaseTakesLastPoint
<1> DEFINE Release == \A p \in Point:
                        Up(p) /\ state.drag.mode \in SelectionDrags =>
                          state'.selection = DraggedSelection(state.drag, p)
<1>1. ASSUME IInv, NEW p \in Point, Up(p), state.drag.mode \in SelectionDrags
      PROVE  state'.selection = DraggedSelection(state.drag, p)
  <2> DEFINE t == Dragged(state, p)
  <2>1. state' = Dropped(t) /\ state.drag # NoDrag /\ p \in Spot
    BY <1>1, PointIsSpot DEF Up, Put
  <2>2. state \in State /\ WellBegun(state.drag) /\ state.drag.mode # "none"
    BY <1>1, <2>1, UnderWay
  <2>3. Follows(t, state) /\ t.selection = DraggedSelection(state.drag, p)
    BY <1>1, <2>1, <2>2, DraggedFollows
  <2>4. t \in State
    BY <2>3 DEF Follows
  <2> HIDE DEF t
  <2>5. state'.selection = t.selection
    BY <2>1, <2>4, DroppedFollows
  <2> QED
    BY <2>3, <2>5
<1>2. IInv => Release
  BY <1>1
<1> QED
  BY <1>2, InvHolds, PTL DEF ReleaseTakesLastPoint

-----------------------------------------------------------------------------
(* A selection stays on the display. *)

Fits(s, extent) ==
    s.lo >= 0 /\ s.lo < extent /\ (High(s) <= extent \/ s.size <= MinSize)
OnDisplay(r) == r = None \/ (r \in Rect /\ \A i \in Axes: Fits(r[i], Extent[i]))

LEMMA SpannedFits ==
    ASSUME NEW p \in Point, NEW q \in Point
    PROVE  OnDisplay(Spanned(p, q))
<1>1. ASSUME NEW i \in Axes PROVE Fits(Span(p[i], q[i]), Extent[i])
  <2>1. p[i] \in Int /\ q[i] \in Int
    BY PointIsSpot
  <2>2. p[i] >= 0 /\ q[i] >= 0 /\ p[i] < Extent[i] /\ q[i] < Extent[i] /\ Extent[i] \in Nat
    <3>1. \A v \in Pixels: v >= 0
      BY Extents DEF Pixels
    <3> QED
      BY <3>1, Extents DEF Point
  <2> QED
    BY <2>1, <2>2 DEF Span, Smaller, Larger, Fits, High
<1>2. Spanned(p, q) \in Rect
  BY PointIsSpot, SpannedType
<1> QED
  BY <1>1, <1>2 DEF OnDisplay, Spanned

LEMMA ShiftedFits ==
    ASSUME NEW r \in Rect, OnDisplay(r), NEW p \in Spot, NEW q \in Spot
    PROVE  OnDisplay(Shifted(r, p, q))
<1>1. ASSUME NEW i \in Axes PROVE Fits(Shift(r[i], q[i] - p[i], Extent[i]), Extent[i])
  <2>1. Fits(r[i], Extent[i])
    BY NoneIsNoShape DEF OnDisplay
  <2>2. r[i].lo \in Int /\ r[i].size \in Nat \ {0} /\ High(r[i]) = r[i].lo + r[i].size
    BY RectParts, IntervalParts
  <2>3. q[i] - p[i] \in Int /\ Extent[i] \in Nat /\ MinSize \in Nat \ {0} /\ MinSize <= Extent[i]
    BY Extents
  <2> QED
    BY <2>1, <2>2, <2>3 DEF Shift, Clamp, Larger, Fits, High
<1>2. Shifted(r, p, q) \in Rect
  BY ShiftedType
<1> QED
  BY <1>1, <1>2 DEF OnDisplay, Shifted

LEMMA StretchedFits ==
    ASSUME NEW r \in Rect, OnDisplay(r), NEW h, NEW p \in Spot
    PROVE  OnDisplay(Stretched(r, h, p))
<1>1. ASSUME NEW i \in Axes PROVE Fits(Stretch(r[i], h[i], p[i], Extent[i], MinSize), Extent[i])
  <2>1. Fits(r[i], Extent[i])
    BY NoneIsNoShape DEF OnDisplay
  <2>2. r[i].lo \in Int /\ r[i].size \in Nat \ {0} /\ High(r[i]) = r[i].lo + r[i].size
    BY RectParts, IntervalParts
  <2>3. p[i] \in Int /\ Extent[i] \in Nat /\ MinSize \in Nat \ {0} /\ MinSize <= Extent[i]
    BY Extents
  <2> QED
    BY <2>1, <2>2, <2>3 DEF Stretch, Clamp, Larger, Smaller, Fits, High
<1>2. Stretched(r, h, p) \in Rect
  BY StretchedType
<1> QED
  BY <1>1, <1>2 DEF OnDisplay, Stretched

LEMMA ToPhysicalFits ==
    ASSUME NEW r \in Rect
    PROVE  OnDisplay(ToPhysical(r))
<1> DEFINE rect == [i \in Axes |-> InPixels(r[i], Extent[i])]
<1>1. ASSUME NEW i \in Axes, rect[i].size > 0 PROVE Fits(rect[i], Extent[i])
  <2>1. r[i].lo \in Int /\ High(r[i]) \in Int /\ Extent[i] \in Nat
    BY RectParts, IntervalParts, Extents
  <2>2. Floor(r[i].lo) \in Int /\ Ceiling(High(r[i])) \in Int
    BY <2>1, FloorType
  <2> QED
    BY <1>1, <2>1, <2>2 DEF InPixels, Clamp, Fits, High
<1>2. ToPhysical(r) \in Selection
  BY ToPhysicalType
<1>3. ToPhysical(r) # None => ToPhysical(r) = rect /\ \A i \in Axes: rect[i].size > 0
  BY DEF ToPhysical
<1> HIDE DEF rect
<1> QED
  BY <1>1, <1>2, <1>3 DEF OnDisplay, Selection

LEMMA DraggedFits ==
    ASSUME NEW d \in Drag, WellBegun(d), d.mode \in SelectionDrags, OnDisplay(d.selection),
           d.from \in Point, NEW p \in Point
    PROVE  OnDisplay(DraggedSelection(d, p))
<1>1. d.from \in Spot /\ p \in Spot /\ (d.mode \in {"move", "resize"} => d.selection \in Rect)
  BY DragParts, PointIsSpot DEF WellBegun, Selection
<1>2. CASE d.mode = "create"
  <2>1. DraggedSelection(d, p) = Spanned(d.from, p)
    BY <1>2 DEF DraggedSelection
  <2> QED
    BY <2>1, SpannedFits
<1>3. CASE d.mode = "move"
  <2>1. DraggedSelection(d, p) = Shifted(d.selection, d.from, p)
    BY <1>3 DEF DraggedSelection
  <2> QED
    BY <1>1, <1>3, <2>1, ShiftedFits
<1>4. CASE d.mode = "resize"
  <2>1. DraggedSelection(d, p) = Stretched(d.selection, d.handle, p)
    BY <1>4 DEF DraggedSelection
  <2> QED
    BY <1>1, <1>4, <2>1, StretchedFits
<1> QED
  BY <1>2, <1>3, <1>4 DEF SelectionDrags

\* The selection is on the display, the one a drag began with is, and so is the place
\* the drag began at; what is drawn is within the selection.
Placed(s) ==
    /\ OnDisplay(s.selection) /\ OnDisplay(s.drag.selection) /\ s.drag.from \in Point
    /\ Drawn(s)

LEMMA NoDragIsPlaced ==
    NoDrag.from \in Point /\ OnDisplay(NoDrag.selection) /\ NoDrag.mode \notin DraftDrags
<1>1. ASSUME NEW i \in Axes PROVE 0 \in 0..(Extent[i] - 1) /\ 0 < Extent[i]
  <2>1. Extent[i] \in Nat /\ MinSize \in Nat \ {0} /\ MinSize <= Extent[i]
    BY Extents
  <2> QED
    BY <2>1
<1>2. [i \in Axes |-> 0] \in Point
  BY <1>1 DEF Point, Pixels
<1> QED
  BY <1>2, NoDragType DEF NoDrag, OnDisplay, DraftDrags

LEMMA PlacedAtRest ==
    ASSUME NEW s, s.drag = NoDrag, OnDisplay(s.selection)
    PROVE  Placed(s)
BY NoDragIsPlaced DEF Placed, Drawn

LEMMA DraggedPlaced ==
    ASSUME IInv, Placed(state), state.drag # NoDrag, NEW p \in Point
    PROVE  Placed(Dragged(state, p)) /\ Dragged(state, p) \in State
<1> DEFINE t == Dragged(state, p)
<1>1. state \in State /\ WellBegun(state.drag) /\ state.drag.mode # "none" /\ p \in Spot
  BY UnderWay, PointIsSpot
<1>2. /\ Follows(t, state) /\ t.drag = state.drag /\ Drawn(t)
      /\ state.drag.mode \in SelectionDrags => t.selection = DraggedSelection(state.drag, p)
      /\ state.drag.mode \notin SelectionDrags => t.selection = state.selection
  BY <1>1, DraggedFollows DEF Placed
<1>3. state.drag \in Drag
  BY <1>1, StateParts
<1>4. state.drag.mode \in SelectionDrags => OnDisplay(DraggedSelection(state.drag, p))
  BY <1>1, <1>3, DraggedFits DEF Placed
<1> HIDE DEF t
<1>5. Placed(t)
  BY <1>2, <1>4 DEF Placed
<1> QED
  BY <1>2, <1>5 DEF Follows, t

LEMMA PlacedKept == ASSUME IInv, Placed(state), [Next]_vars PROVE Placed(state')
<1>1. state \in State
  BY DEF IInv, TypeOK
<1>2. ASSUME NEW p \in Point, Down(p) PROVE Placed(state')
  <2>1. p \in Spot /\ state' \in Pressed(state, p)
    BY <1>2, PointIsSpot DEF Down, Put
  <2>2. Began(state', state, p)
    BY <1>1, <2>1, PressedBegins
  <2>3. OnDisplay(Spanned(p, p))
    BY SpannedFits
  <2> QED
    BY <2>2, <2>3 DEF Began, Placed
<1>3. ASSUME NEW p \in Point, Move(p) PROVE Placed(state')
  BY <1>3, DraggedPlaced DEF Move, Put
<1>4. ASSUME NEW p \in Point, Up(p) PROVE Placed(state')
  <2> DEFINE t == Dragged(state, p)
  <2>1. state' = Dropped(t) /\ state.drag # NoDrag
    BY <1>4 DEF Up, Put
  <2>2. Placed(t) /\ t \in State
    BY <2>1, DraggedPlaced
  <2> HIDE DEF t
  <2>3. state'.drag = NoDrag /\ state'.selection = t.selection
    BY <2>1, <2>2, DroppedFollows
  <2> QED
    BY <2>2, <2>3, PlacedAtRest DEF Placed
<1>5. CASE state' = Abandoned(state)
  <2>1. state'.drag = NoDrag /\ state'.selection = state.selection
    BY <1>1, <1>5, AbandonedFollows
  <2> QED
    BY <2>1, PlacedAtRest DEF Placed
<1>6. CASE state' = state
  BY <1>6
<1>7. CASE Prepare
  <2>1. state' = NewState /\ NewState.selection = None
    BY <1>7 DEF Prepare, NewState
  <2> QED
    BY <2>1, NewStateIsAtRest, PlacedAtRest DEF OnDisplay
<1>8. ASSUME NEW mode \in Mode, NEW r \in PageRects \cup {None},
             NEW x \in PageShapes \cup {None}, NEW more \in {{}, PageShapes},
             UpdateRuntime(mode, r, x, more)
      PROVE  Placed(state')
  <2> DEFINE rect == IF r = None THEN None ELSE ToPhysical(r)
             shape == IF x = None THEN None ELSE ToShape(x)
             shapes == {ToShape(y): y \in more} \ {None}
  <2>1. state' = Updated(state, mode, rect, shape, shapes)
    BY <1>8, Zenon DEF UpdateRuntime, Put
  <2>2. OnDisplay(rect) /\ rect \in Selection
    <3>1. r # None => r \in Rect
      BY NativeSelectionAssumption
    <3> QED
      BY <3>1, ToPhysicalFits DEF OnDisplay, Selection
  <2>3. shape \in {None} \cup Shape
    <3>1. x # None => x \in Shape
      BY NativeSelectionAssumption
    <3> QED
      BY <3>1, ToShapeType
  <2>4. shapes \in SUBSET Shape
    <3>1. \A y \in more: y \in Shape
      BY NativeSelectionAssumption
    <3> QED
      BY <3>1, ToShapeType
  <2> HIDE DEF rect, shape, shapes
  <2>5. /\ state'.drag = state.drag /\ state'.selection \in {state.selection, rect}
        /\ state.drag # NoDrag => state' = state
    BY <1>1, <2>1, <2>2, <2>3, <2>4, UpdatedFollows
  <2>6. CASE state.drag # NoDrag
    BY <2>5, <2>6
  <2>7. CASE state.drag = NoDrag
    BY <2>2, <2>5, <2>7, PlacedAtRest DEF Placed
  <2> QED
    BY <2>6, <2>7
<1>9. CASE Next
  <2>1. CASE Pointer
    BY <1>2, <1>3, <1>4, <2>1 DEF Pointer
  <2>2. CASE Hover \/ CaptureLost \/ RenderFails
    BY <1>5, <1>6, <2>2 DEF Hover, CaptureLost, RenderFails
  <2>3. CASE \E mode \in Mode, r \in PageRects \cup {None},
                x \in PageShapes \cup {None}, more \in {{}, PageShapes}:
                  UpdateRuntime(mode, r, x, more)
    BY <1>8, <2>3
  <2>4. CASE ShowForPage \/ HideForPage \/ ReadState \/ SendState
    BY <1>5, <1>6, <2>4 DEF ShowForPage, HideForPage, ReadState, SendState
  <2> QED
    BY <1>7, <1>9, <2>1, <2>2, <2>3, <2>4 DEF Next
<1> QED
  BY <1>6, <1>9 DEF vars

\* The second invariant: where the selection, the drag and the draft are.
THEOREM PlacedHolds == Spec => []Placed(state)
<1>1. Init => Placed(state)
  <2>1. ASSUME Init PROVE Placed(state)
    <3>1. state = NewState /\ NewState.selection = None
      BY <2>1 DEF Init, NewState
    <3> QED
      BY <3>1, NewStateIsAtRest, PlacedAtRest DEF OnDisplay
  <2> QED
    BY <2>1
<1>2. IInv /\ Placed(state) /\ [Next]_vars => Placed(state)'
  BY PlacedKept
<1> QED
  BY <1>1, <1>2, InvHolds, PTL DEF Spec

\* A selection goes beyond the display only by the least size a handle leaves
\* (build_physical_rect, move_selection_rect, resize_selection_rect).
THEOREM DisplayCorrect == Spec => []SelectionOnDisplay
<1>1. Placed(state) => SelectionOnDisplay
  BY DEF Placed, OnDisplay, Fits, SelectionOnDisplay
<1> QED
  BY <1>1, PlacedHolds, PTL

\* What is drawn stays within the selection (clamp_point_to_rect, clamp_rect_to_bounds).
THEOREM DraftCorrect == Spec => []DraftInSelection
<1>1. Placed(state) => DraftInSelection
  BY DEF Placed, Drawn, Inside, DraftInSelection
<1> QED
  BY <1>1, PlacedHolds, PTL
=============================================================================
