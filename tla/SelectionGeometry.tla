-------------------------- MODULE SelectionGeometry --------------------------
(***************************************************************************)
(* The geometry of the native selection (native_interaction_backend_       *)
(* windows.rs), one axis at a time: a point is a function from the axes to *)
(* pixels, a rectangle a function to intervals [lo, size].                 *)
(***************************************************************************)
EXTENDS Integers

CONSTANTS
    Axes,     \* the axes of the display
    Extent,   \* the display's pixels along each axis
    MinSize,  \* the smallest size a handle leaves, at the display's scale
    MinShape, \* the same at scale 1, which is what a handle of a shape leaves
    Reach,    \* how far from its place a handle is hit
    Scale,    \* the page's units: of so many of them, so many pixels
    None      \* no rectangle, shape, draft or event

ASSUME GeometryAssumption ==
    /\ Axes # {}
    /\ MinSize \in Nat \ {0}
    /\ MinShape \in Nat \ {0}
    /\ Reach \in Nat \ {0}
    /\ Extent \in [Axes -> Nat]
    /\ Scale \in [units: Nat \ {0}, pixels: Nat \ {0}]
    /\ \A i \in Axes: Extent[i] >= MinSize

Smaller(a, b) == IF a < b THEN a ELSE b
Larger(a, b) == IF a < b THEN b ELSE a
Clamp(v, lo, hi) == IF v < lo THEN lo ELSE IF v > hi THEN hi ELSE v

Interval == [lo: Int, size: Nat \ {0}]
High(s) == s.lo + s.size

Pixels == UNION {0..(Extent[i] - 1): i \in Axes}
Point == {p \in [Axes -> Pixels]: \A i \in Axes: p[i] < Extent[i]}
Rect == [Axes -> Interval]

Side == {"low", "high", "none"}
Handle == {h \in [Axes -> Side]: \E i \in Axes: h[i] # "none"}

----------------------------------------------------------------------------
(* What the page asks for, in pixels. *)

Floor(v) == (v * Scale.pixels) \div Scale.units
Ceiling(v) == -Floor(-v)

InPixels(s, extent) ==
    LET lo == Clamp(Floor(s.lo), 0, extent)
    IN [lo |-> lo, size |-> Clamp(Ceiling(High(s)), 0, extent) - lo]

\* logical_selection_to_physical: nothing of it on the display is no rectangle.
ToPhysical(r) ==
    LET rect == [i \in Axes |-> InPixels(r[i], Extent[i])]
    IN IF \A i \in Axes: rect[i].size > 0 THEN rect ELSE None

\* A point is asked for as the rectangle of one pixel at it.
HitsPixel(p) ==
    \A i \in Axes: p[i] * Scale.pixels > -Scale.units /\ Floor(p[i]) < Extent[i]
PixelAt(p) == [i \in Axes |-> Larger(Floor(p[i]), 0)]

\* logical_shape_to_physical: a shape with an end off the display is no shape.
ToShape(x) ==
    IF HitsPixel(x.start) /\ HitsPixel(x.end)
      THEN [x EXCEPT !.start = PixelAt(@), !.end = PixelAt(@)] ELSE None

----------------------------------------------------------------------------
\* build_physical_rect.
Span(a, b) == [lo |-> Smaller(a, b), size |-> Larger(Larger(a, b) - Smaller(a, b), 1)]
Spanned(p, q) == [i \in Axes |-> Span(p[i], q[i])]

\* (mutant) The low side may go to the edge.
ShiftToEdge(s, delta, extent) == [lo |-> Clamp(s.lo + delta, 0, extent), size |-> s.size]

\* move_selection_rect.
Shift(s, delta, extent) ==
    [lo |-> Clamp(s.lo + delta, 0, Larger(extent - s.size, 0)), size |-> s.size]
Shifted(r, p, q) == [i \in Axes |-> Shift(r[i], q[i] - p[i], Extent[i])]

\* resize_selection_rect: the side follows the pointer; when too little is left it
\* stops short of the other side, or of the edge.
Stretch(s, side, v, extent, least) ==
    LET left == Clamp(IF side = "low" THEN v ELSE s.lo, 0, extent)
        right == Clamp(IF side = "high" THEN v ELSE High(s), 0, extent)
        small == right - left < least
        lo == IF small /\ side = "low" THEN Larger(right - least, 0) ELSE left
        hi == IF small /\ side # "low" THEN Smaller(left + least, extent) ELSE right
    IN [lo |-> lo, size |-> Larger(hi - lo, least)]
Stretched(r, h, p) == [i \in Axes |-> Stretch(r[i], h[i], p[i], Extent[i], MinSize)]

\* clamp_rect_to_bounds and clamp_point_to_rect.
Cut(s, bound) ==
    LET left == Larger(s.lo, bound.lo)
        right == Smaller(High(s), High(bound))
    IN [lo |-> Smaller(left, right), size |-> Larger(right - left, 1)]
CutTo(r, bounds) == [i \in Axes |-> Cut(r[i], bounds[i])]

\* (mutant) The high side is taken as part of the rectangle.
NearestOrBeside(p, r) == [i \in Axes |-> Clamp(p[i], r[i].lo, High(r[i]))]

NearestIn(p, r) ==
    [i \in Axes |-> Clamp(p[i], r[i].lo, Larger(High(r[i]) - 1, r[i].lo))]

\* point_in_box, and the boxes handle_hit_boxes puts around a rectangle.
Covers(r, p) == \A i \in Axes: r[i].lo <= p[i] /\ p[i] < High(r[i])

OnHandle(r, h, p) ==
    \A i \in Axes:
        CASE h[i] = "low" -> p[i] - r[i].lo \in (-Reach)..(Reach - 1)
          [] h[i] = "high" -> p[i] - High(r[i]) \in (-Reach)..(Reach - 1)
          [] h[i] = "none" ->
               2 * p[i] - r[i].lo - High(r[i]) \in (-2 * Reach - 1)..(2 * Reach - 2)

Inside(r, bounds) == \A i \in Axes: bounds[i].lo <= r[i].lo /\ High(r[i]) <= High(bounds[i])
Display == [i \in Axes |-> [lo |-> 0, size |-> Extent[i]]]
=============================================================================
