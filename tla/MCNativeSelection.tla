-------------------------- MODULE MCNativeSelection --------------------------
(* Bounded instances of NativeSelection for TLC. *)
EXTENDS NativeSelection

Row(n) == [i \in Axes |-> n]
Extents == Row(4)
Rects == {[i \in Axes |-> [lo |-> 2, size |-> 3]],   \* half of it on the display
          [i \in Axes |-> [lo |-> 1, size |-> 1]],
          [i \in Axes |-> [lo |-> 3, size |-> 1]]}   \* beside the display
Shapes == {[id |-> "a", kind |-> "line", start |-> Row(1), end |-> Row(2)],
           [id |-> "b", kind |-> "rect", start |-> Row(0), end |-> Row(2)],
           [id |-> "c", kind |-> "line", start |-> Row(1), end |-> Row(3)]}   \* ends beside it
TwoForThree == [units |-> 2, pixels |-> 3]
=============================================================================
