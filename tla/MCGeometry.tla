----------------------------- MODULE MCGeometry -----------------------------
(***************************************************************************)
(* Small instances of Geometry for TLC: along one axis, with half pixels.  *)
(***************************************************************************)
EXTENDS Geometry

OnePixelMargins == [Axis -> {[low |-> 1, high |-> 1]}]
\* On an output of two pixels: none, those that leave nothing, those that do not
\* fit, and a negative one, which strtoul() takes too.
AllKindsOfMargins ==
  [Axis -> {[low |-> 0, high |-> 0], [low |-> 1, high |-> 1],
            [low |-> 2, high |-> 1], [low |-> -1, high |-> 0]}]
ThreePixels == [a \in Axis |-> 3]
TwoPixels == [a \in Axis |-> 2]
OnlyZero == {0}
Nowhere == {}
ZeroAndOne == {0, 1}
OneAndTwo == {1, 2}
NoEdge == {}
AnyEdge == {"none", "low", "high"}
AllRequests == {"fullscreen", "maximize", "minimize", "shade"}
FullscreenAndMaximize == {"fullscreen", "maximize"}
MaximizeOnly == {"maximize"}
HalfPixels == 0 .. 3
=============================================================================
