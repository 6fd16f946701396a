------------------------------ MODULE MCDesktop ------------------------------
(***************************************************************************)
(* Small instances of Desktop for TLC.  Toplevels, layer surfaces and      *)
(* keyboards are interchangeable, each among themselves.                   *)
(***************************************************************************)
EXTENDS Desktop, TLC

Symmetry ==
  Permutations(Toplevel) \cup Permutations(LayerSurface)
    \cup Permutations(Keyboard)

UpperLayers == BOTTOM .. OVERLAY

NullFocusedLayer == {None}
AnyFocusedLayer == {None, Dangling}
=============================================================================
