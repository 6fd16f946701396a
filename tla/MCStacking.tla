------------------------------ MODULE MCStacking ------------------------------
(***************************************************************************)
(* Small instances of Stacking for TLC.                                    *)
(***************************************************************************)
EXTENDS Stacking, TLC

Symmetry == Permutations(Toplevel) \cup Permutations(LayerSurface)

NullFocusedLayer == {None}
AnyFocusedLayer == {None, Dangling}

\* The bound: a process that faulted, or that has windows and no keyboard, is
\* not followed further.
FollowedUp == Running /\ (toplevels # <<>> => keyboards # {})

LowestAndHighest == {BACKGROUND, OVERLAY}
BelowAndAbove == {BOTTOM, TOP}
TopAndOverlay == {TOP, OVERLAY}
=============================================================================
