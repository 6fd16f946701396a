---------------------------- MODULE MCDecorations ----------------------------
(***************************************************************************)
(* Small instances of Decorations for TLC.                                 *)
(***************************************************************************)
EXTENDS Decorations, TLC

Symmetry == Permutations(Toplevel)

NullFocusedLayer == {None}
AnyFocusedLayer == {None, Dangling}
OnlyOverlay == {OVERLAY}

\* The bound: a process that faulted, or that has windows and no keyboard, is
\* not followed further.
FollowedUp == Running /\ (toplevels # <<>> => keyboards # {})
=============================================================================
