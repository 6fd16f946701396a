---------------------------- MODULE KeyboardFocus ----------------------------
(***************************************************************************)
(* What the keyboard focus of the seat promises to a client, whatever the  *)
(* windows, layer surfaces, devices and key bindings do: one surface has   *)
(* the keyboard; a layer surface may hold it exclusively, and as long as   *)
(* any does, no window is given it.  What holds it before any layer        *)
(* surface did is not promised, only that it keeps windows off too, until  *)
(* a layer surface takes its place.                                        *)
(***************************************************************************)
CONSTANTS
  Window, Layer, None,
  InitialHolder   \* what may hold the keyboard at first, None or not

VARIABLES
  focus,   \* the surface that has the keyboard, or None
  holder   \* what holds it exclusively, or None

Init == focus = None /\ holder \in InitialHolder

\* A window is given the keyboard: only while nothing holds it.
EnterWindow ==
  /\ holder = None
  /\ holder' = None
  /\ focus' \in Window

\* A layer surface is given the keyboard, without holding it exclusively.
EnterLayer ==
  /\ focus' \in Layer
  /\ UNCHANGED holder

\* A layer surface becomes the holder.  It has the keyboard too, unless the
\* seat has no keyboard to give.
Hold ==
  /\ holder' \in Layer
  /\ focus' \in {holder', focus}

\* The layer surface that holds it lets go; the keyboard may pass to a window at
\* once.
Release ==
  /\ holder \in Layer
  /\ holder' = None
  /\ focus' \in Window \cup {focus}

\* The focused surface is destroyed.
Leave ==
  /\ focus' = None
  /\ UNCHANGED holder

Next == EnterWindow \/ EnterLayer \/ Hold \/ Release \/ Leave

Spec == Init /\ [][Next]_<<focus, holder>>
=============================================================================
