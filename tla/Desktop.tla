------------------------------- MODULE Desktop -------------------------------
(***************************************************************************)
(* Keyboard focus in waybox: the list of toplevel windows, the seat and    *)
(* its keyboards, the layer surface that holds the keyboard exclusively    *)
(* and the interactive grab of the cursor, as the callbacks of             *)
(* xdg_shell.c, seat.c, layer_shell.c and cursor.c change them.            *)
(*                                                                         *)
(* waybox has one thread: the event loop runs one callback at a time, so   *)
(* each action is one callback, taken whole.  Which callback comes next is *)
(* decided by the clients, the input devices and wlroots, hence the        *)
(* disjunction in Next.  Where the code reads the head of the list, or     *)
(* freed memory, as an object, the step either faults or does nothing.     *)
(*                                                                         *)
(* One output is present throughout.  Geometry does not decide who has the *)
(* keyboard; Stacking and Decorations extend this module.  Left out are    *)
(* popup grabs, during which wlroots itself holds the focus back.          *)
(***************************************************************************)
EXTENDS Integers, FiniteSets, WlList

CONSTANTS
  Toplevel,             \* surfaces a client may give the xdg_toplevel role
  LayerSurface,         \* surfaces a client may give the layer_surface role
  Keyboard,             \* keyboards that may be plugged in
  LayerType,            \* the layers that clients use
  None,                 \* the NULL pointer
  Dangling,             \* a pointer to no live object
  InitialFocusedLayer   \* what malloc may leave in wb_seat.focused_layer

ASSUME SurfacesDistinct ==
  /\ Toplevel \cap LayerSurface = {}
  /\ {None, Dangling} \cap (Toplevel \cup LayerSurface \cup Keyboard) = {}
  /\ None # Dangling

\* zwlr_layer_shell_v1_layer
BACKGROUND == 0
BOTTOM     == 1
TOP        == 2
OVERLAY    == 3

ASSUME LayerTypeAssumption == LayerType \subseteq BACKGROUND .. OVERLAY

ASSUME InitialFocusedLayerAssumption ==
  InitialFocusedLayer \subseteq {None, Dangling}

VARIABLES
  toplevels,     \* wb_server.toplevels, the most recently focused first
  stage,         \* how far each toplevel is in its xdg_surface life
  activated,     \* toplevels whose last set_activated() was true
  layer,         \* each layer surface: stage, current.layer, interactivity
  focusedLayer,  \* wb_seat.focused_layer
  kbFocus,       \* wlr_seat.keyboard_state.focused_surface
  keyboards,     \* wb_seat.keyboards
  seatKeyboard,  \* wlr_seat.keyboard_state.keyboard
  cursorMode,    \* wb_cursor.cursor_mode
  grabbed,       \* wb_server.grabbed_toplevel
  missed,        \* ghost: the last surface given focus was never entered
  fault          \* the site whose undefined behaviour ended the process

windowVars == <<toplevels, stage, activated>>
layerVars  == <<layer, focusedLayer>>
focusVars  == <<kbFocus, missed>>
seatVars   == <<keyboards, seatKeyboard>>
grabVars   == <<cursorMode, grabbed>>
vars == <<windowVars, layerVars, focusVars, seatVars, grabVars, fault>>

ToplevelStage == {"absent", "created", "configured", "mapped"}
LayerStage == {"absent", "unmapped", "mapped"}
FaultSite == {"unmap_next", "minimize_next", "cycle_next", "front_of_empty",
              "commit_front", "grab_freed", "dangling_layer", "layer_clicked",
              "decoration_freed"}

Surface == Toplevel \cup LayerSurface

----------------------------------------------------------------------------
\* What the callbacks read.

Mapped(t) == stage[t] = "mapped"       \* scene_tree->node.enabled
Live(t)   == stage[t] # "absent"
Front     == toplevels[1]
IsLast(t) == PosOf(toplevels, t) = Len(toplevels)
NextOf(t) == toplevels[PosOf(toplevels, t) + 1]

\* A layer surface that does not exist.
NoLayer == [stage |-> "absent", layer |-> BACKGROUND, interactive |-> FALSE]

\* A fault ends the process, and with it every step.
Running == fault = "none"

\* Undefined behaviour that reads an object which is not there.
Undefined(site) == fault' \in {"none", site}

----------------------------------------------------------------------------
\* Functions that several callbacks call.

\* seat_focus_surface(): nothing is entered when the seat has no keyboard.
SeatFocusSurface(s) ==
  IF seatKeyboard # None
  THEN kbFocus' = s /\ missed' = FALSE
  ELSE kbFocus' = kbFocus /\ missed' = TRUE

\* Mutant: the layer that holds the keyboard is not looked at.
FocusRefusedIgnoringLayer(t, fl) == kbFocus = t

\* focus_toplevel() returns early: fl is focused_layer at the call.
FocusRefused(t, fl) == fl # None \/ kbFocus = t

\* focus_toplevel(), but for the list: activation and keyboard.
Activate(t, fl) ==
  IF FocusRefused(t, fl)
  THEN UNCHANGED <<activated, focusVars>>
  ELSE /\ activated' = (activated \ {kbFocus}) \cup {t}
       /\ SeatFocusSurface(t)

\* Mutant: the focused toplevel keeps its place in the list.
FocusToplevelInPlace(t, fl) == Activate(t, fl) /\ UNCHANGED toplevels

\* focus_toplevel()
FocusToplevel(t, fl) ==
  /\ Activate(t, fl)
  /\ toplevels' = IF FocusRefused(t, fl) THEN toplevels
                  ELSE MoveToFront(toplevels, PosOf(toplevels, t))

KeepFocus == UNCHANGED <<toplevels, activated, focusVars>>

\* seat_set_focus_layer() with a layer surface.
SeatSetFocusLayer(l) ==
  /\ SeatFocusSurface(l)
  /\ focusedLayer' = IF layer[l].layer > TOP THEN l ELSE focusedLayer

\* Mutant: an unmap or a release leaves the grab in place.
ResetCursorModeForgotten == UNCHANGED grabVars

\* reset_cursor_mode()
ResetCursorMode == cursorMode' = "passthrough" /\ grabbed' = None

----------------------------------------------------------------------------
Init ==
  /\ toplevels = <<>>
  /\ stage = [t \in Toplevel |-> "absent"]
  /\ activated = {}
  /\ layer = [l \in LayerSurface |-> NoLayer]
  /\ focusedLayer \in InitialFocusedLayer
  /\ kbFocus = None
  /\ keyboards = {}
  /\ seatKeyboard = None
  /\ cursorMode = "passthrough"
  /\ grabbed = None
  /\ missed = FALSE
  /\ fault = "none"

----------------------------------------------------------------------------
\* Toplevel windows (xdg_shell.c).

\* handle_new_xdg_toplevel(): linked at the front, before it has any content.
NewToplevel(t) ==
  /\ Running
  /\ ~Live(t)
  /\ stage' = [stage EXCEPT ![t] = "created"]
  /\ toplevels' = InsertFront(toplevels, t)
  /\ UNCHANGED <<activated, layerVars, focusVars, seatVars, grabVars, fault>>

\* The client acknowledges its first configure (xdg_toplevel_commit sent it).
AckConfigure(t) ==
  /\ Running
  /\ stage[t] = "created"
  /\ stage' = [stage EXCEPT ![t] = "configured"]
  /\ UNCHANGED <<toplevels, activated, layerVars, focusVars, seatVars,
                 grabVars, fault>>

\* xdg_toplevel_map()
MapToplevel(t) ==
  /\ Running
  /\ stage[t] = "configured"
  /\ stage' = [stage EXCEPT ![t] = "mapped"]
  /\ FocusToplevel(t, focusedLayer)
  /\ UNCHANGED <<layerVars, seatVars, grabVars, fault>>

\* xdg_toplevel_unmap(): the next in the list gets the focus if it is mapped;
\* after the last one comes the head of the list.
UnmapToplevel(t) ==
  /\ Running
  /\ Mapped(t)
  /\ stage' = [stage EXCEPT ![t] = "created"]
  /\ ResetCursorMode
  /\ IF ~IsLast(t) /\ Mapped(NextOf(t))
     THEN FocusToplevel(NextOf(t), focusedLayer)
     ELSE KeepFocus
  /\ IF IsLast(t) /\ Len(toplevels) > 1
     THEN Undefined("unmap_next")
     ELSE UNCHANGED fault
  /\ UNCHANGED <<layerVars, seatVars>>

\* Mutant: the toplevel stays linked.
DestroyToplevelLinked(t) ==
  /\ Running
  /\ stage[t] \in {"created", "configured"}
  /\ stage' = [stage EXCEPT ![t] = "absent"]
  /\ activated' = activated \ {t}
  /\ grabbed' = IF grabbed = t THEN Dangling ELSE grabbed
  /\ UNCHANGED <<toplevels, layerVars, focusVars, seatVars, cursorMode, fault>>

\* xdg_toplevel_destroy(); wlroots has unmapped the surface before.
DestroyToplevel(t) ==
  /\ Running
  /\ stage[t] \in {"created", "configured"}
  /\ stage' = [stage EXCEPT ![t] = "absent"]
  /\ toplevels' = RemoveAt(toplevels, PosOf(toplevels, t))
  /\ activated' = activated \ {t}
  /\ grabbed' = IF grabbed = t THEN Dangling ELSE grabbed
  /\ UNCHANGED <<layerVars, focusVars, seatVars, cursorMode, fault>>

\* xdg_toplevel_request_minimize() when minimizing: the next in the list gets
\* the focus, mapped or not; the only window focuses itself.
Minimize(t) ==
  /\ IF Len(toplevels) = 1 THEN FocusToplevel(t, focusedLayer)
     ELSE IF IsLast(t) THEN KeepFocus
     ELSE FocusToplevel(NextOf(t), focusedLayer)
  /\ IF IsLast(t) /\ Len(toplevels) > 1
     THEN Undefined("minimize_next")
     ELSE UNCHANGED fault
  /\ UNCHANGED <<stage, layerVars, seatVars, grabVars>>

\* xdg_toplevel.set_minimized, from any client at any time.
RequestMinimize(t) == Running /\ Live(t) /\ Minimize(t)

\* xdg_toplevel_request_move() and _resize(): begin_interactive().  wlroots
\* raises the request of a configured surface, mapped or not.
BeginInteractive(t, mode) ==
  /\ Running
  /\ stage[t] \in {"configured", "mapped"}
  /\ grabbed' = t
  /\ cursorMode' = mode
  /\ UNCHANGED <<windowVars, layerVars, focusVars, seatVars, fault>>

----------------------------------------------------------------------------
\* The pointer (cursor.c).

\* process_cursor_motion() in a move or a resize follows grabbed_toplevel.
CursorMotion ==
  /\ Running
  /\ cursorMode # "passthrough"
  /\ IF grabbed = Dangling THEN Undefined("grab_freed") ELSE UNCHANGED fault
  /\ UNCHANGED <<windowVars, layerVars, focusVars, seatVars, grabVars>>

\* handle_cursor_button(), pressed over toplevel t.
ButtonPress(t) ==
  /\ Running
  /\ Mapped(t)
  /\ FocusToplevel(t, focusedLayer)
  /\ UNCHANGED <<stage, layerVars, seatVars, grabVars, fault>>

\* handle_cursor_button(), pressed over a layer surface: get_toplevel_at() hands
\* out its scene descriptor for a toplevel, and focus_toplevel() reads that.
ButtonPressLayer(l) ==
  /\ Running
  /\ layer[l].stage = "mapped"
  /\ Undefined("layer_clicked")
  /\ UNCHANGED <<windowVars, layerVars, focusVars, seatVars, grabVars>>

\* handle_cursor_button(), released: any button ends the grab.
ButtonRelease ==
  /\ Running
  /\ ResetCursorMode
  /\ UNCHANGED <<windowVars, layerVars, focusVars, seatVars, fault>>

----------------------------------------------------------------------------
\* Layer surfaces (layer_shell.c).

\* handle_layer_shell_surface(), once the first commit gave it a state.  (One
\* that names no output is dropped while there is no toplevel.)
NewLayerSurface(l, ly, interactive) ==
  /\ Running
  /\ layer[l].stage = "absent"
  /\ layer' = [layer EXCEPT ![l] = [stage |-> "unmapped", layer |-> ly,
                                    interactive |-> interactive]]
  /\ UNCHANGED <<windowVars, focusedLayer, focusVars, seatVars, grabVars,
                 fault>>

\* handle_map() may find that the focused layer gives way: there is none, or it
\* is not below this one.  Through a dangling pointer either answer is read.
GivesWay(l) ==
  IF focusedLayer = None THEN {TRUE}
  ELSE IF focusedLayer = Dangling THEN BOOLEAN
  ELSE {layer[focusedLayer].layer >= layer[l].layer}

WantsKeyboard(l) == layer[l].interactive /\ layer[l].layer \in {TOP, OVERLAY}

\* handle_map()
MapLayer(l) ==
  /\ Running
  /\ layer[l].stage = "unmapped"
  /\ layer' = [layer EXCEPT ![l].stage = "mapped"]
  /\ \E givesWay \in GivesWay(l) :
       IF WantsKeyboard(l) /\ givesWay
       THEN SeatSetFocusLayer(l)
       ELSE UNCHANGED <<focusedLayer, focusVars>>
  /\ IF WantsKeyboard(l) /\ focusedLayer = Dangling
     THEN Undefined("dangling_layer")
     ELSE UNCHANGED fault
  /\ UNCHANGED <<windowVars, seatVars, grabVars>>

\* handle_surface_commit(): the client may have committed another layer or
\* interactivity.  The handler first reads the first toplevel, which may be the
\* head of the list, and returns when that is fullscreen.
CommitLayer(l, ly, interactive) ==
  /\ Running
  /\ layer[l].stage # "absent"
  /\ layer' = [layer EXCEPT ![l] = [stage |-> layer[l].stage, layer |-> ly,
                                    interactive |-> interactive]]
  /\ \/ UNCHANGED focusVars
     \/ focusedLayer = l /\ SeatFocusSurface(l)
  /\ IF toplevels = <<>> THEN Undefined("commit_front") ELSE UNCHANGED fault
  /\ UNCHANGED <<windowVars, focusedLayer, seatVars, grabVars>>

\* Mutant: handle_unmap() keeps seat->focused_layer.
FocusedLayerWithoutKept(l) == focusedLayer

\* handle_unmap() clears seat->focused_layer if it is this surface.
FocusedLayerWithout(l) == IF focusedLayer = l THEN None ELSE focusedLayer

\* handle_unmap(): then the first toplevel gets the focus, if it is mapped.
UnmapLayer(l) ==
  /\ Running
  /\ layer[l].stage = "mapped"
  /\ layer' = [layer EXCEPT ![l].stage = "unmapped"]
  /\ focusedLayer' = FocusedLayerWithout(l)
  /\ IF toplevels # <<>> /\ Mapped(Front)
     THEN FocusToplevel(Front, FocusedLayerWithout(l))
     ELSE KeepFocus
  /\ UNCHANGED <<stage, seatVars, grabVars, fault>>

\* handle_destroy(); wlroots has unmapped the surface before.
DestroyLayer(l) ==
  /\ Running
  /\ layer[l].stage = "unmapped"
  /\ layer' = [layer EXCEPT ![l] = NoLayer]
  /\ UNCHANGED <<windowVars, focusedLayer, focusVars, seatVars, grabVars,
                 fault>>

\* The wl_surface itself goes, after its role object: wlr_seat lets go of it.
DestroySurface(s) ==
  /\ Running
  /\ kbFocus = s
  /\ IF s \in Toplevel THEN ~Live(s) ELSE layer[s].stage = "absent"
  /\ kbFocus' = None
  /\ UNCHANGED <<windowVars, layerVars, missed, seatVars, grabVars, fault>>

----------------------------------------------------------------------------
\* Keyboards and key bindings (seat.c).

\* Mutant: the keyboard is not linked into the seat's list.
NewKeyboardUnlinked(k) ==
  /\ Running
  /\ k \notin keyboards
  /\ seatKeyboard' = k
  /\ UNCHANGED <<windowVars, layerVars, focusVars, keyboards, grabVars, fault>>

\* handle_new_keyboard()
NewKeyboard(k) ==
  /\ Running
  /\ k \notin keyboards
  /\ keyboards' = keyboards \cup {k}
  /\ seatKeyboard' = k
  /\ UNCHANGED <<windowVars, layerVars, focusVars, grabVars, fault>>

\* keyboard_handle_destroy(): wlr_seat drops the keyboard if it is the seat's,
\* and no other keyboard takes its place.
DestroyKeyboard(k) ==
  /\ Running
  /\ k \in keyboards
  /\ keyboards' = keyboards \ {k}
  /\ seatKeyboard' = IF seatKeyboard = k THEN None ELSE seatKeyboard
  /\ UNCHANGED <<windowVars, layerVars, focusVars, grabVars, fault>>

\* keyboard_handle_modifiers(), and keyboard_handle_key() without a binding.
KeyboardEvent(k) ==
  /\ Running
  /\ k \in keyboards
  /\ seatKeyboard' = k
  /\ UNCHANGED <<windowVars, layerVars, focusVars, keyboards, grabVars, fault>>

\* cycle_toplevels(): the last toplevel becomes the first, focused or not.
KeyNextWindow ==
  /\ Running
  /\ keyboards # {}
  /\ toplevels # <<>>
  /\ Activate(toplevels[Len(toplevels)], focusedLayer)
  /\ toplevels' = MoveToFront(toplevels, Len(toplevels))
  /\ UNCHANGED <<stage, layerVars, seatVars, grabVars, fault>>

\* cycle_toplevels_reverse(): the second gets the focus, the first becomes the
\* last; after an only toplevel comes the head of the list.
KeyPreviousWindow ==
  /\ Running
  /\ keyboards # {}
  /\ toplevels # <<>>
  /\ IF Len(toplevels) > 1
     THEN Activate(toplevels[2], focusedLayer) /\ UNCHANGED fault
     ELSE Undefined("cycle_next") /\ UNCHANGED <<activated, focusVars>>
  /\ toplevels' = MoveToBack(toplevels, 1)
  /\ UNCHANGED <<stage, layerVars, seatVars, grabVars>>

\* handle_keybinding(), ACTION_ICONIFY on the first toplevel.
KeyIconify ==
  /\ Running
  /\ keyboards # {}
  /\ toplevels # <<>>
  /\ Mapped(Front)
  /\ Minimize(Front)

\* handle_keybinding(), ACTION_CLOSE, _TOGGLE_MAXIMIZE, _ICONIFY, _SHADE and
\* _UNSHADE take the first toplevel without asking whether there is one.
KeyOnEmptyList ==
  /\ Running
  /\ keyboards # {}
  /\ toplevels = <<>>
  /\ Undefined("front_of_empty")
  /\ UNCHANGED <<windowVars, layerVars, focusVars, seatVars, grabVars>>

----------------------------------------------------------------------------
Next ==
  \/ \E t \in Toplevel :
       \/ NewToplevel(t) \/ AckConfigure(t) \/ MapToplevel(t)
       \/ UnmapToplevel(t) \/ DestroyToplevel(t) \/ RequestMinimize(t)
       \/ \E mode \in {"move", "resize"} : BeginInteractive(t, mode)
       \/ ButtonPress(t)
  \/ \E l \in LayerSurface :
       \/ \E ly \in LayerType, interactive \in BOOLEAN :
            NewLayerSurface(l, ly, interactive)
              \/ CommitLayer(l, ly, interactive)
       \/ MapLayer(l) \/ UnmapLayer(l) \/ DestroyLayer(l)
       \/ ButtonPressLayer(l)
  \/ \E s \in Surface : DestroySurface(s)
  \/ \E k \in Keyboard :
       NewKeyboard(k) \/ DestroyKeyboard(k) \/ KeyboardEvent(k)
  \/ KeyNextWindow \/ KeyPreviousWindow \/ KeyIconify \/ KeyOnEmptyList
  \/ CursorMotion \/ ButtonRelease

Spec == Init /\ [][Next]_vars

----------------------------------------------------------------------------
\* Properties.

TypeOK ==
  /\ toplevels \in Seq(Toplevel)
  /\ stage \in [Toplevel -> ToplevelStage]
  /\ activated \subseteq Toplevel
  /\ layer \in [LayerSurface ->
                 [stage : LayerStage, layer : BACKGROUND .. OVERLAY,
                  interactive : BOOLEAN]]
  /\ focusedLayer \in LayerSurface \cup {None, Dangling}
  /\ kbFocus \in Surface \cup {None}
  /\ keyboards \subseteq Keyboard
  /\ seatKeyboard \in keyboards \cup {None}
  /\ cursorMode \in {"passthrough", "move", "resize"}
  /\ grabbed \in Toplevel \cup {None, Dangling}
  /\ missed \in BOOLEAN
  /\ fault \in FaultSite \cup {"none"}

\* server->toplevels holds each toplevel that exists, once: no callback, in any
\* order, leaves a freed window in the list or links one twice.
ListTracksToplevels ==
  /\ Elements(toplevels) = {t \in Toplevel : Live(t)}
  /\ NoDuplicates(toplevels)

\* The key bindings act on the first toplevel of the list.  When a toplevel has
\* the keyboard, no mapped one is before it: a binding never closes, minimises
\* or shades a window other than the one the user is typing into.  (Unless the
\* last window to be focused was not entered, for want of a keyboard.)
FrontIsFocused ==
  kbFocus \in Toplevel /\ ~missed =>
    \A i, j \in DOMAIN toplevels :
      i < j /\ toplevels[j] = kbFocus => ~Mapped(toplevels[i])

\* No window has the keyboard while a layer surface holds it exclusively (unless
\* the layer surface was not entered, for want of a keyboard).
LayerExcludesWindows == focusedLayer # None /\ ~missed => kbFocus \notin Toplevel

\* seat->focused_layer, once a layer surface set it, always is a mapped one:
\* it is cleared before the surface can be destroyed and freed.
FocusedLayerMapped ==
  focusedLayer \in LayerSurface => layer[focusedLayer].stage = "mapped"

\* While a layer surface holds the keyboard exclusively, no map, click,
\* minimise, unmap or key binding moves the keyboard to a toplevel.
ExclusiveLayerKeepsKeyboard ==
  [][focusedLayer # None /\ focusedLayer' # None /\ kbFocus' # kbFocus
       => kbFocus' \notin Toplevel]_vars

\* A grab follows a window that can still be moved: whatever unmaps, the cursor
\* is out of the grab before the window's configure state is reset.
GrabTracksWindow ==
  /\ cursorMode = "passthrough" <=> grabbed = None
  /\ grabbed \in Toplevel => stage[grabbed] \in {"configured", "mapped"}

\* The window t maps while no layer surface is mapped and there is a keyboard.
MapsAlone(t) ==
  /\ ~Mapped(t) /\ stage'[t] = "mapped"
  /\ \A l \in LayerSurface : layer[l].stage # "mapped"
  /\ seatKeyboard # None

\* A window that maps when no layer surface is mapped gets the keyboard: no
\* earlier sequence of maps, unmaps and commits of layer surfaces leaves the
\* seat refusing toplevels.  (Only what malloc() left in focused_layer, as long as
\* no layer surface has taken its place, may do so.)
NewWindowGetsKeyboard ==
  [][\A t \in Toplevel :
       MapsAlone(t) /\ focusedLayer # Dangling => kbFocus' = t]_vars

\* Desktop implements the abstract KeyboardFocus: kbFocus is its focus and
\* focused_layer its exclusive holder, whatever it is at first.
Abstract == INSTANCE KeyboardFocus
  WITH Window <- Toplevel, Layer <- LayerSurface,
       InitialHolder <- InitialFocusedLayer,
       focus <- kbFocus, holder <- focusedLayer

ImplementsKeyboardFocus == Abstract!Spec

\* What comments of the code claim, and the code does not keep.

\* xdg_shell.c: "Deactivate the previously focused surface. This lets the client
\* know it no longer has focus".
AtMostOneActivated ==
  \A t, u \in activated : Mapped(t) /\ Mapped(u) => t = u

\* xdg_shell.c: xdg_toplevel_map() focuses the new window: with no layer surface
\* there, it gets the keyboard.
LoneWindowGetsKeyboard ==
  [][\A t \in Toplevel : MapsAlone(t) => kbFocus' = t]_vars

\* layer_shell.c: a layer surface is focused on map "only if the currently
\* focused layer has a lower precedence".
OverlayKeepsKeyboard ==
  [][\A l \in LayerSurface :
       /\ focusedLayer = l /\ focusedLayer' = l
       /\ kbFocus = l /\ kbFocus' \in LayerSurface \ {l}
       => layer[l].layer < layer[kbFocus'].layer]_vars

\* xdg_shell.c: "Focus the next toplevel, if any": with another mapped window,
\* the keyboard does not stay on the one that was unmapped.
UnmapPassesKeyboard ==
  [][\A t \in Toplevel :
       /\ Mapped(t) /\ stage'[t] = "created" /\ kbFocus = t
       /\ focusedLayer = None /\ seatKeyboard # None /\ ~missed
       /\ \E u \in Toplevel \ {t} : Mapped(u)
       => kbFocus' # t]_vars

\* The same comment: with no next toplevel, none is read.
UnmapReadsAToplevel == fault # "unmap_next"

\* xdg_shell.c: after seat_focus_surface(), "wlroots will keep track of this and
\* automatically send key events to the appropriate clients".
KeyboardFollowsFocus == seatKeyboard # None => ~missed

\* xdg_shell.c: the node of a toplevel "is the only one for which we set the data
\* field", so that what the pointer is found over is a toplevel.
OnlyToplevelsAreHit == fault # "layer_clicked"

\* cursor.c: a motion in a grab moves "the grabbed toplevel", which exists.
GrabNeverDangles == grabbed # Dangling

\* wlr-layer-shell-unstable-v1.xml: "the seat will always give exclusive
\* keyboard focus to the top-most layer which has keyboard interactivity set to
\* exclusive".
ExclusiveLayerHasKeyboard ==
  /\ \E l \in LayerSurface : layer[l].stage = "mapped" /\ WantsKeyboard(l)
  /\ seatKeyboard # None /\ ~missed
  => kbFocus \in LayerSurface
=============================================================================
