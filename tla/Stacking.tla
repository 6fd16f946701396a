------------------------------- MODULE Stacking -------------------------------
(***************************************************************************)
(* The order in which windows and layers are drawn: the children of the    *)
(* root of waybox's scene.  Each callback of Desktop is taken with what it *)
(* does to the scene, and the requests to be fullscreen are added, which   *)
(* raise a window without focusing it, and make the commits of layer       *)
(* surfaces return early while the first window of the list is fullscreen. *)
(* Grabs are left out: they touch neither the order nor the focus.         *)
(***************************************************************************)
EXTENDS Desktop

VARIABLES
  stack,       \* the children of the scene's root, the topmost first
  drawnIn,     \* the layer whose tree each layer surface's node is in
  fullscreen,  \* toplevels whose current state is fullscreen
  asked,       \* toplevels whose last configure says fullscreen
  lifted       \* ghost: raised without being focused, since the last focus

sceneVars == <<stack, drawnIn>>
fullscreenVars == <<fullscreen, asked>>
stackVars == <<sceneVars, fullscreenVars, lifted>>
stackingVars == <<vars, stackVars>>

Layers == BACKGROUND .. OVERLAY
Nodes == Toplevel \cup Layers

ASSUME LayersAreNoToplevels == Layers \cap (Toplevel \cup {None}) = {}

Above(x, y) ==
  \E i, j \in DOMAIN stack : i < j /\ stack[i] = x /\ stack[j] = y

\* wlr_scene_node_raise_to_top()
RaiseToTop(x) == MoveToFront(stack, PosOf(stack, x))

----------------------------------------------------------------------------
\* The output's layer trees, in the order of their fields: top over overlay.
StackInit ==
  /\ Init
  /\ stack = <<TOP, OVERLAY, BOTTOM, BACKGROUND>>
  /\ drawnIn = [l \in LayerSurface |-> None]
  /\ fullscreen = {}
  /\ asked = {}
  /\ lifted = {}

----------------------------------------------------------------------------
\* What the callbacks of Desktop do to the scene.

\* Mutant: the node keeps its place.
RaisesNothing(t, fl) ==
  /\ stack' = stack
  /\ lifted' = IF t = None \/ FocusRefused(t, fl) THEN lifted ELSE {}

\* focus_toplevel(), on the toplevel t or on none.
Raises(t, fl) ==
  IF t = None \/ FocusRefused(t, fl)
  THEN UNCHANGED <<stack, lifted>>
  ELSE stack' = RaiseToTop(t) /\ lifted' = {}

FocusRaises(t, fl) == Raises(t, fl) /\ UNCHANGED <<drawnIn, fullscreenVars>>

\* The toplevel to which an unmap, a minimise or the unmap of a layer surface
\* would pass the keyboard.
UnmapPassesTo(t) ==
  IF ~IsLast(t) /\ Mapped(NextOf(t)) THEN NextOf(t) ELSE None
MinimizePassesTo(t) ==
  IF Len(toplevels) = 1 THEN t ELSE IF IsLast(t) THEN None ELSE NextOf(t)
LayerPassesTo ==
  IF toplevels # <<>> /\ Mapped(Front) THEN Front ELSE None

\* Mutant: the window gets no node.
NewWithoutNode(t) == NewToplevel(t) /\ UNCHANGED stackVars

\* handle_new_xdg_toplevel(): the new node is the last child, the topmost.
New(t) ==
  /\ NewToplevel(t)
  /\ stack' = InsertFront(stack, t)
  /\ UNCHANGED <<drawnIn, fullscreenVars, lifted>>

Map(t) == MapToplevel(t) /\ FocusRaises(t, focusedLayer)
Press(t) == ButtonPress(t) /\ FocusRaises(t, focusedLayer)
RequestMin(t) == RequestMinimize(t) /\ FocusRaises(MinimizePassesTo(t), focusedLayer)
Iconify == KeyIconify /\ FocusRaises(MinimizePassesTo(Front), focusedLayer)
NextWindow ==
  KeyNextWindow /\ FocusRaises(toplevels[Len(toplevels)], focusedLayer)
PreviousWindow ==
  /\ KeyPreviousWindow
  /\ FocusRaises(IF Len(toplevels) > 1 THEN toplevels[2] ELSE None, focusedLayer)

\* wlroots forgets the state of a window that unmaps.
Unmap(t) ==
  /\ UnmapToplevel(t)
  /\ Raises(UnmapPassesTo(t), focusedLayer)
  /\ fullscreen' = fullscreen \ {t}
  /\ asked' = asked \ {t}
  /\ UNCHANGED drawnIn

\* wlroots destroys the node with the toplevel.
Destroy(t) ==
  /\ DestroyToplevel(t)
  /\ stack' = RemoveAt(stack, PosOf(stack, t))
  /\ lifted' = lifted \ {t}
  /\ fullscreen' = fullscreen \ {t}
  /\ asked' = asked \ {t}
  /\ UNCHANGED drawnIn

\* xdg_toplevel_request_fullscreen() turns the acknowledged state around, and
\* raises the window on the way into fullscreen.
RequestFullscreen(t) ==
  /\ Running
  /\ Live(t)
  /\ IF t \in fullscreen
     THEN asked' = asked \ {t} /\ UNCHANGED <<stack, lifted>>
     ELSE /\ asked' = asked \cup {t}
          /\ stack' = RaiseToTop(t)
          /\ lifted' = IF kbFocus = t THEN {} ELSE lifted \cup {t}
  /\ UNCHANGED <<vars, drawnIn, fullscreen>>

\* A commit of the client acknowledges what it was asked.
AckFullscreen(t) ==
  /\ Running
  /\ stage[t] \in {"configured", "mapped"}
  /\ fullscreen' = IF t \in asked THEN fullscreen \cup {t} ELSE fullscreen \ {t}
  /\ fullscreen' # fullscreen
  /\ UNCHANGED <<vars, sceneVars, asked, lifted>>

\* handle_layer_shell_surface(): the node is made in the tree of the layer.
NewLayer(l, ly, interactive) ==
  /\ NewLayerSurface(l, ly, interactive)
  /\ drawnIn' = [drawnIn EXCEPT ![l] = ly]
  /\ UNCHANGED <<stack, fullscreenVars, lifted>>

\* Mutant: the background is raised like the other layers.
RaisedOnCommitAny(ly) == RaiseToTop(ly)

\* handle_surface_commit() raises the whole layer of the surface.
RaisedOnCommit(ly) == IF ly = BACKGROUND THEN stack ELSE RaiseToTop(ly)

\* handle_surface_commit() returns early when the first toplevel is fullscreen,
\* which without a toplevel is anything.
ReturnsEarly == IF toplevels = <<>> THEN BOOLEAN ELSE {Front \in fullscreen}

\* handle_surface_commit()
Commit(l, ly, interactive) ==
  /\ CommitLayer(l, ly, interactive)
  /\ \E early \in ReturnsEarly :
       IF early
       THEN UNCHANGED <<sceneVars, focusVars>>
       ELSE /\ drawnIn' = IF ly # layer[l].layer
                          THEN [drawnIn EXCEPT ![l] = ly] ELSE drawnIn
            /\ stack' = RaisedOnCommit(ly)
            /\ focusedLayer = l => SeatFocusSurface(l)
  /\ UNCHANGED <<fullscreenVars, lifted>>

UnmapLayerSurface(l) ==
  UnmapLayer(l) /\ FocusRaises(LayerPassesTo, FocusedLayerWithout(l))

DestroyLayerSurface(l) ==
  /\ DestroyLayer(l)
  /\ drawnIn' = [drawnIn EXCEPT ![l] = None]
  /\ UNCHANGED <<stack, fullscreenVars, lifted>>

\* The callbacks that leave the scene alone.
OffScene ==
  /\ \/ \E t \in Toplevel : AckConfigure(t)
     \/ \E l \in LayerSurface : MapLayer(l) \/ ButtonPressLayer(l)
     \/ \E s \in Surface : DestroySurface(s)
     \/ \E k \in Keyboard : NewKeyboard(k) \/ DestroyKeyboard(k) \/ KeyboardEvent(k)
     \/ KeyOnEmptyList
  /\ UNCHANGED stackVars

StackNext ==
  \/ \E t \in Toplevel :
       \/ New(t) \/ Map(t) \/ Unmap(t) \/ Destroy(t) \/ RequestMin(t) \/ Press(t)
       \/ RequestFullscreen(t) \/ AckFullscreen(t)
  \/ \E l \in LayerSurface :
       \/ \E ly \in LayerType, interactive \in BOOLEAN :
            NewLayer(l, ly, interactive) \/ Commit(l, ly, interactive)
       \/ UnmapLayerSurface(l) \/ DestroyLayerSurface(l)
  \/ Iconify \/ NextWindow \/ PreviousWindow
  \/ OffScene

StackSpec == StackInit /\ [][StackNext]_stackingVars

----------------------------------------------------------------------------
\* Properties.

StackTypeOK ==
  /\ stack \in Seq(Nodes)
  /\ NoDuplicates(stack)
  /\ Elements(stack) = {t \in Toplevel : Live(t)} \cup Layers
  /\ drawnIn \in [LayerSurface -> LayerType \cup {None}]
  /\ fullscreen \subseteq Toplevel
  /\ asked \subseteq Toplevel
  /\ lifted \subseteq Toplevel

\* The user sees the window that gets the keys: no other mapped window is over
\* the one that has the keyboard, unless it made itself fullscreen since then.
\* Cycling and minimising reorder the list without raising anything when the
\* focus is refused, so the list alone does not say who is on top.  (Unless the
\* last window to be focused was not entered, for want of a keyboard.)
FocusedOnTop ==
  kbFocus \in Toplevel /\ ~missed =>
    \A t \in Toplevel \ {kbFocus} :
      Mapped(t) /\ Above(t, kbFocus) => t \in lifted

\* Whatever layers commit and windows do, a surface drawn in the background is
\* under every window.
BackgroundBeneath ==
  \A t \in Toplevel : Live(t) => Above(t, BACKGROUND)

\* wlr-layer-shell-unstable-v1.xml: set_layer is to "change the layer that the
\* surface is rendered on".
LayerChangeTakesEffect ==
  [][\A l \in LayerSurface :
       /\ toplevels # <<>>
       /\ layer[l].layer # layer'[l].layer /\ layer'[l].stage # "absent"
       => drawnIn'[l] = layer'[l].layer]_stackingVars

\* wlr-layer-shell-unstable-v1.xml: windows are "between the bottom and top
\* layers".
WindowsBetweenLayers ==
  \A t \in Toplevel, l \in LayerSurface :
    Mapped(t) /\ layer[l].stage = "mapped" =>
      IF drawnIn[l] < TOP THEN Above(t, drawnIn[l]) ELSE Above(drawnIn[l], t)
=============================================================================
