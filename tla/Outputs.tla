------------------------------- MODULE Outputs -------------------------------
(***************************************************************************)
(* Outputs in waybox as they come and go: their frame loop with gamma      *)
(* control (output.c), the heads that output management is told of, and    *)
(* the layer surfaces that live on them (layer_shell.c), which keep the    *)
(* address of their wb_output and are not told when it is freed.  Windows  *)
(* only matter here in that their callbacks ask the layout for an output.  *)
(*                                                                         *)
(* One callback at a time.  A scheduled frame is an event on its way from  *)
(* the backend, and is the only thing assumed to come.                     *)
(***************************************************************************)
EXTENDS Integers, FiniteSets

CONSTANTS
  Output,        \* outputs that may be plugged in
  LayerSurface,  \* surfaces a client may give the layer_surface role
  None,          \* the NULL pointer
  Freed          \* a pointer to an output that is gone

ASSUME OutputsDistinct == {None, Freed} \cap Output = {} /\ None # Freed

VARIABLES
  outputs,       \* wb_server.outputs
  shown,         \* outputs in the layout, which have a scene output and a global
  heads,         \* outputs that output management clients see
  scheduled,     \* outputs with a frame event on its way
  waiting,       \* outputs that show a client waiting for a frame callback
  gammaChanged,  \* outputs whose gamma_lut_changed is set
  control,       \* outputs for which a client holds a gamma control
  layerStage,    \* how far each layer surface is in its life
  home,          \* wb_layer_surface.output
  popups,        \* layer surfaces with a popup
  windows,       \* whether there is any toplevel
  refused,       \* ghost: outputs whose last frame ended without a commit
  steady,        \* ghost: no output in use was unplugged, and windows had one
  fault          \* the site whose undefined behaviour ended the process

outputVars == <<outputs, shown, heads>>
frameVars  == <<scheduled, waiting, gammaChanged, refused>>
layerVars  == <<layerStage, home, popups>>
vars == <<outputVars, frameVars, control, layerVars, windows, steady, fault>>

LayerStage == {"absent", "unmapped", "mapped", "dropped"}
FaultSite == {"output_freed", "no_output", "no_scene_output", "pending_state",
              "test_notify", "parent_tree"}

\* A fault ends the process, and with it every step.
Running == fault = "none"

\* Undefined behaviour that reads an object which is not there.
Undefined(site) == fault' \in {"none", site}

----------------------------------------------------------------------------
\* What knows an output by its address: layer surfaces on it, a gamma control.
InUse(o) ==
  \/ \E l \in LayerSurface : layerStage[l] \in {"unmapped", "mapped"} /\ home[l] = o
  \/ o \in control

Init ==
  /\ outputs = {} /\ shown = {} /\ heads = {}
  /\ scheduled = {} /\ waiting = {} /\ gammaChanged = {} /\ refused = {}
  /\ control = {}
  /\ layerStage = [l \in LayerSurface |-> "absent"]
  /\ home = [l \in LayerSurface |-> None]
  /\ popups = {}
  /\ windows = FALSE
  /\ steady = TRUE
  /\ fault = "none"

----------------------------------------------------------------------------
\* Outputs come, change and go.

\* new_output_notify(): it returns early when the layout takes no output (which
\* is when memory is short), and else tells output management of this head only.
NewOutput(o) ==
  /\ Running
  /\ o \notin outputs
  /\ outputs' = outputs \cup {o}
  /\ scheduled' = scheduled \cup {o}
  /\ \/ shown' = shown \cup {o} /\ heads' = {o}
     \/ UNCHANGED <<shown, heads>>
  /\ UNCHANGED <<waiting, gammaChanged, refused, control, layerVars, windows,
                 steady, fault>>

\* output_request_state_notify(): the heads are set to a configuration of none.
RequestState(o) ==
  /\ Running
  /\ o \in outputs
  /\ heads' = {}
  /\ UNCHANGED <<outputs, shown, frameVars, control, layerVars, windows, steady,
                 fault>>

\* output_destroy_notify() frees the output and the trees of its layers, with
\* the nodes of their surfaces.  wlroots then ends the gamma control, which is
\* reported to handle_gamma_control_set_gamma().
Unplug(o) ==
  /\ Running
  /\ o \in outputs
  /\ outputs' = outputs \ {o}
  /\ shown' = shown \ {o}
  /\ heads' = heads \ {o}
  /\ scheduled' = scheduled \ {o}
  /\ waiting' = waiting \ {o}
  /\ gammaChanged' = gammaChanged \ {o}
  /\ refused' = refused \ {o}
  /\ control' = control \ {o}
  /\ home' = [l \in LayerSurface |-> IF home[l] = o THEN Freed ELSE home[l]]
  /\ steady' = (steady /\ ~InUse(o) /\ (windows => shown' # {}))
  /\ IF o \in control THEN Undefined("output_freed") ELSE UNCHANGED fault
  /\ UNCHANGED <<layerStage, popups, windows>>

\* wlroots reports every request to test a configuration to a listener that has
\* no callback.
TestConfiguration ==
  /\ Running
  /\ outputs # {}
  /\ fault' = "test_notify"
  /\ UNCHANGED <<outputVars, frameVars, control, layerVars, windows, steady>>

----------------------------------------------------------------------------
\* Frames and gamma (output.c).

\* A client commits content with a frame callback: wlroots schedules a frame.
RequestFrame(o) ==
  /\ Running
  /\ o \in shown
  /\ waiting' = waiting \cup {o}
  /\ scheduled' = scheduled \cup {o}
  /\ UNCHANGED <<outputVars, gammaChanged, refused, control, layerVars, windows,
                 steady, fault>>

\* A client names an output by its global, which the layout makes.
NewControl(o) ==
  /\ Running
  /\ o \in shown \ control
  /\ control' = control \cup {o}
  /\ UNCHANGED <<outputVars, frameVars, layerVars, windows, steady, fault>>

\* Mutant: the flag alone is set.
SetGammaUnscheduled(o) ==
  /\ gammaChanged' = gammaChanged \cup {o}
  /\ UNCHANGED scheduled

\* handle_gamma_control_set_gamma()
SetGamma(o) ==
  /\ gammaChanged' = gammaChanged \cup {o}
  /\ scheduled' = scheduled \cup {o}

\* A client sets a table, or destroys its control, which resets the table.
ChangeGamma(o) ==
  /\ Running
  /\ o \in control
  /\ control' \in {control, control \ {o}}
  /\ SetGamma(o)
  /\ UNCHANGED <<outputVars, waiting, refused, layerVars, windows, steady, fault>>

\* Mutant: the frame callbacks are left for the next frame.
CommitSilently(o) ==
  /\ gammaChanged' = gammaChanged \ {o}
  /\ refused' = refused \ {o}
  /\ scheduled' \in {scheduled, scheduled \ {o}}
  /\ UNCHANGED <<waiting, control>>

\* output_frame_notify(), to its end: what was committed may be followed by
\* another frame event.
Commit(o) ==
  /\ gammaChanged' = gammaChanged \ {o}
  /\ waiting' = waiting \ {o}
  /\ refused' = refused \ {o}
  /\ scheduled' \in {scheduled, scheduled \ {o}}
  /\ UNCHANGED control

\* output_frame_notify() returns because no state could be built or the gamma
\* table could not be put into it.
ReturnUncommitted(o) ==
  /\ gammaChanged' = gammaChanged \ {o}
  /\ refused' = refused \cup {o}
  /\ scheduled' = scheduled \ {o}
  /\ UNCHANGED <<waiting, control>>

\* output_frame_notify() returns because the output fails the test of the state.
\* It ends the gamma control, which is reported as a change; without a control
\* there is nothing to end.
ReturnUntested(o) ==
  IF o \in control
  THEN /\ control' = control \ {o}
       /\ refused' = refused \cup {o}
       /\ SetGamma(o)
       /\ UNCHANGED waiting
  ELSE ReturnUncommitted(o)

\* output_frame_notify().  The state it builds a changed gamma table into is not
\* initialised.
Frame(o) ==
  /\ Running
  /\ o \in scheduled
  /\ \/ Commit(o)
     \/ o \in gammaChanged /\ ReturnUncommitted(o)
     \/ o \in gammaChanged /\ ReturnUntested(o)
  /\ IF o \notin shown THEN Undefined("no_scene_output")
     ELSE IF o \in gammaChanged THEN Undefined("pending_state")
     ELSE UNCHANGED fault
  /\ UNCHANGED <<outputVars, layerVars, windows, steady>>

----------------------------------------------------------------------------
\* Windows: get_active_output() asks the layout, and finds none in an empty one.

AskForOutput == IF shown = {} THEN Undefined("no_output") ELSE UNCHANGED fault

NewWindow ==
  /\ Running
  /\ windows' = TRUE
  /\ steady' = (steady /\ shown # {})
  /\ UNCHANGED <<outputVars, frameVars, control, layerVars, fault>>

\* xdg_toplevel_map(), _commit(), _request_fullscreen() and _request_maximize().
UseWindow ==
  /\ Running
  /\ windows
  /\ AskForOutput
  /\ UNCHANGED <<outputVars, frameVars, control, layerVars, windows, steady>>

\* xdg_toplevel_destroy(), of the last window or of another.
CloseWindow ==
  /\ Running
  /\ windows
  /\ windows' \in BOOLEAN
  /\ AskForOutput
  /\ UNCHANGED <<outputVars, frameVars, control, layerVars, steady>>

----------------------------------------------------------------------------
\* Layer surfaces (layer_shell.c).

\* handle_layer_shell_surface(), of a surface that names the output o.
NewLayerSurface(l, o) ==
  /\ Running
  /\ layerStage[l] = "absent"
  /\ o \in shown
  /\ layerStage' = [layerStage EXCEPT ![l] = "unmapped"]
  /\ home' = [home EXCEPT ![l] = o]
  /\ UNCHANGED <<outputVars, frameVars, control, popups, windows, steady, fault>>

\* The output that get_active_output() finds for the first window is taken.
TakeActiveOutput(l) ==
  IF shown = {}
  THEN fault' = "no_output" /\ UNCHANGED layerVars
  ELSE /\ \E o \in shown : home' = [home EXCEPT ![l] = o]
       /\ layerStage' = [layerStage EXCEPT ![l] = "unmapped"]
       /\ UNCHANGED <<popups, fault>>

\* Mutant: handle_layer_shell_surface() does not ask whether there is a window.
NewLayerSurfaceUnasked(l) ==
  /\ Running
  /\ layerStage[l] = "absent"
  /\ TakeActiveOutput(l)
  /\ UNCHANGED <<outputVars, frameVars, control, windows, steady>>

\* handle_layer_shell_surface(), of a surface that names no output.  Without a
\* window it is forgotten: nothing listens to it, and it is never configured.
NewLayerSurfaceAnywhere(l) ==
  /\ Running
  /\ layerStage[l] = "absent"
  /\ IF windows
     THEN TakeActiveOutput(l)
     ELSE /\ layerStage' = [layerStage EXCEPT ![l] = "dropped"]
          /\ UNCHANGED <<home, popups, fault>>
  /\ UNCHANGED <<outputVars, frameVars, control, windows, steady>>

\* What the callbacks of a layer surface find at the address of its output, and
\* of the scene node that went with it.
UseHome(l) == IF home[l] = Freed THEN Undefined("output_freed") ELSE UNCHANGED fault

\* handle_surface_commit()
CommitLayer(l) ==
  /\ Running
  /\ layerStage[l] \in {"unmapped", "mapped"}
  /\ UseHome(l)
  /\ UNCHANGED <<outputVars, frameVars, control, layerVars, windows, steady>>

\* handle_map()
MapLayer(l) ==
  /\ Running
  /\ layerStage[l] = "unmapped"
  /\ layerStage' = [layerStage EXCEPT ![l] = "mapped"]
  /\ UseHome(l)
  /\ UNCHANGED <<outputVars, frameVars, control, home, popups, windows, steady>>

\* handle_unmap(); wlroots destroys the popups.
UnmapLayer(l) ==
  /\ Running
  /\ layerStage[l] = "mapped"
  /\ layerStage' = [layerStage EXCEPT ![l] = "unmapped"]
  /\ popups' = popups \ {l}
  /\ UseHome(l)
  /\ UNCHANGED <<outputVars, frameVars, control, home, windows, steady>>

\* Mutant: the address of the output is left behind.
DestroyLayerHomed(l) ==
  /\ Running
  /\ layerStage[l] \in {"unmapped", "dropped"}
  /\ layerStage' = [layerStage EXCEPT ![l] = "absent"]
  /\ popups' = popups \ {l}
  /\ UseHome(l)
  /\ UNCHANGED <<outputVars, frameVars, control, home, windows, steady>>

\* handle_destroy(); wlroots destroys the popups.
DestroyLayer(l) ==
  /\ Running
  /\ layerStage[l] \in {"unmapped", "dropped"}
  /\ layerStage' = [layerStage EXCEPT ![l] = "absent"]
  /\ home' = [home EXCEPT ![l] = None]
  /\ popups' = popups \ {l}
  /\ UseHome(l)
  /\ UNCHANGED <<outputVars, frameVars, control, windows, steady>>

----------------------------------------------------------------------------
\* Popups of layer surfaces.

\* handle_new_popup(): create_popup() in the tree of the layer surface, fitted
\* into its output.  handle_new_xdg_popup() saw no parent when it was made.
NewPopup(l) ==
  /\ Running
  /\ layerStage[l] \in {"unmapped", "mapped"}
  /\ popups' = popups \cup {l}
  /\ UseHome(l)
  /\ UNCHANGED <<outputVars, frameVars, control, layerStage, home, windows, steady>>

\* handle_new_xdg_popup(), of a popup of such a popup: the user data of the
\* parent, which is to be its scene tree, was never set.
NewNestedPopup(l) ==
  /\ Running
  /\ l \in popups
  /\ fault' = "parent_tree"
  /\ UNCHANGED <<outputVars, frameVars, control, layerVars, windows, steady>>

\* popup_handle_destroy()
DestroyPopup(l) ==
  /\ Running
  /\ l \in popups
  /\ popups' = popups \ {l}
  /\ UNCHANGED <<outputVars, frameVars, control, layerStage, home, windows, steady,
                 fault>>

----------------------------------------------------------------------------
Next ==
  \/ \E o \in Output :
       \/ NewOutput(o) \/ RequestState(o) \/ Unplug(o)
       \/ RequestFrame(o) \/ NewControl(o) \/ ChangeGamma(o) \/ Frame(o)
  \/ \E l \in LayerSurface :
       \/ \E o \in Output : NewLayerSurface(l, o)
       \/ NewLayerSurfaceAnywhere(l)
       \/ CommitLayer(l) \/ MapLayer(l) \/ UnmapLayer(l) \/ DestroyLayer(l)
       \/ NewPopup(l) \/ NewNestedPopup(l) \/ DestroyPopup(l)
  \/ NewWindow \/ UseWindow \/ CloseWindow
  \/ TestConfiguration

\* The backend raises the frame events that are scheduled.
Fairness == \A o \in Output : WF_vars(Frame(o))

Spec == Init /\ [][Next]_vars /\ Fairness

----------------------------------------------------------------------------
\* Properties.

TypeOK ==
  /\ outputs \subseteq Output
  /\ shown \subseteq outputs
  /\ heads \subseteq shown
  /\ scheduled \subseteq outputs
  /\ waiting \subseteq shown
  /\ gammaChanged \subseteq outputs
  /\ refused \subseteq outputs
  /\ control \subseteq outputs
  /\ layerStage \in [LayerSurface -> LayerStage]
  /\ popups \subseteq LayerSurface
  /\ home \in [LayerSurface -> outputs \cup {None, Freed}]
  /\ \A l \in LayerSurface :
       home[l] = None <=> layerStage[l] \in {"absent", "dropped"}
  /\ \A l \in popups : layerStage[l] \in {"unmapped", "mapped"}
  /\ windows \in BOOLEAN
  /\ steady \in BOOLEAN
  /\ fault \in FaultSite \cup {"none"}

\* A gamma table that a client set, reset, or lost because the output refused it,
\* has a frame on its way that will look at it, whatever came in between.
GammaChangeHasFrame == Running => gammaChanged \subseteq scheduled

\* No step forgets a client that waits for a frame callback: a frame is on its
\* way to it, unless the last one ended early for a gamma table.
WaiterHasFrame == waiting \ refused \subseteq scheduled

\* A client that waits for a frame callback is told of a frame, unless the frame
\* ended early for a gamma table: no unplugging, gamma change or lost control
\* makes the loop of frames stop.
FrameCallbackComes ==
  \A o \in Output : o \in waiting ~> (o \notin waiting \/ o \in refused \/ ~Running)

\* A callback of an output, a window or a layer surface misses an output only
\* after one was unplugged that a layer surface or a gamma control still used, or
\* if there was a window while the layout had no output: any other unplugging, in
\* whatever order with surfaces, popups and controls that come and go, is safe.
SteadyOutputsAreSafe ==
  steady => fault \notin {"output_freed", "no_output"}

\* What a comment and a protocol of the repository say, and the code does not
\* keep.

\* output.c: the end of the frame "lets the client know that we've displayed that
\* frame and it can prepare another one now".
EveryFrameCallbackComes ==
  \A o \in Output : o \in waiting ~> (o \notin waiting \/ ~Running)

\* wlr-layer-shell-unstable-v1.xml: "The closed event is sent by the compositor
\* when the surface will no longer be shown. The output may have been destroyed".
LayersHaveAnOutput ==
  \A l \in LayerSurface : home[l] # Freed

\* wlr-layer-shell-unstable-v1.xml: "You may pass NULL for output to allow the
\* compositor to decide which output to use."
NoLayerIsDropped ==
  [][\A l \in LayerSurface :
       layerStage[l] = "absent" /\ layerStage'[l] = "dropped" => shown = {}]_vars

\* output.c makes a head for every output that the layout takes.
HeadsAreOutputs == heads = shown
=============================================================================
