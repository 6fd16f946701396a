---------------------------- MODULE OutputsProofs ----------------------------
(***************************************************************************)
(* Proofs about Outputs, for any number of outputs and layer surfaces.     *)
(* That frame callbacks come is left to TLC.                               *)
(***************************************************************************)
EXTENDS Outputs, TLAPS

USE OutputsDistinct

\* Every step keeps the types: what is shown, scheduled, waited for or
\* controlled is plugged in, and so is what a layer surface lives on, unless its
\* output was freed under it.
LEMMA TypeStep == TypeOK /\ [Next]_vars => TypeOK'
<1> SUFFICES ASSUME TypeOK, [Next]_vars PROVE TypeOK'
  OBVIOUS
<1> USE DEF TypeOK, LayerStage, FaultSite, Undefined, outputVars, frameVars,
            layerVars
<1>1. ASSUME NEW o \in Output, NewOutput(o)
      PROVE  TypeOK'
  BY <1>1 DEF NewOutput
<1>2. ASSUME NEW o \in Output, RequestState(o)
      PROVE  TypeOK'
  BY <1>2 DEF RequestState
<1>3. ASSUME NEW o \in Output, Unplug(o)
      PROVE  TypeOK'
  BY <1>3 DEF Unplug
<1>4. ASSUME NEW o \in Output, RequestFrame(o) \/ NewControl(o)
      PROVE  TypeOK'
  BY <1>4 DEF RequestFrame, NewControl
<1>5. ASSUME NEW o \in Output, ChangeGamma(o)
      PROVE  TypeOK'
  BY <1>5 DEF ChangeGamma, SetGamma
<1>6. ASSUME NEW o \in Output, Frame(o)
      PROVE  TypeOK'
  <2>1. o \in outputs /\ UNCHANGED <<outputVars, layerVars, windows, steady>>
    BY <1>6 DEF Frame
  <2>2. /\ scheduled' \subseteq outputs /\ waiting' \subseteq waiting
        /\ gammaChanged' \subseteq outputs /\ refused' \subseteq outputs
        /\ control' \subseteq control
    BY <1>6, <2>1
    DEF Frame, Commit, ReturnUncommitted, ReturnUntested, SetGamma
  <2>3. fault' \in FaultSite \cup {"none"}
    BY <1>6 DEF Frame
  <2> QED BY <2>1, <2>2, <2>3
<1>7. ASSUME NEW l \in LayerSurface,
             \/ \E o \in Output : NewLayerSurface(l, o)
             \/ NewLayerSurfaceAnywhere(l)
      PROVE  TypeOK'
  BY <1>7 DEF NewLayerSurface, NewLayerSurfaceAnywhere, TakeActiveOutput
<1>8. ASSUME NEW l \in LayerSurface,
             CommitLayer(l) \/ MapLayer(l) \/ UnmapLayer(l) \/ DestroyLayer(l)
      PROVE  TypeOK'
  BY <1>8 DEF CommitLayer, MapLayer, UnmapLayer, DestroyLayer, UseHome
<1>9. ASSUME NEW l \in LayerSurface,
             NewPopup(l) \/ NewNestedPopup(l) \/ DestroyPopup(l)
      PROVE  TypeOK'
  BY <1>9 DEF NewPopup, NewNestedPopup, DestroyPopup, UseHome
<1>10. CASE NewWindow \/ UseWindow \/ CloseWindow \/ TestConfiguration
  BY <1>10 DEF NewWindow, UseWindow, CloseWindow, TestConfiguration, AskForOutput
<1>11. CASE UNCHANGED vars
  BY <1>11 DEF vars
<1> QED
  BY <1>1, <1>2, <1>3, <1>4, <1>5, <1>6, <1>7, <1>8, <1>9, <1>10, <1>11 DEF Next

\* The types, in every reachable state.
THEOREM TypeCorrect == Spec => []TypeOK
<1>1. Init => TypeOK
  BY DEF Init, TypeOK, LayerStage, FaultSite
<1> QED BY <1>1, TypeStep, PTL DEF Spec

----------------------------------------------------------------------------
\* Every step that leaves a gamma table to be looked at leaves a frame on its way.
LEMMA GammaStep == GammaChangeHasFrame /\ [Next]_vars => GammaChangeHasFrame'
<1> SUFFICES ASSUME GammaChangeHasFrame, [Next]_vars PROVE GammaChangeHasFrame'
  OBVIOUS
<1> USE DEF GammaChangeHasFrame, Running, outputVars, frameVars, layerVars
<1>1. ASSUME NEW o \in Output, NewOutput(o) \/ RequestState(o) \/ Unplug(o)
      PROVE  GammaChangeHasFrame'
  BY <1>1 DEF NewOutput, RequestState, Unplug
<1>2. ASSUME NEW o \in Output, RequestFrame(o) \/ NewControl(o) \/ ChangeGamma(o)
      PROVE  GammaChangeHasFrame'
  BY <1>2 DEF RequestFrame, NewControl, ChangeGamma, SetGamma
<1>3. ASSUME NEW o \in Output, Frame(o)
      PROVE  GammaChangeHasFrame'
  BY <1>3 DEF Frame, Commit, ReturnUncommitted, ReturnUntested, SetGamma
<1>4. CASE UNCHANGED frameVars /\ (Running \/ UNCHANGED fault)
  BY <1>4
<1> QED
  BY <1>1, <1>2, <1>3, <1>4
  DEF Next, vars, NewLayerSurface, NewLayerSurfaceAnywhere, CommitLayer,
      MapLayer, UnmapLayer, DestroyLayer, NewPopup, NewNestedPopup,
      DestroyPopup, NewWindow, UseWindow, CloseWindow, TestConfiguration

\* A gamma table that was set, reset or lost always has a frame on its way that
\* will look at it.
THEOREM GammaCorrect == Spec => []GammaChangeHasFrame
<1>1. Init => GammaChangeHasFrame
  BY DEF Init, GammaChangeHasFrame
<1> QED BY <1>1, GammaStep, PTL DEF Spec

----------------------------------------------------------------------------
\* Every step that takes a frame off its way answers the client that waits for
\* it, or refuses it.
LEMMA WaiterStep == WaiterHasFrame /\ [Next]_vars => WaiterHasFrame'
<1> SUFFICES ASSUME WaiterHasFrame, [Next]_vars PROVE WaiterHasFrame'
  OBVIOUS
<1> USE DEF WaiterHasFrame, frameVars
<1>1. ASSUME NEW o \in Output, NewOutput(o) \/ RequestState(o) \/ Unplug(o)
      PROVE  WaiterHasFrame'
  BY <1>1 DEF NewOutput, RequestState, Unplug
<1>2. ASSUME NEW o \in Output, RequestFrame(o) \/ NewControl(o) \/ ChangeGamma(o)
      PROVE  WaiterHasFrame'
  BY <1>2 DEF RequestFrame, NewControl, ChangeGamma, SetGamma
<1>3. ASSUME NEW o \in Output, Frame(o)
      PROVE  WaiterHasFrame'
  BY <1>3 DEF Frame, Commit, ReturnUncommitted, ReturnUntested, SetGamma
<1>4. CASE UNCHANGED frameVars
  BY <1>4
<1> QED
  BY <1>1, <1>2, <1>3, <1>4
  DEF Next, vars, NewLayerSurface, NewLayerSurfaceAnywhere, CommitLayer,
      MapLayer, UnmapLayer, DestroyLayer, NewPopup, NewNestedPopup,
      DestroyPopup, NewWindow, UseWindow, CloseWindow, TestConfiguration

\* No client that waits for a frame callback is forgotten, for any number of
\* outputs, whatever becomes of them and of their gamma tables.
THEOREM WaiterCorrect == Spec => []WaiterHasFrame
<1>1. Init => WaiterHasFrame
  BY DEF Init, WaiterHasFrame
<1> QED BY <1>1, WaiterStep, PTL DEF Spec

----------------------------------------------------------------------------
\* While the outputs are steady, windows find an output to be on, and layer
\* surfaces the one they were put on.
SteadyInv ==
  steady =>
    /\ windows => shown # {}
    /\ \A l \in LayerSurface : home[l] # Freed
    /\ fault \notin {"output_freed", "no_output"}

\* Every step keeps it.
LEMMA SteadyStep == TypeOK /\ SteadyInv /\ [Next]_vars => SteadyInv'
<1> SUFFICES ASSUME TypeOK, SteadyInv, [Next]_vars, steady'
             PROVE  /\ windows' => shown' # {}
                    /\ \A l \in LayerSurface : home'[l] # Freed
                    /\ fault' \notin {"output_freed", "no_output"}
  BY DEF SteadyInv
<1> DEFINE Goal == /\ windows' => shown' # {}
                   /\ \A l \in LayerSurface : home'[l] # Freed
                   /\ fault' \notin {"output_freed", "no_output"}
<1> USE DEF SteadyInv, Undefined, outputVars, frameVars, layerVars
<1>t. home \in [LayerSurface -> outputs \cup {None, Freed}] /\ outputs \subseteq Output
      /\ shown \subseteq outputs
  BY DEF TypeOK
<1>0. ASSUME NEW o \in Output, Unplug(o)
      PROVE  Goal
  <2>1. steady /\ ~InUse(o) /\ (windows => shown' # {}) /\ UNCHANGED windows
    BY <1>0 DEF Unplug
  <2>2. \A l \in LayerSurface : home[l] # o
    <3>1. \A l \in LayerSurface : home[l] = o => layerStage[l] \in {"unmapped", "mapped"}
      BY DEF TypeOK, LayerStage
    <3> QED BY <2>1, <3>1 DEF InUse
  <2>3. home' = [l \in LayerSurface |-> IF home[l] = o THEN Freed ELSE home[l]]
    BY <1>0 DEF Unplug
  <2>4. UNCHANGED fault
    BY <1>0, <2>1 DEF Unplug, InUse
  <2> QED BY <2>1, <2>2, <2>3, <2>4
<1>1. ASSUME NEW o \in Output, NewOutput(o) \/ RequestState(o)
      PROVE  Goal
  <2>1. shown' \in {shown, shown \cup {o}} /\ UNCHANGED <<windows, home, steady, fault>>
    BY <1>1 DEF NewOutput, RequestState
  <2>2. shown # {} => shown' # {}
    BY <2>1
  <2> QED BY <2>1, <2>2
<1>2. ASSUME NEW o \in Output, RequestFrame(o) \/ NewControl(o) \/ ChangeGamma(o)
      PROVE  Goal
  <2>1. UNCHANGED <<outputs, shown, windows, home, steady, fault>>
    BY <1>2 DEF RequestFrame, NewControl, ChangeGamma
  <2> QED BY <2>1
<1>3. ASSUME NEW o \in Output, Frame(o)
      PROVE  Goal
  <2>1. UNCHANGED <<outputs, shown, windows, home, steady>>
    BY <1>3 DEF Frame
  <2>2. fault' \in {fault, "none", "no_scene_output", "pending_state"}
    BY <1>3 DEF Frame
  <2> QED BY <2>1, <2>2
<1>4. ASSUME NEW l \in LayerSurface,
             \/ \E o \in Output : NewLayerSurface(l, o)
             \/ NewLayerSurfaceAnywhere(l)
      PROVE  Goal
  <2>1. CASE \E o \in Output : NewLayerSurface(l, o)
    BY <2>1, <1>t DEF NewLayerSurface
  <2>2. CASE NewLayerSurfaceAnywhere(l)
    <3>1. UNCHANGED <<outputs, shown, windows, steady>>
      BY <2>2 DEF NewLayerSurfaceAnywhere
    <3>2. shown # {} \/ ~windows
      BY <3>1
    <3>3. fault' = fault /\ \A m \in LayerSurface : home'[m] # Freed
      BY <2>2, <3>1, <3>2, <1>t DEF NewLayerSurfaceAnywhere, TakeActiveOutput
    <3> QED BY <3>1, <3>3
  <2> QED BY <1>4, <2>1, <2>2
<1>5. ASSUME NEW l \in LayerSurface,
             \/ CommitLayer(l) \/ MapLayer(l) \/ UnmapLayer(l) \/ DestroyLayer(l)
             \/ NewPopup(l) \/ NewNestedPopup(l) \/ DestroyPopup(l)
      PROVE  Goal
  <2>1. UNCHANGED <<outputs, shown, windows, steady>>
    BY <1>5
    DEF CommitLayer, MapLayer, UnmapLayer, DestroyLayer, NewPopup,
        NewNestedPopup, DestroyPopup
  <2>2. home[l] # Freed
    BY <2>1
  <2>3. home' = home \/ home' = [home EXCEPT ![l] = None]
    BY <1>5
    DEF CommitLayer, MapLayer, UnmapLayer, DestroyLayer, NewPopup,
        NewNestedPopup, DestroyPopup
  <2>4. fault' \in {fault, "parent_tree"}
    BY <1>5, <2>2
    DEF CommitLayer, MapLayer, UnmapLayer, DestroyLayer, NewPopup,
        NewNestedPopup, DestroyPopup, UseHome
  <2> QED BY <2>1, <2>3, <2>4, <1>t
<1>6. CASE NewWindow \/ UseWindow \/ CloseWindow \/ TestConfiguration
  <2>1. UNCHANGED <<shown, home>> /\ (steady' => steady)
    BY <1>6 DEF NewWindow, UseWindow, CloseWindow, TestConfiguration
  <2>2. windows' => shown # {}
    BY <1>6 DEF NewWindow, UseWindow, CloseWindow, TestConfiguration
  <2>3. fault' \in {fault, "test_notify"}
    BY <1>6
    DEF NewWindow, UseWindow, CloseWindow, TestConfiguration, AskForOutput
  <2> QED BY <2>1, <2>2, <2>3
<1>7. CASE UNCHANGED vars
  BY <1>7 DEF vars
<1> QED BY <1>0, <1>1, <1>2, <1>3, <1>4, <1>5, <1>6, <1>7 DEF Next

\* An output is missed only after one was unplugged while it was in use, or if there
\* was a window while the layout was empty, for any number of outputs and surfaces.
THEOREM SteadyCorrect == Spec => []SteadyOutputsAreSafe
<1>1. Init => SteadyInv
  BY DEF Init, SteadyInv
<1>2. SteadyInv => SteadyOutputsAreSafe
  BY DEF SteadyInv, SteadyOutputsAreSafe
<1>3. Spec => []TypeOK
  BY TypeCorrect
<1> QED BY <1>1, <1>2, <1>3, SteadyStep, PTL DEF Spec
=============================================================================
