--------------------------- MODULE DecorationsProofs ---------------------------
(***************************************************************************)
(* Proofs about Decorations, for any number of windows, layer surfaces and *)
(* keyboards.                                                              *)
(***************************************************************************)
EXTENDS Decorations, DesktopProofs

\* What a window keeps is a decoration that was asked for a mode.
KeptAsked == kept \in [Toplevel -> asked \cup {None, Dangling}]

DecorInv == DecorTypeOK /\ KeptAsked /\ RequestServedOrKept

\* A callback that is not about decorations lets every window live on.
LEMMA OffDecorationsLive ==
  ASSUME ListInv, OffDecorations, NEW t \in Toplevel, Live(t)
  PROVE  stage'[t] # "absent"
<1>t. stage \in [Toplevel -> ToplevelStage]
  BY DEF ListInv, TypeOK
<1>1. CASE \E u \in Toplevel : NewToplevel(u) \/ MapToplevel(u)
  BY <1>1, <1>t DEF NewToplevel, MapToplevel, Live
<1>2. CASE UNCHANGED stage
  BY <1>2 DEF Live
<1> QED
  BY <1>1, <1>2
  DEF OffDecorations, RequestMinimize, Minimize, ButtonPress, NewLayerSurface,
      CommitLayer, MapLayer, UnmapLayer, DestroyLayer, DestroySurface,
      NewKeyboard, DestroyKeyboard, KeyNextWindow, KeyPreviousWindow,
      KeyIconify, windowVars

\* Every step is one of Desktop's, or leaves all but the fault alone.
LEMMA DecorStep ==
  ASSUME [DecorNext]_decoratingVars
  PROVE  \/ [Next]_vars
         \/ /\ UNCHANGED <<windowVars, layerVars, focusVars, seatVars, grabVars>>
            /\ fault' \in {fault, "none", "decoration_freed"}
<1>1. ASSUME NEW t \in Toplevel, InitialCommit(t)
      PROVE  /\ UNCHANGED <<windowVars, layerVars, focusVars, seatVars, grabVars>>
             /\ fault' \in {fault, "none", "decoration_freed"}
  BY <1>1 DEF InitialCommit, Undefined
<1>2. ASSUME OffDecorations
      PROVE  Next
  BY <1>2 DEF OffDecorations, Next
<1> QED
  BY <1>1, <1>2
  DEF DecorNext, decoratingVars, NewDecoration, RequestMode, DestroyDecoration,
      AckInitialConfigure, UnmapDecorated, DestroyDecorated, Next

\* Every step keeps the list of windows right.
LEMMA DecorListStep == ListInv /\ [DecorNext]_decoratingVars => ListInv'
<1> SUFFICES ASSUME ListInv, [DecorNext]_decoratingVars PROVE ListInv'
  OBVIOUS
<1>1. CASE [Next]_vars
  BY <1>1, ListInvStep
<1>2. CASE /\ UNCHANGED <<windowVars, layerVars, focusVars, seatVars, grabVars>>
           /\ fault' \in {fault, "none", "decoration_freed"}
  BY <1>2
  DEF ListInv, TypeOK, ListTracksToplevels, Live, FaultSite,
      windowVars, layerVars, focusVars, seatVars, grabVars
<1> QED BY <1>1, <1>2, DecorStep

\* Handing decoration d to the first window keeps the types.
LEMMA SetModeTypes ==
  ASSUME ListInv, DecorTypeOK, KeptAsked, NEW d \in asked', NEW committed,
         SetMode(d, committed), UNCHANGED decorated,
         asked \subseteq asked', asked' \subseteq decorated
  PROVE  /\ clientSide' \subseteq decorated
         /\ kept' \in [Toplevel -> asked' \cup {None, Dangling}]
         /\ lost' \subseteq asked'
<1>1. Front \in Toplevel
  <2>1. Live(d) /\ d \in Toplevel
    BY DEF DecorTypeOK
  <2>2. Len(toplevels) # 0
    BY <2>1, ListFacts
  <2> QED BY <2>2, ListFacts DEF Front
<1>2. Forgets(Front) \subseteq asked
  BY <1>1, SurfacesDistinct DEF Forgets, KeptAsked
<1> QED BY <1>1, <1>2 DEF SetMode, KeptAsked, DecorTypeOK

\* Every step keeps the types of the decorations.
LEMMA DecorTypeStep ==
  ListInv /\ DecorTypeOK /\ KeptAsked /\ [DecorNext]_decoratingVars
    => DecorTypeOK' /\ KeptAsked'
<1> SUFFICES ASSUME ListInv, DecorTypeOK, KeptAsked, [DecorNext]_decoratingVars
             PROVE  DecorTypeOK' /\ KeptAsked'
  OBVIOUS
<1> USE DEF decorationVars
<1>t. stage \in [Toplevel -> ToplevelStage]
  BY DEF ListInv, TypeOK
<1>w. ASSUME NEW t \in Toplevel
      PROVE  KeptWithout(t) \in [Toplevel -> (asked \ {t}) \cup {None, Dangling}]
  BY DEF KeptWithout, KeptAsked
<1>1. ASSUME NEW t \in Toplevel, NewDecoration(t)
      PROVE  DecorTypeOK' /\ KeptAsked'
  BY <1>1 DEF NewDecoration, DecorTypeOK, KeptAsked, Live, vars, windowVars
<1>2. ASSUME NEW t \in Toplevel, RequestMode(t)
      PROVE  DecorTypeOK' /\ KeptAsked'
  <2>1. /\ t \in asked' /\ asked \subseteq asked' /\ asked' \subseteq decorated
        /\ UNCHANGED <<vars, initialized, decorated>>
        /\ SetMode(t, initialized)
    BY <1>2 DEF RequestMode, DecorTypeOK
  <2>2. /\ clientSide' \subseteq decorated
        /\ kept' \in [Toplevel -> asked' \cup {None, Dangling}]
        /\ lost' \subseteq asked'
    BY <2>1, SetModeTypes
  <2> QED BY <2>1, <2>2 DEF DecorTypeOK, KeptAsked, Live, vars, windowVars
<1>3. ASSUME NEW t \in Toplevel, DestroyDecoration(t)
      PROVE  DecorTypeOK' /\ KeptAsked'
  BY <1>3, <1>w
  DEF DestroyDecoration, DecorTypeOK, KeptAsked, Live, vars, windowVars
<1>4. ASSUME NEW t \in Toplevel, InitialCommit(t)
      PROVE  DecorTypeOK' /\ KeptAsked'
  <2>1. /\ initialized' = initialized \cup {t} /\ Live(t)
        /\ UNCHANGED <<stage, decorated, asked>>
    BY <1>4 DEF InitialCommit, Live, windowVars
  <2>2. CASE kept[t] \in Toplevel
    <3>1. kept[t] \in asked'
      BY <2>1, <2>2, SurfacesDistinct DEF KeptAsked
    <3>2. SetMode(kept[t], initialized')
      BY <1>4, <2>2 DEF InitialCommit
    <3>3. /\ clientSide' \subseteq decorated
          /\ kept' \in [Toplevel -> asked' \cup {None, Dangling}]
          /\ lost' \subseteq asked'
      BY <2>1, <3>1, <3>2, SetModeTypes DEF DecorTypeOK
    <3> QED BY <2>1, <3>3 DEF DecorTypeOK, KeptAsked, Live
  <2>3. CASE kept[t] \notin Toplevel
    BY <1>4, <2>1, <2>3 DEF InitialCommit, DecorTypeOK, KeptAsked, Live
  <2> QED BY <2>2, <2>3
<1>5. ASSUME NEW t \in Toplevel, AckInitialConfigure(t)
      PROVE  DecorTypeOK' /\ KeptAsked'
  BY <1>5, <1>t
  DEF AckInitialConfigure, AckConfigure, DecorTypeOK, KeptAsked, Live
<1>6. ASSUME NEW t \in Toplevel, UnmapDecorated(t)
      PROVE  DecorTypeOK' /\ KeptAsked'
  BY <1>6, <1>t
  DEF UnmapDecorated, UnmapToplevel, DecorTypeOK, KeptAsked, Live
<1>7. ASSUME NEW t \in Toplevel, DestroyDecorated(t)
      PROVE  DecorTypeOK' /\ KeptAsked'
  <2>1. \A u \in Toplevel \ {t} : Live(u) => stage'[u] # "absent"
    BY <1>7, <1>t DEF DestroyDecorated, DestroyToplevel, Live
  <2>2. kept' \in [Toplevel -> asked' \cup {None, Dangling}]
    BY <1>7, <1>w DEF DestroyDecorated
  <2>3. Forgets(t) \subseteq asked
    BY SurfacesDistinct DEF Forgets, KeptAsked
  <2>4. /\ initialized' = initialized \ {t}
        /\ decorated' = decorated \ {t}
        /\ asked' = asked \ {t}
        /\ clientSide' = clientSide \ {t}
        /\ lost' = (lost \cup Forgets(t)) \ {t}
    BY <1>7 DEF DestroyDecorated
  <2> QED BY <2>1, <2>2, <2>3, <2>4 DEF DecorTypeOK, KeptAsked, Live
<1>8. ASSUME OffDecorations
      PROVE  DecorTypeOK' /\ KeptAsked'
  <2>1. UNCHANGED <<initialized, decorated, asked, clientSide, kept, lost>>
    BY <1>8 DEF OffDecorations
  <2>2. \A t \in Toplevel : Live(t) => stage'[t] # "absent"
    BY <1>8, OffDecorationsLive
  <2> QED BY <2>1, <2>2 DEF DecorTypeOK, KeptAsked, Live
<1>9. CASE UNCHANGED decoratingVars
  BY <1>9 DEF decoratingVars, vars, windowVars, DecorTypeOK, KeptAsked, Live
<1> QED
  BY <1>1, <1>2, <1>3, <1>4, <1>5, <1>6, <1>7, <1>8, <1>9 DEF DecorNext

\* Every step keeps each request answered, or kept for an answer.
LEMMA ServedStep ==
  ListInv /\ DecorInv /\ [DecorNext]_decoratingVars => RequestServedOrKept'
<1> SUFFICES ASSUME ListInv, DecorInv, [DecorNext]_decoratingVars
             PROVE  RequestServedOrKept'
  OBVIOUS
<1> USE DEF decorationVars
<1>t. /\ stage \in [Toplevel -> ToplevelStage]
      /\ DecorTypeOK /\ KeptAsked /\ RequestServedOrKept
      /\ kept \in [Toplevel -> asked \cup {None, Dangling}]
      /\ asked \subseteq Toplevel
  BY DEF ListInv, TypeOK, DecorInv, DecorTypeOK, KeptAsked
<1> DEFINE Keeps(u, d) == Live(u) /\ u \notin initialized /\ kept[u] = d
<1>s. ASSUME NEW d \in Toplevel, d \in asked, d \notin lost, d \notin clientSide
      PROVE  \E u \in Toplevel : Keeps(u, d)
  BY <1>s, <1>t DEF RequestServedOrKept
<1>m. ASSUME NEW d \in Toplevel, Live(d), NEW committed,
             SetMode(d, committed), initialized \subseteq committed,
             initialized' = committed, UNCHANGED stage,
             asked' \subseteq asked \cup {d},
             \A u \in committed \ initialized : kept[u] = d
      PROVE  RequestServedOrKept'
  <2>1. Front \in Toplevel /\ Live(Front)
    <3>1. Len(toplevels) # 0
      BY <1>m, ListFacts
    <3> QED BY <3>1, ListFacts DEF Front
  <2>2. /\ clientSide' = IF Front \in committed THEN clientSide \cup {d}
                         ELSE clientSide
        /\ kept' = [kept EXCEPT ![Front] = d]
        /\ lost' = (lost \cup Forgets(Front)) \ {d}
    BY <1>m DEF SetMode
  <2>3. d \in clientSide' \/ (Front \notin initialized' /\ kept'[Front] = d)
    BY <1>m, <1>t, <2>1, <2>2
  <2>4. ASSUME NEW e \in asked', e \notin lost', e # d, e \notin clientSide'
        PROVE  \E u \in Toplevel :
                 Live(u) /\ u \notin initialized' /\ kept'[u] = e
    <3>1. /\ e \in asked /\ e \in Toplevel
          /\ e \notin lost /\ e \notin Forgets(Front) /\ e \notin clientSide
      BY <1>m, <1>t, <2>2, <2>4
    <3>2. PICK u \in Toplevel : Keeps(u, e)
      BY <1>s, <3>1
    <3>3. u # Front
      BY <3>1, <3>2 DEF Forgets
    <3>4. u \notin initialized'
      BY <1>m, <2>4, <3>2
    <3> QED BY <1>t, <2>2, <3>2, <3>3, <3>4
  <2> QED BY <1>m, <2>1, <2>3, <2>4 DEF RequestServedOrKept, Live
<1>1. ASSUME NEW t \in Toplevel, RequestMode(t)
      PROVE  RequestServedOrKept'
  BY <1>1, <1>m, <1>t DEF RequestMode, vars, windowVars, DecorTypeOK
<1>2. ASSUME NEW t \in Toplevel, InitialCommit(t)
      PROVE  RequestServedOrKept'
  <2>1. /\ initialized' = initialized \cup {t}
        /\ UNCHANGED <<stage, asked>>
    BY <1>2 DEF InitialCommit, windowVars
  <2>2. CASE kept[t] \in Toplevel
    <3>1. SetMode(kept[t], initialized') /\ kept[t] \in asked
      BY <1>2, <1>t, <2>2, SurfacesDistinct DEF InitialCommit
    <3>2. Live(kept[t])
      BY <1>t, <3>1 DEF DecorTypeOK
    <3> QED BY <1>m, <2>1, <2>2, <3>1, <3>2
  <2>3. CASE kept[t] \notin Toplevel
    <3>1. UNCHANGED <<clientSide, kept, lost>>
      BY <1>2, <2>3 DEF InitialCommit
    <3>2. \A d \in Toplevel, u \in Toplevel : Keeps(u, d) => u # t
      BY <2>3
    <3>3. ASSUME NEW d \in asked', d \notin lost', d \notin clientSide'
          PROVE  \E u \in Toplevel :
                   Live(u)' /\ u \notin initialized' /\ kept'[u] = d
      <4>1. PICK u \in Toplevel : Keeps(u, d)
        BY <1>s, <1>t, <2>1, <3>1, <3>3
      <4>2. u # t /\ d \in Toplevel
        BY <1>t, <2>1, <3>2, <3>3, <4>1
      <4> QED BY <2>1, <3>1, <4>1, <4>2 DEF Live
    <3> QED BY <3>3 DEF RequestServedOrKept
  <2> QED BY <2>2, <2>3
<1>3. ASSUME NEW t \in Toplevel, DestroyDecoration(t) \/ DestroyDecorated(t)
      PROVE  RequestServedOrKept'
  <2> SUFFICES ASSUME NEW d \in asked', d \notin lost', d \notin clientSide'
               PROVE  \E u \in Toplevel :
                        Live(u)' /\ u \notin initialized' /\ kept'[u] = d
    BY DEF RequestServedOrKept
  <2>1. d \in asked /\ d # t /\ d \notin lost /\ d \notin clientSide
    BY <1>3 DEF DestroyDecoration, DestroyDecorated
  <2>2. PICK u \in Toplevel : Keeps(u, d)
    BY <1>s, <1>t, <2>1
  <2>3. KeptWithout(t)[u] = d
    BY <2>1, <2>2 DEF KeptWithout
  <2>4. CASE DestroyDecoration(t)
    BY <2>2, <2>3, <2>4 DEF DestroyDecoration, vars, windowVars, Live
  <2>5. CASE DestroyDecorated(t)
    <3>1. u # t
      BY <2>1, <2>2, <2>5, <1>t DEF DestroyDecorated, Forgets
    <3>2. Live(u)'
      BY <1>t, <2>2, <2>5, <3>1 DEF DestroyDecorated, DestroyToplevel, Live
    <3>3. u \notin initialized'
      BY <2>2, <2>5 DEF DestroyDecorated
    <3>4. kept'[u] = d
      BY <2>3, <2>5, <3>1 DEF DestroyDecorated, KeptWithout
    <3> QED BY <3>2, <3>3, <3>4
  <2> QED BY <1>3, <2>4, <2>5
<1>4. ASSUME initialized' \subseteq initialized,
             asked' \subseteq asked, UNCHANGED <<clientSide, kept, lost>>,
             \A u \in Toplevel : Live(u) => stage'[u] # "absent"
      PROVE  RequestServedOrKept'
  <2> SUFFICES ASSUME NEW d \in asked', d \notin lost', d \notin clientSide'
               PROVE  \E u \in Toplevel :
                        Live(u)' /\ u \notin initialized' /\ kept'[u] = d
    BY DEF RequestServedOrKept
  <2>1. PICK u \in Toplevel : Keeps(u, d)
    BY <1>4, <1>s, <1>t
  <2> QED BY <1>4, <2>1 DEF Live
<1>5. ASSUME NEW t \in Toplevel,
             NewDecoration(t) \/ AckInitialConfigure(t) \/ UnmapDecorated(t)
      PROVE  RequestServedOrKept'
  <2>1. \A u \in Toplevel : Live(u) => stage'[u] # "absent"
    BY <1>5, <1>t
    DEF NewDecoration, AckInitialConfigure, AckConfigure, UnmapDecorated,
        UnmapToplevel, vars, windowVars, Live
  <2> QED
    BY <1>4, <1>5, <2>1 DEF NewDecoration, AckInitialConfigure, UnmapDecorated
<1>6. ASSUME OffDecorations
      PROVE  RequestServedOrKept'
  <2>1. \A u \in Toplevel : Live(u) => stage'[u] # "absent"
    BY <1>6, OffDecorationsLive
  <2> QED BY <1>4, <1>6, <2>1 DEF OffDecorations
<1>7. CASE UNCHANGED decoratingVars
  BY <1>4, <1>7 DEF decoratingVars, vars, windowVars, Live
<1> QED BY <1>1, <1>2, <1>3, <1>5, <1>6, <1>7 DEF DecorNext

----------------------------------------------------------------------------
\* Decorations runs the callbacks of Desktop, so its list of windows is right.
LEMMA DecorListInv == DecorSpec => []ListInv
<1>1. Init => ListInv
  BY InitListInv
<1>2. DecorInit => Init
  BY DEF DecorInit
<1> QED BY <1>1, <1>2, DecorListStep, PTL DEF DecorSpec

\* Neither the modes of decorations nor the commit that reads a freed one touch the
\* focus: here, too, no mapped window comes before the one that has the keyboard in
\* the list from which SetMode takes the first.
THEOREM DecorFocusCorrect ==
  DecorSpec => [](FrontIsFocused /\ LayerExcludesWindows /\ FocusedLayerMapped)
<1>1. DecorInit => FocusInv
  BY SurfacesDistinct, InitialFocusedLayerAssumption
  DEF DecorInit, Init, FocusInv, FrontIsFocused, LayerExcludesWindows,
      FocusedLayerMapped
<1>2. ListInv /\ ListInv' /\ FocusInv /\ [DecorNext]_decoratingVars => FocusInv'
  <2> SUFFICES ASSUME ListInv, ListInv', FocusInv, [DecorNext]_decoratingVars
               PROVE  FocusInv'
    OBVIOUS
  <2>1. CASE [Next]_vars
    BY <2>1, FrontStep, LayerExcludesStep, FocusedLayerStep DEF FocusInv
  <2>2. CASE UNCHANGED <<windowVars, layerVars, focusVars>>
    BY <2>2
    DEF FocusInv, FrontIsFocused, LayerExcludesWindows, FocusedLayerMapped, Mapped,
        windowVars, layerVars, focusVars
  <2> QED BY <2>1, <2>2, DecorStep
<1>3. FocusInv => FrontIsFocused /\ LayerExcludesWindows /\ FocusedLayerMapped
  BY DEF FocusInv
<1> QED BY <1>1, <1>2, <1>3, DecorListInv, PTL DEF DecorSpec

\* Decorations implements KeyboardFocus too, whatever malloc() left in
\* focused_layer: the decoration callbacks never move the keyboard.
THEOREM DecorImplements == DecorSpec => ImplementsKeyboardFocus
<1>1. DecorInit => Abstract!Init
  BY DEF DecorInit, Init, Abstract!Init
<1>2. ListInv /\ [DecorNext]_decoratingVars => [Abstract!Next]_<<kbFocus, focusedLayer>>
  <2> SUFFICES ASSUME ListInv, [DecorNext]_decoratingVars
               PROVE  [Abstract!Next]_<<kbFocus, focusedLayer>>
    OBVIOUS
  <2>1. CASE [Next]_vars
    BY <2>1, KeyboardStep
  <2>2. CASE UNCHANGED <<layerVars, focusVars>>
    BY <2>2 DEF layerVars, focusVars
  <2> QED BY <2>1, <2>2, DecorStep
<1> QED
  BY <1>1, <1>2, DecorListInv, PTL
  DEF DecorSpec, ImplementsKeyboardFocus, Abstract!Spec

\* The initial state.
LEMMA DecorInitInv == DecorInit => DecorInv
BY DEF DecorInit, DecorInv, DecorTypeOK, KeptAsked, RequestServedOrKept

\* Decorations belong to windows that exist, whatever is created and destroyed:
\* none outlives its window in waybox's sets.
THEOREM DecorTypeCorrect == DecorSpec => []DecorTypeOK
<1> DEFINE I == DecorTypeOK /\ KeptAsked
<1>1. DecorInit => I
  BY DecorInitInv DEF DecorInv
<1>2. ListInv /\ I /\ [DecorNext]_decoratingVars => I'
  BY DecorTypeStep
<1> QED BY <1>1, <1>2, DecorListInv, PTL DEF DecorSpec

\* A client that asked for a decoration mode has its answer, or will have it at
\* some window's first commit, in every reachable state.
THEOREM RequestCorrect == DecorSpec => []RequestServedOrKept
<1>1. ListInv /\ DecorInv /\ [DecorNext]_decoratingVars => DecorInv'
  BY DecorTypeStep, ServedStep DEF DecorInv
<1>2. DecorInv => RequestServedOrKept
  BY DEF DecorInv
<1> QED BY <1>1, <1>2, DecorInitInv, DecorListInv, PTL DEF DecorSpec
=============================================================================
