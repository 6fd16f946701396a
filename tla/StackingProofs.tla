---------------------------- MODULE StackingProofs ----------------------------
(***************************************************************************)
(* Proofs about Stacking, for any number of windows, layer surfaces and    *)
(* keyboards, on what DesktopProofs proves of the focus.                   *)
(***************************************************************************)
EXTENDS Stacking, DesktopProofs

USE LayersAreNoToplevels

Before(s, a, b) ==
  \E i, j \in DOMAIN s : i < j /\ s[i] = a /\ s[j] = b

\* Moving an element to the front changes the order of that element only, and
\* leaves nothing before it.
LEMMA MoveToFrontOrder ==
  ASSUME NEW S, NEW s \in Seq(S), NEW i \in 1 .. Len(s), NoDuplicates(s),
         NEW a, NEW b
  PROVE  /\ Before(MoveToFront(s, i), a, b) /\ a # s[i] => Before(s, a, b)
         /\ Before(s, a, b) /\ b # s[i] => Before(MoveToFront(s, i), a, b)
         /\ ~Before(MoveToFront(s, i), a, s[i])
<1> DEFINE f == MoveToFront(s, i)
<1>1. /\ Len(s) \in Nat /\ DOMAIN s = 1 .. Len(s) /\ DOMAIN f = 1 .. Len(s)
      /\ f[1] = s[i]
      /\ \A j \in 1 .. Len(s) : 1 < j /\ j <= i => f[j] = s[j - 1]
      /\ \A j \in 1 .. Len(s) : i < j => f[j] = s[j]
  BY LenProperties DEF MoveToFront
<1>2. NoDuplicates(f)
  BY MoveToFrontPermutes
<1> HIDE DEF f
<1>3. ASSUME NEW p \in 1 .. Len(s), NEW q \in 1 .. Len(s), p < q,
             f[p] = a, f[q] = b, a # s[i]
      PROVE  Before(s, a, b)
  <2> DEFINE p1 == IF p <= i THEN p - 1 ELSE p
             q1 == IF q <= i THEN q - 1 ELSE q
  <2>1. p # 1 /\ q # 1
    BY <1>1, <1>3
  <2>2. s[p1] = a /\ s[q1] = b
    BY <1>1, <1>3, <2>1
  <2>3. p1 \in 1 .. Len(s) /\ q1 \in 1 .. Len(s) /\ p1 < q1
    BY <1>1, <1>3, <2>1
  <2> HIDE DEF p1, q1
  <2> QED BY <1>1, <2>2, <2>3 DEF Before
<1>4. ASSUME NEW p \in 1 .. Len(s), NEW q \in 1 .. Len(s), p < q,
             s[p] = a, s[q] = b, b # s[i]
      PROVE  Before(f, a, b)
  <2> DEFINE p1 == IF p < i THEN p + 1 ELSE IF p = i THEN 1 ELSE p
             q1 == IF q < i THEN q + 1 ELSE q
  <2>1. q # i
    BY <1>4
  <2>2. p1 \in 1 .. Len(s) /\ q1 \in 1 .. Len(s) /\ p1 < q1
    BY <1>1, <1>4, <2>1
  <2>3. f[p1] = a
    BY <1>1, <1>4, <2>2
  <2>4. f[q1] = b
    BY <1>1, <1>4, <2>1, <2>2
  <2> HIDE DEF p1, q1
  <2> QED BY <1>1, <2>2, <2>3, <2>4 DEF Before
<1>5. ~Before(f, a, s[i])
  BY <1>1, <1>2 DEF Before, NoDuplicates
<1> QED BY <1>1, <1>3, <1>4, <1>5 DEF Before, f

\* Inserting at the front leaves the order of the others, with the new element
\* before all of them.
LEMMA InsertFrontOrder ==
  ASSUME NEW S, NEW s \in Seq(S), NEW x \in S, NEW a, NEW b
  PROVE  /\ Before(InsertFront(s, x), a, b) /\ a # x => Before(s, a, b)
         /\ Before(s, a, b) => Before(InsertFront(s, x), a, b)
         /\ b \in Elements(s) => Before(InsertFront(s, x), x, b)
         /\ x \notin Elements(s) => ~Before(InsertFront(s, x), a, x)
<1> DEFINE f == InsertFront(s, x)
<1>1. /\ Len(s) \in Nat /\ DOMAIN s = 1 .. Len(s) /\ DOMAIN f = 1 .. Len(s) + 1
      /\ f[1] = x
      /\ \A j \in 1 .. Len(s) : f[j + 1] = s[j]
      /\ \A j \in 2 .. Len(s) + 1 : f[j] = s[j - 1] /\ j - 1 \in 1 .. Len(s)
  BY LenProperties DEF InsertFront
<1> HIDE DEF f
<1>2. ASSUME NEW p \in DOMAIN f, NEW q \in DOMAIN f, p < q,
             f[p] = a, f[q] = b, a # x
      PROVE  Before(s, a, b)
  <2>1. p \in 2 .. Len(s) + 1 /\ q \in 2 .. Len(s) + 1
    BY <1>1, <1>2
  <2>2. s[p - 1] = a /\ s[q - 1] = b /\ p - 1 < q - 1
    BY <1>1, <1>2, <2>1
  <2> QED BY <1>1, <2>1, <2>2 DEF Before
<1>3. ASSUME NEW p \in DOMAIN s, NEW q \in DOMAIN s, p < q, s[p] = a, s[q] = b
      PROVE  Before(f, a, b)
  <2>1. p + 1 \in DOMAIN f /\ q + 1 \in DOMAIN f /\ p + 1 < q + 1
    BY <1>1, <1>3
  <2> QED BY <1>1, <1>3, <2>1 DEF Before
<1>4. ASSUME NEW q \in DOMAIN s, s[q] = b
      PROVE  Before(f, x, b)
  <2>1. 1 \in DOMAIN f /\ q + 1 \in DOMAIN f /\ 1 < q + 1
    BY <1>1, <1>4
  <2> QED BY <1>1, <1>4, <2>1 DEF Before
<1>5. x \notin Elements(s) => ~Before(f, a, x)
  <2> SUFFICES ASSUME NEW p \in DOMAIN f, NEW q \in DOMAIN f, p < q, f[q] = x
               PROVE  x \in Elements(s)
    BY DEF Before
  <2>1. q \in 2 .. Len(s) + 1
    BY <1>1
  <2> QED BY <1>1, <2>1 DEF Elements
<1> QED BY <1>2, <1>3, <1>4, <1>5 DEF Before, Elements, f

\* Removing an element leaves the order of the others.
LEMMA RemoveAtOrder ==
  ASSUME NEW S, NEW s \in Seq(S), NEW i \in 1 .. Len(s), NoDuplicates(s),
         NEW a, NEW b
  PROVE  /\ Before(RemoveAt(s, i), a, b) => Before(s, a, b)
         /\ Before(s, a, b) /\ a # s[i] /\ b # s[i] => Before(RemoveAt(s, i), a, b)
<1> DEFINE f == RemoveAt(s, i)
<1>1. /\ Len(s) \in Nat /\ DOMAIN s = 1 .. Len(s) /\ DOMAIN f = 1 .. Len(s) - 1
      /\ \A j \in 1 .. Len(s) - 1 : j < i => f[j] = s[j]
      /\ \A j \in 1 .. Len(s) - 1 : ~(j < i) => f[j] = s[j + 1]
  BY LenProperties DEF RemoveAt
<1> HIDE DEF f
<1>2. ASSUME NEW p \in 1 .. Len(s) - 1, NEW q \in 1 .. Len(s) - 1, p < q,
             f[p] = a, f[q] = b
      PROVE  Before(s, a, b)
  <2> DEFINE p1 == IF p < i THEN p ELSE p + 1
             q1 == IF q < i THEN q ELSE q + 1
  <2>1. s[p1] = a /\ s[q1] = b
    BY <1>1, <1>2
  <2>2. p1 \in 1 .. Len(s) /\ q1 \in 1 .. Len(s) /\ p1 < q1
    BY <1>1, <1>2
  <2> HIDE DEF p1, q1
  <2> QED BY <1>1, <2>1, <2>2 DEF Before
<1>3. ASSUME NEW p \in 1 .. Len(s), NEW q \in 1 .. Len(s), p < q,
             s[p] = a, s[q] = b, a # s[i], b # s[i]
      PROVE  Before(f, a, b)
  <2> DEFINE p1 == IF p < i THEN p ELSE p - 1
             q1 == IF q < i THEN q ELSE q - 1
  <2>1. p # i /\ q # i
    BY <1>3
  <2>2. p1 \in 1 .. Len(s) - 1 /\ q1 \in 1 .. Len(s) - 1 /\ p1 < q1
    BY <1>1, <1>3, <2>1
  <2>0. ASSUME NEW j \in 1 .. Len(s), j > i
        PROVE  f[j - 1] = s[j]
    <3>1. j - 1 \in 1 .. Len(s) - 1 /\ ~(j - 1 < i) /\ (j - 1) + 1 = j
      BY <1>1, <2>0
    <3> QED BY <1>1, <3>1
  <2>3. f[p1] = a
    <3>1. CASE p < i
      BY <1>1, <1>3, <2>2, <3>1
    <3>2. CASE p > i
      BY <1>3, <2>0, <3>2
    <3> QED BY <1>1, <2>1, <3>1, <3>2
  <2>4. f[q1] = b
    <3>1. CASE q < i
      BY <1>1, <1>3, <2>2, <3>1
    <3>2. CASE q > i
      BY <1>3, <2>0, <3>2
    <3> QED BY <1>1, <2>1, <3>1, <3>2
  <2> HIDE DEF p1, q1
  <2> QED BY <1>1, <2>2, <2>3, <2>4 DEF Before
<1> QED BY <1>1, <1>2, <1>3 DEF Before, f

----------------------------------------------------------------------------
\* What a callback does to the scene.

LiveToplevels == {t \in Toplevel : Live(t)}

Scene == stack \in Seq(Nodes) /\ NoDuplicates(stack)
           /\ Elements(stack) = LiveToplevels \cup Layers

Inserted(t) ==
  /\ t \in Toplevel \ LiveToplevels
  /\ stack' = InsertFront(stack, t)
  /\ LiveToplevels' = LiveToplevels \cup {t}

Removed(t) ==
  /\ t \in LiveToplevels
  /\ stack' = RemoveAt(stack, PosOf(stack, t))
  /\ LiveToplevels' = LiveToplevels \ {t}

Raised(x) == stack' = RaiseToTop(x) /\ UNCHANGED LiveToplevels

Kept == UNCHANGED stack /\ UNCHANGED LiveToplevels

SceneOutcome ==
  \/ \E t \in Toplevel : Inserted(t) \/ Removed(t)
  \/ \E x \in LiveToplevels \cup (Layers \ {BACKGROUND}) : Raised(x)
  \/ Kept

\* focus_toplevel() raises a window that exists, or nothing.
LEMMA RaisesScene ==
  ASSUME NEW t \in LiveToplevels \cup {None}, NEW fl, Raises(t, fl),
         UNCHANGED LiveToplevels
  PROVE  SceneOutcome
BY DEF Raises, SceneOutcome, Raised, Kept

\* Whom the callbacks give the focus exists.
LEMMA PassesToLive ==
  ASSUME ListInv, NEW t \in LiveToplevels
  PROVE  /\ UnmapPassesTo(t) \in LiveToplevels \cup {None}
         /\ MinimizePassesTo(t) \in LiveToplevels \cup {None}
<1>1. ~IsLast(t) => NextOf(t) \in LiveToplevels
  BY NextOfIsLive DEF LiveToplevels
<1> QED BY <1>1 DEF UnmapPassesTo, MinimizePassesTo

\* The first, the second and the last window of a list that is not empty exist.
LEMMA FrontIsLive ==
  ASSUME ListInv, toplevels # <<>>
  PROVE  /\ Front \in LiveToplevels
         /\ toplevels[Len(toplevels)] \in LiveToplevels
         /\ Len(toplevels) > 1 => toplevels[2] \in LiveToplevels
<1>1. Len(toplevels) # 0
  BY ListFacts, EmptySeq
<1> QED BY <1>1, ListFacts DEF Front, LiveToplevels

\* Every step does one of these things to the scene.
LEMMA SceneStep ==
  ASSUME ListInv, [StackNext]_stackingVars
  PROVE  SceneOutcome
<1> USE DEF windowVars, stackVars, sceneVars
<1>t. stage \in [Toplevel -> ToplevelStage]
  BY DEF ListInv, TypeOK
<1>s. ASSUME UNCHANGED stage
      PROVE  UNCHANGED LiveToplevels
  BY <1>s DEF LiveToplevels, Live
<1>e. ASSUME NEW t \in LiveToplevels, NEW st, st # "absent",
             stage' = [stage EXCEPT ![t] = st]
      PROVE  UNCHANGED LiveToplevels
  BY <1>e, <1>t DEF LiveToplevels, Live
<1>1. ASSUME NEW t \in Toplevel, New(t)
      PROVE  SceneOutcome
  <2>1. t \notin LiveToplevels /\ stack' = InsertFront(stack, t)
    BY <1>1 DEF New, NewToplevel, LiveToplevels
  <2>2. LiveToplevels' = LiveToplevels \cup {t}
    BY <1>1, <1>t DEF New, NewToplevel, LiveToplevels, Live
  <2> QED BY <2>1, <2>2 DEF SceneOutcome, Inserted
<1>2. ASSUME NEW t \in Toplevel, Map(t)
      PROVE  SceneOutcome
  <2>1. t \in LiveToplevels /\ stage' = [stage EXCEPT ![t] = "mapped"]
    BY <1>2 DEF Map, MapToplevel, LiveToplevels, Live
  <2>2. UNCHANGED LiveToplevels
    BY <1>e, <2>1
  <2> QED BY <1>2, <2>1, <2>2, RaisesScene DEF Map, FocusRaises
<1>3. ASSUME NEW t \in Toplevel, Unmap(t)
      PROVE  SceneOutcome
  <2>1. t \in LiveToplevels /\ stage' = [stage EXCEPT ![t] = "created"]
    BY <1>3 DEF Unmap, UnmapToplevel, LiveToplevels, Live, Mapped
  <2>2. UNCHANGED LiveToplevels
    BY <1>e, <2>1
  <2> QED BY <1>3, <2>1, <2>2, PassesToLive, RaisesScene DEF Unmap
<1>4. ASSUME NEW t \in Toplevel, Destroy(t)
      PROVE  SceneOutcome
  <2>1. t \in LiveToplevels /\ stack' = RemoveAt(stack, PosOf(stack, t))
    BY <1>4 DEF Destroy, DestroyToplevel, LiveToplevels, Live
  <2>2. LiveToplevels' = LiveToplevels \ {t}
    BY <1>4, <1>t DEF Destroy, DestroyToplevel, LiveToplevels, Live
  <2> QED BY <2>1, <2>2 DEF SceneOutcome, Removed
<1>5. ASSUME NEW t \in Toplevel, RequestMin(t)
      PROVE  SceneOutcome
  <2>1. t \in LiveToplevels /\ UNCHANGED LiveToplevels
    BY <1>5, <1>s DEF RequestMin, RequestMinimize, Minimize, LiveToplevels
  <2> QED BY <1>5, <2>1, PassesToLive, RaisesScene DEF RequestMin, FocusRaises
<1>6. ASSUME NEW t \in Toplevel, Press(t)
      PROVE  SceneOutcome
  <2>1. t \in LiveToplevels /\ UNCHANGED LiveToplevels
    BY <1>6, <1>s DEF Press, ButtonPress, LiveToplevels, Live, Mapped
  <2> QED BY <1>6, <2>1, RaisesScene DEF Press, FocusRaises
<1>7. ASSUME NEW t \in Toplevel, RequestFullscreen(t) \/ AckFullscreen(t)
      PROVE  SceneOutcome
  <2>1. UNCHANGED LiveToplevels
    BY <1>7, <1>s DEF RequestFullscreen, AckFullscreen, vars
  <2>2. UNCHANGED stack \/ (t \in LiveToplevels /\ stack' = RaiseToTop(t))
    BY <1>7 DEF RequestFullscreen, AckFullscreen, LiveToplevels
  <2> QED BY <2>1, <2>2 DEF SceneOutcome, Raised, Kept
<1>8. ASSUME NEW l \in LayerSurface, NEW ly \in LayerType, NEW interactive,
             Commit(l, ly, interactive)
      PROVE  SceneOutcome
  <2>1. UNCHANGED LiveToplevels
    BY <1>8, <1>s DEF Commit, CommitLayer
  <2>2. \/ UNCHANGED stack
        \/ ly \in Layers \ {BACKGROUND} /\ stack' = RaiseToTop(ly)
    BY <1>8, LayerTypeAssumption DEF Commit, RaisedOnCommit, Layers
  <2> QED BY <2>1, <2>2 DEF SceneOutcome, Raised, Kept
<1>9. ASSUME NEW l \in LayerSurface, UnmapLayerSurface(l)
      PROVE  SceneOutcome
  <2>1. UNCHANGED LiveToplevels
    BY <1>9, <1>s DEF UnmapLayerSurface, UnmapLayer
  <2>2. LayerPassesTo \in LiveToplevels \cup {None}
    BY FrontIsLive DEF LayerPassesTo
  <2> QED BY <1>9, <2>1, <2>2, RaisesScene DEF UnmapLayerSurface, FocusRaises
<1>10. ASSUME Iconify
       PROVE  SceneOutcome
  <2>1. Front \in LiveToplevels /\ UNCHANGED LiveToplevels
    BY <1>10, <1>s, FrontIsLive DEF Iconify, KeyIconify, Minimize
  <2> QED BY <1>10, <2>1, PassesToLive, RaisesScene DEF Iconify, FocusRaises
<1>11. ASSUME NextWindow \/ PreviousWindow
       PROVE  SceneOutcome
  <2>1. toplevels # <<>> /\ UNCHANGED LiveToplevels
    BY <1>11, <1>s DEF NextWindow, KeyNextWindow, PreviousWindow, KeyPreviousWindow
  <2> QED
    BY <1>11, <2>1, FrontIsLive, RaisesScene
    DEF NextWindow, PreviousWindow, FocusRaises
<1>12. ASSUME \/ \E l \in LayerSurface : DestroyLayerSurface(l)
              \/ \E l \in LayerSurface, ly \in LayerType, interactive \in BOOLEAN :
                   NewLayer(l, ly, interactive)
              \/ UNCHANGED stackingVars
       PROVE  SceneOutcome
  BY <1>12, <1>s
  DEF DestroyLayerSurface, DestroyLayer, NewLayer, NewLayerSurface, stackingVars,
      vars, SceneOutcome, Kept
<1>13. ASSUME OffScene
       PROVE  SceneOutcome
  <2>1. CASE UNCHANGED stage
    BY <1>13, <1>s, <2>1 DEF OffScene, SceneOutcome, Kept
  <2>2. ASSUME NEW t \in Toplevel, AckConfigure(t)
        PROVE  SceneOutcome
    <3>1. t \in LiveToplevels /\ stage' = [stage EXCEPT ![t] = "configured"]
      BY <2>2 DEF AckConfigure, LiveToplevels, Live
    <3>2. UNCHANGED LiveToplevels
      BY <1>e, <3>1
    <3> QED BY <1>13, <3>2 DEF OffScene, SceneOutcome, Kept
  <2> QED
    BY <1>13, <2>1, <2>2
    DEF OffScene, MapLayer, ButtonPressLayer, DestroySurface, NewKeyboard,
        DestroyKeyboard, KeyboardEvent, KeyOnEmptyList
<1> QED
  BY <1>1, <1>2, <1>3, <1>4, <1>5, <1>6, <1>7, <1>8, <1>9, <1>10, <1>11, <1>12,
     <1>13
  DEF StackNext

----------------------------------------------------------------------------
\* The initial scene: the four layers, the background last.
LEMMA InitScene ==
  ASSUME StackInit
  PROVE  Scene /\ StackTypeOK /\ FocusedOnTop /\ BackgroundBeneath
<1> USE DEF TOP, OVERLAY, BOTTOM, BACKGROUND, Layers
<1>1. /\ stack = <<TOP, OVERLAY, BOTTOM, BACKGROUND>>
      /\ LiveToplevels = {}
  BY DEF StackInit, Init, LiveToplevels, Live
<1>2. stack \in Seq(Nodes)
  BY <1>1 DEF Nodes
<1>3. Len(stack) = 4 /\ DOMAIN stack = 1 .. 4
  BY <1>1
<1>4. NoDuplicates(stack) /\ Elements(stack) = Layers
  BY <1>1, <1>3 DEF NoDuplicates, Elements
<1>5. Scene
  BY <1>1, <1>2, <1>4 DEF Scene
<1>6. StackTypeOK
  <2>1. drawnIn \in [LayerSurface -> LayerType \cup {None}]
    BY DEF StackInit
  <2>2. fullscreen = {} /\ asked = {} /\ lifted = {}
    BY DEF StackInit
  <2> QED BY <1>5, <2>1, <2>2 DEF Scene, StackTypeOK, LiveToplevels
<1>7. FocusedOnTop
  BY SurfacesDistinct DEF StackInit, Init, FocusedOnTop
<1>8. BackgroundBeneath
  BY <1>1 DEF BackgroundBeneath, LiveToplevels
<1> QED BY <1>5, <1>6, <1>7, <1>8

\* The scene holds each window that exists, and each layer, once.
LEMMA SceneInvStep ==
  ASSUME Scene, SceneOutcome
  PROVE  Scene'
<1> USE DEF Scene
<1>1. ASSUME NEW t \in Toplevel, Inserted(t)
      PROVE  Scene'
  <2>1. t \in Nodes /\ t \notin Elements(stack)
    BY <1>1 DEF Inserted, Nodes
  <2>2. /\ stack' = InsertFront(stack, t)
        /\ stack \in Seq(Nodes) /\ NoDuplicates(stack)
    BY <1>1 DEF Inserted
  <2>3. /\ InsertFront(stack, t) \in Seq(Nodes)
        /\ Elements(InsertFront(stack, t)) = Elements(stack) \cup {t}
        /\ NoDuplicates(InsertFront(stack, t))
    <3> HIDE DEF Scene
    <3>1. InsertFront(stack, t) \in Seq(Nodes)
      BY <2>1, <2>2, InsertFrontIsSeq
    <3>2. /\ Elements(InsertFront(stack, t)) = Elements(stack) \cup {t}
          /\ NoDuplicates(InsertFront(stack, t))
      BY <2>1, <2>2, InsertFrontElements
    <3> QED BY <3>1, <3>2
  <2> QED BY <1>1, <2>2, <2>3 DEF Inserted
<1>2. ASSUME NEW t \in Toplevel, Removed(t)
      PROVE  Scene'
  <2>1. /\ PosOf(stack, t) \in 1 .. Len(stack)
        /\ stack[PosOf(stack, t)] = t
    BY <1>2, PosOfElement DEF Removed
  <2>2. t \notin Layers
    BY <1>2
  <2> QED
    BY <1>2, <2>1, <2>2, RemoveAtIsSeq, RemoveAtElements DEF Removed
<1>3. ASSUME NEW x \in LiveToplevels \cup (Layers \ {BACKGROUND}), Raised(x)
      PROVE  Scene'
  <2>1. PosOf(stack, x) \in 1 .. Len(stack)
    BY <1>3, PosOfElement
  <2> QED
    BY <1>3, <2>1, MoveToFrontIsSeq, MoveToFrontPermutes DEF Raised, RaiseToTop
<1>4. CASE Kept
  BY <1>4 DEF Kept
<1> QED BY <1>1, <1>2, <1>3, <1>4 DEF SceneOutcome

\* Raising x puts it over everything and leaves the others as they are.
LEMMA RaisedOrder ==
  ASSUME Scene, NEW x \in LiveToplevels \cup Layers, stack' = RaiseToTop(x),
         NEW a, NEW b
  PROVE  /\ Above(a, b)' /\ a # x => Above(a, b)
         /\ Above(a, b) /\ b # x => Above(a, b)'
         /\ ~Above(a, x)'
<1>1. /\ PosOf(stack, x) \in 1 .. Len(stack)
      /\ stack[PosOf(stack, x)] = x
  BY PosOfElement DEF Scene
<1>2. stack \in Seq(Nodes) /\ NoDuplicates(stack)
  BY DEF Scene
<1>3. /\ Before(stack', a, b) /\ a # x => Before(stack, a, b)
      /\ Before(stack, a, b) /\ b # x => Before(stack', a, b)
      /\ ~Before(stack', a, x)
  BY <1>1, <1>2, MoveToFrontOrder DEF RaiseToTop
<1> QED BY <1>3 DEF Above, Before

\* What is beneath every window stays so: the background is never raised.
LEMMA BackgroundStep ==
  ASSUME Scene, BackgroundBeneath, SceneOutcome
  PROVE  BackgroundBeneath'
<1>l. BACKGROUND \in Layers /\ \A t \in Toplevel : t # BACKGROUND
  BY DEF Layers, BACKGROUND, OVERLAY
<1>b. \A t \in LiveToplevels : Above(t, BACKGROUND)
  BY DEF BackgroundBeneath, LiveToplevels
<1>g. (\A t \in LiveToplevels' : Above(t, BACKGROUND)') => BackgroundBeneath'
  BY DEF BackgroundBeneath, LiveToplevels
<1>1. ASSUME NEW t \in Toplevel, Inserted(t)
      PROVE  BackgroundBeneath'
  <2>1. Above(t, BACKGROUND)'
    BY <1>1, <1>l, InsertFrontOrder
    DEF Inserted, Above, Before, Scene, Nodes
  <2>2. ASSUME NEW u \in LiveToplevels PROVE Above(u, BACKGROUND)'
    <3>1. Before(stack, u, BACKGROUND)
      BY <1>b DEF Above, Before
    <3>2. stack' = InsertFront(stack, t) /\ stack \in Seq(Nodes) /\ t \in Nodes
      BY <1>1 DEF Inserted, Scene, Nodes
    <3>3. Before(stack', u, BACKGROUND)
      BY ONLY <3>1, <3>2, InsertFrontOrder
    <3> QED BY <3>3 DEF Above, Before
  <2> QED BY <1>1, <1>g, <2>1, <2>2 DEF Inserted
<1>2. ASSUME NEW t \in Toplevel, Removed(t)
      PROVE  BackgroundBeneath'
  <2>1. /\ PosOf(stack, t) \in 1 .. Len(stack)
        /\ stack[PosOf(stack, t)] = t
    BY <1>2, PosOfElement DEF Removed, Scene
  <2>2. stack \in Seq(Nodes) /\ NoDuplicates(stack)
    BY DEF Scene
  <2>3. ASSUME NEW u \in LiveToplevels \ {t}
        PROVE  Above(u, BACKGROUND)'
    <3>1. Before(stack, u, BACKGROUND)
      BY <1>b DEF Above, Before
    <3>2. u # t /\ BACKGROUND # t
      BY <1>l
    <3>3. Before(stack', u, BACKGROUND)
      BY <1>2, <2>1, <2>2, <3>1, <3>2, RemoveAtOrder DEF Removed
    <3> QED BY <3>3 DEF Above, Before
  <2> QED BY <1>2, <1>g, <2>3 DEF Removed
<1>3. ASSUME NEW x \in LiveToplevels \cup (Layers \ {BACKGROUND}), Raised(x)
      PROVE  BackgroundBeneath'
  <2>1. x # BACKGROUND
    BY <1>l DEF LiveToplevels
  <2>2. \A u \in LiveToplevels : Above(u, BACKGROUND)'
    BY <1>3, <1>b, <2>1, RaisedOrder DEF Raised
  <2> QED BY <1>3, <1>g, <2>2 DEF Raised
<1>4. CASE Kept
  BY <1>4, <1>b, <1>g DEF Kept, Above
<1> QED BY <1>1, <1>2, <1>3, <1>4 DEF SceneOutcome

\* Every step keeps the types of what is not the scene.
LEMMA StackTypeStep ==
  ASSUME ListInv, StackTypeOK, [StackNext]_stackingVars
  PROVE  /\ drawnIn' \in [LayerSurface -> LayerType \cup {None}]
         /\ fullscreen' \subseteq Toplevel
         /\ asked' \subseteq Toplevel
         /\ lifted' \subseteq Toplevel
<1> DEFINE Goal == /\ drawnIn' \in [LayerSurface -> LayerType \cup {None}]
                   /\ fullscreen' \subseteq Toplevel
                   /\ asked' \subseteq Toplevel
                   /\ lifted' \subseteq Toplevel
<1> USE DEF StackTypeOK, stackVars, sceneVars, fullscreenVars
<1>1. ASSUME NEW t, NEW fl, FocusRaises(t, fl)
      PROVE  Goal
  BY <1>1 DEF FocusRaises, Raises
<1>2. ASSUME NEW t \in Toplevel, New(t) \/ Destroy(t) \/ Unmap(t)
      PROVE  Goal
  BY <1>2 DEF New, Destroy, Unmap, Raises
<1>3. ASSUME NEW t \in Toplevel, RequestFullscreen(t) \/ AckFullscreen(t)
      PROVE  Goal
  BY <1>3 DEF RequestFullscreen, AckFullscreen
<1>4. ASSUME NEW l \in LayerSurface, NEW ly \in LayerType, NEW interactive,
             NewLayer(l, ly, interactive) \/ Commit(l, ly, interactive)
      PROVE  Goal
  BY <1>4 DEF NewLayer, Commit
<1>5. ASSUME NEW l \in LayerSurface, DestroyLayerSurface(l)
      PROVE  Goal
  BY <1>5 DEF DestroyLayerSurface
<1>6. CASE OffScene \/ UNCHANGED stackingVars
  BY <1>6 DEF OffScene, stackingVars
<1> QED
  BY <1>1, <1>2, <1>3, <1>4, <1>5, <1>6
  DEF StackNext, Map, RequestMin, Press, UnmapLayerSurface, Iconify, NextWindow,
      PreviousWindow

----------------------------------------------------------------------------
\* Who is over the window that has the keyboard.

\* A step that raises nothing, moves the keyboard to no window, and maps only the
\* window that has the keyboard, or any while a layer surface holds it.
Settled ==
  /\ UNCHANGED <<stack, lifted>>
  /\ \/ UNCHANGED <<kbFocus, missed>>
     \/ kbFocus' \notin Toplevel
     \/ missed'
  /\ \A t \in Toplevel :
       stage'[t] = "mapped" => Mapped(t) \/ kbFocus = t \/ focusedLayer # None

\* Such a step leaves the focused window on top.
LEMMA OnTopSettled ==
  ASSUME FocusInv, FocusedOnTop, Settled
  PROVE  FocusedOnTop'
<1>1. focusedLayer # None /\ ~missed => kbFocus \notin Toplevel
  BY DEF FocusInv, LayerExcludesWindows
<1> QED BY <1>1 DEF Settled, FocusedOnTop, Mapped, Above

\* A step that raises the window it gives the keyboard to does, too.
LEMMA OnTopRaised ==
  ASSUME Scene, NEW x \in LiveToplevels, stack' = RaiseToTop(x),
         kbFocus' = x \/ missed'
  PROVE  FocusedOnTop'
<1>1. \A t : ~Above(t, x)'
  BY RaisedOrder
<1> QED BY <1>1 DEF FocusedOnTop

\* So does focus_toplevel(), which raises and focuses the same window, or returns
\* early.
LEMMA OnTopFocus ==
  ASSUME Scene, FocusInv, FocusedOnTop,
         NEW t \in LiveToplevels \cup {None}, NEW fl, Raises(t, fl),
         IF t = None THEN UNCHANGED focusVars ELSE Activate(t, fl),
         \A u \in Toplevel : stage'[u] = "mapped" =>
           Mapped(u) \/ (u = t /\ fl = focusedLayer)
  PROVE  FocusedOnTop'
<1>1. CASE t = None \/ FocusRefused(t, fl)
  <2>1. UNCHANGED <<stack, lifted, kbFocus, missed>>
    BY <1>1 DEF Raises, Activate, focusVars
  <2>2. \A u \in Toplevel : stage'[u] = "mapped" =>
          Mapped(u) \/ kbFocus = u \/ focusedLayer # None
    BY <1>1, SurfacesDistinct DEF FocusRefused
  <2> QED BY <2>1, <2>2, OnTopSettled DEF Settled
<1>2. CASE ~(t = None \/ FocusRefused(t, fl))
  <2>1. stack' = RaiseToTop(t) /\ t \in LiveToplevels
    BY <1>2 DEF Raises
  <2>2. kbFocus' = t \/ missed'
    BY <1>2 DEF Activate, SeatFocusSurface
  <2> QED BY <2>1, <2>2, OnTopRaised
<1> QED BY <1>1, <1>2

\* Every step leaves the window that has the keyboard on top.
LEMMA OnTopStep ==
  ASSUME ListInv, FocusInv, Scene, FocusedOnTop, [StackNext]_stackingVars
  PROVE  FocusedOnTop'
<1> USE DEF windowVars, stackVars, sceneVars
<1>t. stage \in [Toplevel -> ToplevelStage]
  BY DEF ListInv, TypeOK
<1>s. ASSUME UNCHANGED stage
      PROVE  \A u \in Toplevel : stage'[u] = "mapped" => Mapped(u)
  BY <1>s DEF Mapped
<1>1. ASSUME NEW t \in Toplevel, New(t)
      PROVE  FocusedOnTop'
  <2>1. /\ t \notin Elements(stack) /\ t \in Nodes /\ stack \in Seq(Nodes)
        /\ stack' = InsertFront(stack, t)
    BY <1>1 DEF New, NewToplevel, Scene, LiveToplevels, Nodes
  <2>2. \A a, b : Before(stack', a, b) /\ a # t => Before(stack, a, b)
    BY <2>1, InsertFrontOrder
  <2>3. \A u \in Toplevel : stage'[u] = "mapped" => Mapped(u) /\ u # t
    BY <1>1, <1>t DEF New, NewToplevel, Mapped
  <2>4. UNCHANGED <<kbFocus, missed, lifted>>
    BY <1>1 DEF New, NewToplevel, focusVars
  <2> QED BY <2>2, <2>3, <2>4 DEF FocusedOnTop, Above, Before, Mapped
<1>2. ASSUME NEW t \in Toplevel, Map(t)
      PROVE  FocusedOnTop'
  <2>1. t \in LiveToplevels
    BY <1>2 DEF Map, MapToplevel, LiveToplevels, Live
  <2>2. \A u \in Toplevel : stage'[u] = "mapped" => Mapped(u) \/ u = t
    BY <1>2, <1>t DEF Map, MapToplevel, Mapped
  <2>3. Raises(t, focusedLayer) /\ Activate(t, focusedLayer) /\ t # None
    BY <1>2, SurfacesDistinct
    DEF Map, MapToplevel, FocusToplevel, FocusRaises
  <2> QED BY <2>1, <2>2, <2>3, OnTopFocus
<1>3. ASSUME NEW t \in Toplevel, Unmap(t)
      PROVE  FocusedOnTop'
  <2>1. t \in LiveToplevels
    BY <1>3 DEF Unmap, UnmapToplevel, LiveToplevels, Live, Mapped
  <2>2. \A u \in Toplevel : stage'[u] = "mapped" => Mapped(u)
    BY <1>3, <1>t DEF Unmap, UnmapToplevel, Mapped
  <2>3. UnmapPassesTo(t) \in LiveToplevels \cup {None}
    BY <2>1, PassesToLive
  <2>4. IF UnmapPassesTo(t) = None THEN UNCHANGED focusVars
        ELSE Activate(UnmapPassesTo(t), focusedLayer)
    BY <1>3, <2>1, NextOfIsLive, SurfacesDistinct
    DEF Unmap, UnmapToplevel, UnmapPassesTo, FocusToplevel, KeepFocus,
        LiveToplevels
  <2>5. Raises(UnmapPassesTo(t), focusedLayer)
    BY <1>3 DEF Unmap
  <2> QED BY <2>2, <2>3, <2>4, <2>5, OnTopFocus
<1>4. ASSUME NEW t \in Toplevel, Destroy(t)
      PROVE  FocusedOnTop'
  <2>1. /\ t \in Elements(stack) /\ t \in LiveToplevels
        /\ stack \in Seq(Nodes) /\ NoDuplicates(stack)
    BY <1>4 DEF Destroy, DestroyToplevel, Scene, LiveToplevels, Live
  <2>2. PosOf(stack, t) \in 1 .. Len(stack) /\ stack[PosOf(stack, t)] = t
    BY <2>1, PosOfElement
  <2>3. stack' = RemoveAt(stack, PosOf(stack, t))
    BY <1>4 DEF Destroy
  <2>4. \A a, b : Before(stack', a, b) => Before(stack, a, b)
    BY <2>1, <2>2, <2>3, RemoveAtOrder
  <2>5. \A u \in Toplevel : stage'[u] = "mapped" => Mapped(u) /\ u # t
    BY <1>4, <1>t DEF Destroy, DestroyToplevel, Mapped
  <2>6. UNCHANGED <<kbFocus, missed>> /\ lifted' = lifted \ {t}
    BY <1>4 DEF Destroy, DestroyToplevel, focusVars
  <2> QED BY <2>4, <2>5, <2>6 DEF FocusedOnTop, Above, Before, Mapped
<1>5. ASSUME NEW t \in LiveToplevels, Minimize(t),
             Raises(MinimizePassesTo(t), focusedLayer)
      PROVE  FocusedOnTop'
  <2>1. MinimizePassesTo(t) \in LiveToplevels \cup {None}
    BY PassesToLive
  <2>2. IF MinimizePassesTo(t) = None THEN UNCHANGED focusVars
        ELSE Activate(MinimizePassesTo(t), focusedLayer)
    BY <1>5, NextOfIsLive, SurfacesDistinct
    DEF Minimize, MinimizePassesTo, FocusToplevel, KeepFocus, LiveToplevels
  <2>3. \A u \in Toplevel : stage'[u] = "mapped" => Mapped(u)
    BY <1>5, <1>s DEF Minimize
  <2> QED BY <1>5, <2>1, <2>2, <2>3, OnTopFocus
<1>6. ASSUME NEW t \in Toplevel, RequestMin(t)
      PROVE  FocusedOnTop'
  BY <1>5, <1>6 DEF RequestMin, RequestMinimize, FocusRaises, LiveToplevels
<1>7. ASSUME NEW t \in Toplevel, Press(t)
      PROVE  FocusedOnTop'
  <2>1. t \in LiveToplevels
    BY <1>7 DEF Press, ButtonPress, LiveToplevels, Live, Mapped
  <2>2. \A u \in Toplevel : stage'[u] = "mapped" => Mapped(u)
    BY <1>7, <1>s DEF Press, ButtonPress
  <2>3. Raises(t, focusedLayer) /\ Activate(t, focusedLayer) /\ t # None
    BY <1>7, SurfacesDistinct
    DEF Press, ButtonPress, FocusToplevel, FocusRaises
  <2> QED BY <2>1, <2>2, <2>3, OnTopFocus
<1>8. ASSUME NEW t \in Toplevel, RequestFullscreen(t)
      PROVE  FocusedOnTop'
  <2>1. t \in LiveToplevels /\ UNCHANGED <<kbFocus, missed, stage>>
    BY <1>8 DEF RequestFullscreen, LiveToplevels, vars, focusVars
  <2>2. CASE t \in fullscreen
    BY <1>8, <2>1, <2>2, OnTopSettled DEF RequestFullscreen, Settled, Mapped
  <2>3. CASE t \notin fullscreen /\ kbFocus = t
    BY <1>8, <2>1, <2>3, OnTopRaised DEF RequestFullscreen
  <2>4. CASE t \notin fullscreen /\ kbFocus # t
    <3>1. lifted' = lifted \cup {t} /\ stack' = RaiseToTop(t)
      BY <1>8, <2>4 DEF RequestFullscreen
    <3>2. \A a, b : Above(a, b)' /\ a # t => Above(a, b)
      BY <2>1, <3>1, RaisedOrder
    <3> QED BY <2>1, <3>1, <3>2 DEF FocusedOnTop, Mapped
  <2> QED BY <2>2, <2>3, <2>4
<1>9. ASSUME NEW l \in LayerSurface, NEW ly \in LayerType, NEW interactive,
             Commit(l, ly, interactive)
      PROVE  FocusedOnTop'
  <2>1. /\ UNCHANGED <<stage, lifted>>
        /\ \/ UNCHANGED <<kbFocus, missed>>
           \/ kbFocus' \notin Toplevel
           \/ missed'
    BY <1>9, SurfacesDistinct DEF Commit, CommitLayer, SeatFocusSurface, focusVars
  <2>2. CASE UNCHANGED stack
    BY <2>1, <2>2, OnTopSettled DEF Settled, Mapped
  <2>3. CASE ly \in Layers /\ stack' = RaiseToTop(ly)
    <3>1. \A a, b : Above(a, b)' /\ a # ly => Above(a, b)
      BY <2>3, RaisedOrder
    <3> QED BY <2>1, <2>3, <3>1 DEF FocusedOnTop, Mapped
  <2> QED
    BY <1>9, <2>2, <2>3, LayerTypeAssumption DEF Commit, RaisedOnCommit, Layers
<1>10. ASSUME NEW l \in LayerSurface, UnmapLayerSurface(l)
       PROVE  FocusedOnTop'
  <2>1. LayerPassesTo \in LiveToplevels \cup {None}
    BY FrontIsLive DEF LayerPassesTo
  <2>2. \A u \in Toplevel : stage'[u] = "mapped" => Mapped(u)
    BY <1>10, <1>s DEF UnmapLayerSurface, UnmapLayer
  <2>3. IF LayerPassesTo = None THEN UNCHANGED focusVars
        ELSE Activate(LayerPassesTo, FocusedLayerWithout(l))
    BY <1>10, FrontIsLive, SurfacesDistinct
    DEF UnmapLayerSurface, UnmapLayer, LayerPassesTo, FocusToplevel, KeepFocus,
        LiveToplevels
  <2>4. Raises(LayerPassesTo, FocusedLayerWithout(l))
    BY <1>10 DEF UnmapLayerSurface, FocusRaises
  <2> QED BY <2>1, <2>2, <2>3, <2>4, OnTopFocus
<1>11. ASSUME Iconify
       PROVE  FocusedOnTop'
  BY <1>5, <1>11, FrontIsLive DEF Iconify, KeyIconify, FocusRaises
<1>12. ASSUME NextWindow
       PROVE  FocusedOnTop'
  <2>1. toplevels[Len(toplevels)] \in LiveToplevels
    BY <1>12, FrontIsLive DEF NextWindow, KeyNextWindow
  <2>2. \A u \in Toplevel : stage'[u] = "mapped" => Mapped(u)
    BY <1>12, <1>s DEF NextWindow, KeyNextWindow
  <2>3. toplevels[Len(toplevels)] # None
    BY <2>1, SurfacesDistinct DEF LiveToplevels
  <2> QED
    BY <1>12, <2>1, <2>2, <2>3, OnTopFocus
    DEF NextWindow, KeyNextWindow, FocusRaises
<1>13. ASSUME PreviousWindow
       PROVE  FocusedOnTop'
  <2>1. \A u \in Toplevel : stage'[u] = "mapped" => Mapped(u)
    BY <1>13, <1>s DEF PreviousWindow, KeyPreviousWindow
  <2>2. CASE Len(toplevels) > 1
    <3>1. toplevels[2] \in LiveToplevels
      BY <1>13, <2>2, FrontIsLive DEF PreviousWindow, KeyPreviousWindow
    <3>2. toplevels[2] # None
      BY <3>1, SurfacesDistinct DEF LiveToplevels
    <3> QED
      BY <1>13, <2>1, <2>2, <3>1, <3>2, OnTopFocus
      DEF PreviousWindow, KeyPreviousWindow, FocusRaises
  <2>3. CASE ~(Len(toplevels) > 1)
    BY <1>13, <2>1, <2>3, OnTopFocus
    DEF PreviousWindow, KeyPreviousWindow, FocusRaises
  <2> QED BY <2>2, <2>3
<1>14. ASSUME OffScene
       PROVE  FocusedOnTop'
  <2>1. UNCHANGED <<stack, lifted>>
    BY <1>14 DEF OffScene
  <2>2. \A u \in Toplevel : stage'[u] = "mapped" => Mapped(u)
    BY <1>14, <1>t
    DEF OffScene, AckConfigure, MapLayer, ButtonPressLayer, DestroySurface,
        NewKeyboard, DestroyKeyboard, KeyboardEvent, KeyOnEmptyList, Mapped
  <2>3. \/ UNCHANGED <<kbFocus, missed>>
        \/ kbFocus' \notin Toplevel
        \/ missed'
    BY <1>14, SurfacesDistinct
    DEF OffScene, AckConfigure, MapLayer, SeatSetFocusLayer, SeatFocusSurface,
        ButtonPressLayer, DestroySurface, NewKeyboard, DestroyKeyboard,
        KeyboardEvent, KeyOnEmptyList, focusVars
  <2> QED BY <2>1, <2>2, <2>3, OnTopSettled DEF Settled
<1>15. ASSUME \/ \E t \in Toplevel : AckFullscreen(t)
              \/ \E l \in LayerSurface : DestroyLayerSurface(l)
              \/ \E l \in LayerSurface, ly \in LayerType, interactive \in BOOLEAN :
                   NewLayer(l, ly, interactive)
              \/ UNCHANGED stackingVars
       PROVE  FocusedOnTop'
  <2>1. UNCHANGED <<stack, lifted, stage, kbFocus, missed>>
    BY <1>15
    DEF AckFullscreen, DestroyLayerSurface, DestroyLayer, NewLayer,
        NewLayerSurface, stackingVars, vars, focusVars
  <2> QED BY <2>1, OnTopSettled DEF Settled, Mapped
<1> QED
  BY <1>1, <1>2, <1>3, <1>4, <1>6, <1>7, <1>8, <1>9, <1>10, <1>11, <1>12, <1>13,
     <1>14, <1>15
  DEF StackNext

----------------------------------------------------------------------------
\* Stacking takes the steps of Desktop, each with what it does to the scene.
LEMMA StackRefines == [StackNext]_stackingVars => [Next]_vars
BY DEF StackNext, stackingVars, New, Map, Unmap, Destroy, RequestMin, Press,
       RequestFullscreen, AckFullscreen, NewLayer, Commit, UnmapLayerSurface,
       DestroyLayerSurface, Iconify, NextWindow, PreviousWindow, OffScene, Next

\* Stacking implements Desktop: each of its callbacks is one of Desktop's, or one
\* that changes nothing Desktop knows of.
THEOREM StackImplements == StackSpec => Spec
<1>1. StackInit => Init
  BY DEF StackInit
<1> QED BY <1>1, StackRefines, PTL DEF StackSpec, Spec

\* What is proved of the list and the focus holds of Stacking, too.
LEMMA StackingDesktop == StackSpec => []ListInv /\ []FocusInv
<1>1. ListInv <=> TypeOK /\ ListTracksToplevels
  BY DEF ListInv
<1>2. FrontIsFocused /\ LayerExcludesWindows /\ FocusedLayerMapped => FocusInv
  BY DEF FocusInv
<1> QED BY <1>1, <1>2, StackImplements, TypeCorrect, FocusCorrect, PTL

\* The scene holds each window that exists and each layer once, in every
\* reachable state.
THEOREM StackTypeCorrect == StackSpec => []StackTypeOK
<1>1. StackInit => StackTypeOK
  BY InitScene
<1>2. StackTypeOK => Scene
  BY DEF StackTypeOK, Scene, LiveToplevels
<1>3. ListInv /\ StackTypeOK /\ [StackNext]_stackingVars => StackTypeOK'
  <2> SUFFICES ASSUME ListInv, StackTypeOK, [StackNext]_stackingVars
               PROVE  StackTypeOK'
    OBVIOUS
  <2>1. Scene'
    BY <1>2, SceneStep, SceneInvStep
  <2> QED BY <2>1, StackTypeStep DEF StackTypeOK, Scene, LiveToplevels, Live
<1> QED BY <1>1, <1>3, StackingDesktop, PTL DEF StackSpec

\* No mapped window is over the one that has the keyboard, but those that made
\* themselves fullscreen since it got it, in every reachable state.
THEOREM OnTopCorrect == StackSpec => []FocusedOnTop
<1>1. StackInit => FocusedOnTop
  BY InitScene
<1>2. StackTypeOK => Scene
  BY DEF StackTypeOK, Scene, LiveToplevels
<1>3. ListInv /\ FocusInv /\ Scene /\ FocusedOnTop /\ [StackNext]_stackingVars
      => FocusedOnTop'
  BY OnTopStep
<1> QED
  BY <1>1, <1>2, <1>3, StackingDesktop, StackTypeCorrect, PTL DEF StackSpec

\* Every window is over the background layer, in every reachable state.
THEOREM BackgroundCorrect == StackSpec => []BackgroundBeneath
<1>1. StackInit => BackgroundBeneath
  BY InitScene
<1>2. StackTypeOK => Scene
  BY DEF StackTypeOK, Scene, LiveToplevels
<1>3. ListInv /\ Scene /\ BackgroundBeneath /\ [StackNext]_stackingVars
      => BackgroundBeneath'
  BY SceneStep, BackgroundStep
<1> QED
  BY <1>1, <1>2, <1>3, StackingDesktop, StackTypeCorrect, PTL DEF StackSpec
=============================================================================
