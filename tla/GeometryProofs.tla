---------------------------- MODULE GeometryProofs ----------------------------
(***************************************************************************)
(* Proofs about Geometry, for every output, margin, cursor resolution and  *)
(* client: only margins that do not fit lead to a negative size, a resize  *)
(* keeps the edge that is not dragged, and the other follows the cursor.   *)
(***************************************************************************)
EXTENDS Geometry, TLAPS

\* A double is converted to an int less than a pixel away from it.
LEMMA TruncNear ==
  ASSUME NEW n \in Int
  PROVE  /\ Trunc(n) \in Int
         /\ -Unit < Unit * Trunc(n) - n
         /\ Unit * Trunc(n) - n < Unit
<1> DEFINE q == n \div Unit
           r == (-n) \div Unit
<1>1. q \in Int /\ Unit * q <= n /\ n < Unit * q + Unit
  BY UnitAssumption, SMT
<1>2. r \in Int /\ Unit * r <= -n /\ -n < Unit * r + Unit
  BY UnitAssumption, SMT
<1>3. CASE n >= 0
  BY <1>1, <1>3, UnitAssumption DEF Trunc
<1>4. CASE ~(n >= 0)
  <2>1. Trunc(n) = -r
    BY <1>4 DEF Trunc
  <2>2. Unit * (-r) = -(Unit * r)
    BY <1>2, UnitAssumption, SMT
  <2> QED BY <1>2, <2>1, <2>2, UnitAssumption
<1> QED BY <1>3, <1>4


----------------------------------------------------------------------------
\* What the margins leave of the output, which is less than nothing only when they
\* do not fit.
LEMMA UsableFacts ==
  ASSUME margin \in Margins, NEW a \in Axis
  PROVE  /\ margin[a].low \in Int
         /\ Usable(a) \in Int
         /\ Usable(a) < 0 => margin[a].low + margin[a].high > Output[a]
BY MarginsAssumption, OutputAssumption DEF Usable

\* The cursor and the grab offset are integers.
LEMMA CursorFacts ==
  ASSUME TypeOK, NEW c \in [Axis -> Cursor], NEW a \in Axis
  PROVE  c[a] \in Int /\ grab[a] \in Int /\ c[a] - grab[a] \in Int
<1>1. c[a] \in Int
  <2>1. c[a] \in Cursor
    OBVIOUS
  <2> QED BY <2>1, RangesAssumption
<1>2. grab[a] \in Int
  BY DEF TypeOK
<1> QED BY <1>1, <1>2

\* The empty rectangle is one.
LEMMA ZeroIsRectangle == Zero \in [Axis -> Interval]
BY DEF Zero, Interval

\* A dragged edge is an integer on its side of the opposite one, and what is not
\* dragged stays.
LEMMA NewEdges ==
  ASSUME TypeOK, NEW a \in Axis, NEW c \in [Axis -> Cursor]
  PROVE  /\ NewLow(a, c[a]) \in Int
         /\ NewHigh(a, c[a]) \in Int
         /\ edges[a] # "low" => NewLow(a, c[a]) = grabBox[a].pos
         /\ edges[a] # "high" => NewHigh(a, c[a]) = High(grabBox[a])
         /\ NewHigh(a, c[a]) - NewLow(a, c[a]) >= 0
         /\ edges[a] # "none" => NewHigh(a, c[a]) - NewLow(a, c[a]) >= 1
<1>1. c[a] - grab[a] \in Int
  BY CursorFacts
<1>2. Trunc(c[a] - grab[a]) \in Int
  BY <1>1, TruncNear
<1>3. grabBox[a].pos \in Int /\ grabBox[a].len \in Nat
  BY DEF TypeOK, Interval
<1>4. edges[a] \in {"none", "low", "high"}
  BY DEF TypeOK
<1> QED BY <1>2, <1>3, <1>4 DEF NewLow, NewHigh, DraggedLow, DraggedHigh, High

\* As long as wlroots has not stopped, the sizes that are kept and asked for are
\* natural numbers: what a later request returns to is never a negative one.
SizesKept ==
  Running => geometry \in [Axis -> Interval] /\ requested \in [Axis -> Nat]

SizeInv == TypeOK /\ OnlyMarginsStop /\ SizesKept

\* A natural number is an integer.
LEMMA NatsAreInts ==
  /\ \A f \in [Axis -> Nat] : f \in [Axis -> Int]
  /\ \A g \in [Axis -> Interval] : g \in [Axis -> [pos : Int, len : Int]]
<1>1. Nat \subseteq Int /\ Interval \subseteq [pos : Int, len : Int]
  BY DEF Interval
<1> QED BY <1>1

\* wlr_xdg_toplevel_set_size() with natural numbers does not stop.
LEMMA SetSizeOfNat ==
  ASSUME NEW size \in [Axis -> Nat], SetSize(size)
  PROVE  /\ requested' \in [Axis -> Nat]
         /\ requested' \in [Axis -> Int]
         /\ stopped' = FALSE
BY NatsAreInts DEF SetSize

\* Every step keeps the types, and stops only because of the margins.
LEMMA SizeStep == SizeInv /\ [Next]_vars => SizeInv'
<1> SUFFICES ASSUME SizeInv, [Next]_vars PROVE SizeInv'
  OBVIOUS
<1> USE DEF SizeInv, SizesKept, Running, Interval, States, sizeVars
<1>0. requested \in [Axis -> Int]
  BY DEF TypeOK
<1>1. CASE InitialCommit
  <2>1. requested' \in [Axis -> Nat] /\ requested' \in [Axis -> Int] /\ stopped' = FALSE
    BY <1>1, SetSizeOfNat DEF InitialCommit
  <2> QED BY <1>1, <2>1
      DEF InitialCommit, TypeOK, OnlyMarginsStop, placeVars, grabVars, outVars
<1>2. CASE Unmap
  BY <1>2, ZeroIsRectangle DEF Unmap, TypeOK, OnlyMarginsStop, placeVars, outVars
<1>3. ASSUME NEW b \in ClientBox, Map(b) PROVE SizeInv'
  <2> DEFINE size == [a \in Axis |-> geometry'[a].len]
  <2>1. \A a \in Axis : /\ b[a].pos \in Int
                        /\ b[a].len \in Nat
                        /\ margin[a].low \in Int
                        /\ Usable(a) \in Int
                        /\ Usable(a) < 0 => margin[a].low + margin[a].high > Output[a]
    <3> TAKE a \in Axis
    <3>1. b[a].pos \in Inset /\ b[a].len \in Extent
      BY DEF ClientBox
    <3>2. margin \in Margins
      BY DEF TypeOK
    <3> QED BY <3>1, <3>2, UsableFacts, RangesAssumption
  <2>2. box' \in [Axis -> Interval]
    BY <1>3, <2>1 DEF Map, ClientBox
  <2>3. \A a \in Axis : /\ AtMost(b[a].len, Usable(a)) \in Int
                        /\ AtMost(b[a].len, Usable(a)) < 0 => Usable(a) < 0
    BY <2>1 DEF AtMost
  <2>4. /\ geometry' \in [Axis -> [pos : Int, len : Int]]
        /\ \A a \in Axis : geometry'[a].len = AtMost(b[a].len, Usable(a))
    BY <1>3, <2>1, <2>3 DEF Map
  <2>5. requested' = size /\ stopped' = \E a \in Axis : size[a] < 0
    BY <1>3 DEF Map, SetSize
  <2>6. requested' \in [Axis -> Int] /\ stopped' \in BOOLEAN
    BY <2>4, <2>5
  <2>7. SizesKept'
    BY <2>3, <2>4, <2>5
  <2>8. OnlyMarginsStop'
    BY <1>3, <2>1, <2>3, <2>4, <2>5 DEF Map, OnlyMarginsStop, outVars
  <2> QED BY <1>3, <2>2, <2>4, <2>6, <2>7, <2>8 DEF Map, TypeOK, grabVars, outVars
<1>4. ASSUME NEW b \in ClientBox, Commit(b) PROVE SizeInv'
  <2>1. box' \in [Axis -> Interval]
    BY <1>4, RangesAssumption DEF Commit, ClientBox
  <2>2. current' \in States
    BY <1>4 DEF Commit, TypeOK
  <2> QED BY <1>4, <2>1, <2>2
      DEF Commit, TypeOK, OnlyMarginsStop, placeVars, askedVars, grabVars, outVars
<1>5. CASE RequestFullscreen
  <2>1. geometry' \in [Axis -> Interval]
    BY <1>5 DEF RequestFullscreen, TypeOK
  <2>2. requested' \in [Axis -> Nat] /\ requested' \in [Axis -> Int] /\ stopped' = FALSE
    <3>1. SetSize([a \in Axis |-> geometry'[a].len])
      BY <1>5 DEF RequestFullscreen
    <3> QED BY <2>1, <3>1, SetSizeOfNat
  <2>3. previous' \in [Axis -> Interval]
    BY <1>5 DEF RequestFullscreen, TypeOK
  <2>4. scheduled' \in States
    BY <1>5 DEF RequestFullscreen, TypeOK
  <2> QED BY <1>5, <2>1, <2>2, <2>3, <2>4, NatsAreInts
      DEF RequestFullscreen, TypeOK, OnlyMarginsStop, clientVars, grabVars, outVars
<1>6. CASE RequestMaximize
  <2>1. \A a \in Axis : /\ margin[a].low \in Int
                        /\ Usable(a) \in Int
                        /\ Usable(a) < 0 => margin[a].low + margin[a].high > Output[a]
    BY UsableFacts DEF TypeOK
  <2>2. geometry' \in [Axis -> Interval]
    <3>1. ASSUME NEW a \in Axis
          PROVE  At(geometry[a], previous[a].pos) \in Interval
      BY <1>6 DEF RequestMaximize, TypeOK, At
    <3>2. ASSUME NEW a \in Axis
          PROVE  At(geometry[a], margin[a].low) \in Interval
      BY <1>6, <2>1 DEF RequestMaximize, TypeOK, At
    <3> QED BY <1>6, <3>1, <3>2 DEF RequestMaximize
  <2>3. /\ requested' \in [Axis -> Int]
        /\ stopped' \in BOOLEAN
        /\ ~stopped' => requested' \in [Axis -> Nat]
        /\ OnlyMarginsStop'
    <3>1. CASE current.maximized
      <4>1. SetSize([a \in Axis |-> previous[a].len])
        BY <1>6, <3>1 DEF RequestMaximize
      <4>2. requested' \in [Axis -> Nat] /\ requested' \in [Axis -> Int] /\ stopped' = FALSE
        <5>1. [a \in Axis |-> previous[a].len] \in [Axis -> Nat]
          BY DEF TypeOK
        <5> QED BY <4>1, <5>1, SetSizeOfNat
      <4> QED BY <4>2 DEF OnlyMarginsStop
    <3>2. CASE ~current.maximized
      <4> DEFINE size == [a \in Axis |-> Usable(a)]
      <4>1. requested' = size /\ stopped' = \E a \in Axis : size[a] < 0
        BY <1>6, <3>2 DEF RequestMaximize, SetSize
      <4>2. margin' = margin
        BY <1>6 DEF RequestMaximize, outVars
      <4> QED BY <2>1, <4>1, <4>2 DEF OnlyMarginsStop
    <3> QED BY <3>1, <3>2
  <2>4. previous' \in [Axis -> Interval]
    BY <1>6 DEF RequestMaximize, TypeOK
  <2>5. scheduled' \in States
    BY <1>6 DEF RequestMaximize, TypeOK
  <2> QED BY <1>6, <2>2, <2>3, <2>4, <2>5
      DEF RequestMaximize, TypeOK, clientVars, grabVars, outVars
<1>7. CASE RequestMinimize
  <2>1. geometry' \in [Axis -> Interval]
    BY <1>7 DEF RequestMinimize, AboveOutput, TypeOK, At
  <2>2. previous' \in [Axis -> Interval]
    BY <1>7 DEF RequestMinimize
  <2> QED BY <1>7, <2>1, <2>2
      DEF RequestMinimize, TypeOK, OnlyMarginsStop, clientVars, grabVars, outVars
<1>8. CASE Deiconify
  <2>1. geometry' \in [Axis -> Interval]
    BY <1>8 DEF Deiconify, TypeOK
  <2> QED BY <1>8, <2>1, NatsAreInts
      DEF Deiconify, TypeOK, OnlyMarginsStop, clientVars, grabVars, outVars
<1>9. CASE Shade
  <2>1. \A a \in Axis :
          AtLeast(box[a].pos - geometry[a].pos, TITLEBAR_HEIGHT) \in Nat
    BY DEF AtLeast, TITLEBAR_HEIGHT, TypeOK
  <2> DEFINE size == [a \in Axis |->
                IF a = "y" THEN AtLeast(box[a].pos - geometry[a].pos, TITLEBAR_HEIGHT)
                ELSE geometry[a].len]
  <2>2. size \in [Axis -> Nat] /\ SetSize(size) /\ previous' \in [Axis -> Interval]
    BY <1>9, <2>1 DEF Shade
  <2>3. requested' \in [Axis -> Nat] /\ requested' \in [Axis -> Int] /\ stopped' = FALSE
    BY <2>2, SetSizeOfNat
  <2> QED BY <1>9, <2>2, <2>3
      DEF Shade, TypeOK, OnlyMarginsStop, clientVars, grabVars, outVars
<1>10. CASE Unshade
  <2>1. requested' \in [Axis -> Nat] /\ requested' \in [Axis -> Int] /\ stopped' = FALSE
    <3>1. [a \in Axis |-> previous[a].len] \in [Axis -> Nat]
      BY DEF TypeOK
    <3> QED BY <1>10, <3>1, SetSizeOfNat DEF Unshade
  <2> QED BY <1>10, <2>1
      DEF Unshade, TypeOK, OnlyMarginsStop, placeVars, clientVars, grabVars, outVars
<1>11. CASE BeginMove
  <2>1. grab' \in [Axis -> Int]
    <3>1. ASSUME NEW a \in Axis
          PROVE  cursor[a] - Unit * geometry[a].pos \in Int
      <4>1. cursor[a] \in Int
        BY CursorFacts DEF TypeOK
      <4>2. geometry[a].pos \in Int
        BY DEF TypeOK
      <4> QED BY <4>1, <4>2, UnitAssumption
    <3> QED BY <1>11, <3>1 DEF BeginMove
  <2> QED BY <1>11, <2>1
      DEF BeginMove, TypeOK, OnlyMarginsStop, placeVars, clientVars, askedVars, outVars
<1>12. ASSUME NEW e \in [Axis -> Edges], BeginResize(e) PROVE SizeInv'
  <2>1. grabBox' \in [Axis -> Interval]
    <3>1. ASSUME NEW a \in Axis
          PROVE  At(box[a], box[a].pos + geometry[a].pos) \in Interval
      BY DEF TypeOK, At
    <3> QED BY <1>12, <3>1 DEF BeginResize
  <2>2. \A a \in Axis : GrabbedEdge(grabBox'[a], e[a]) \in Int
    BY <2>1 DEF GrabbedEdge, High
  <2>3. grab' \in [Axis -> Int]
    <3>1. ASSUME NEW a \in Axis
          PROVE  cursor[a] - Unit * GrabbedEdge(grabBox'[a], e[a]) \in Int
      <4>1. cursor[a] \in Int
        BY CursorFacts DEF TypeOK
      <4> QED BY <4>1, <2>2, UnitAssumption
    <3> QED BY <1>12, <3>1 DEF BeginResize
  <2>4. edges' \in [Axis -> {"none", "low", "high"}]
    BY <1>12, RangesAssumption DEF BeginResize
  <2> QED BY <1>12, <2>1, <2>3, <2>4
      DEF BeginResize, TypeOK, OnlyMarginsStop, placeVars, clientVars, askedVars, outVars
<1>13. ASSUME NEW c \in [Axis -> Cursor], PointerMotion(c) PROVE SizeInv'
  BY <1>13 DEF PointerMotion, TypeOK, OnlyMarginsStop, placeVars, clientVars,
               askedVars, grabVars, outVars
<1>14. ASSUME NEW c \in [Axis -> Cursor], MoveMotion(c) PROVE SizeInv'
  <2>1. \A a \in Axis : Trunc(c[a] - grab[a]) \in Int
    BY TruncNear, CursorFacts
  <2>2. geometry' \in [Axis -> Interval]
    <3>1. ASSUME NEW a \in Axis
          PROVE  At(geometry[a], Trunc(c[a] - grab[a])) \in Interval
      BY <1>14, <2>1 DEF MoveMotion, TypeOK, At
    <3> QED BY <1>14, <3>1 DEF MoveMotion
  <2> QED BY <1>14, <2>2, NatsAreInts
      DEF MoveMotion, TypeOK, OnlyMarginsStop, clientVars, askedVars, grabVars, outVars
<1>15. ASSUME NEW c \in [Axis -> Cursor], ResizeMotion(c) PROVE SizeInv'
  <2>1. \A a \in Axis : /\ NewLow(a, c[a]) - box[a].pos \in Int
                        /\ NewHigh(a, c[a]) - NewLow(a, c[a]) \in Nat
    <3> TAKE a \in Axis
    <3>1. box[a].pos \in Int
      BY DEF TypeOK
    <3>2. /\ NewLow(a, c[a]) \in Int
          /\ NewHigh(a, c[a]) \in Int
          /\ NewHigh(a, c[a]) - NewLow(a, c[a]) >= 0
      <4> HIDE DEF SizesKept
      <4> QED BY NewEdges
    <3> HIDE DEF SizeInv, SizesKept
    <3> QED BY <3>1, <3>2
  <2>2. geometry' \in [Axis -> Interval]
    <3>1. ASSUME NEW a \in Axis
          PROVE  At(geometry[a], NewLow(a, c[a]) - box[a].pos) \in Interval
      <4>1. geometry[a].len \in Nat
        BY <1>15 DEF ResizeMotion
      <4> HIDE DEF SizeInv, SizesKept
      <4> QED BY <2>1, <4>1 DEF At
    <3> QED BY <1>15, <3>1 DEF ResizeMotion
  <2>3. requested' \in [Axis -> Nat] /\ requested' \in [Axis -> Int] /\ stopped' = FALSE
    <3>1. SetSize([a \in Axis |-> NewHigh(a, c[a]) - NewLow(a, c[a])])
      BY <1>15 DEF ResizeMotion
    <3> QED BY <2>1, <3>1, SetSizeOfNat
  <2> QED BY <1>15, <2>2, <2>3, NatsAreInts
      DEF ResizeMotion, TypeOK, OnlyMarginsStop, clientVars, grabVars, outVars
<1>16. CASE Release
  BY <1>16 DEF Release, TypeOK, OnlyMarginsStop, placeVars, clientVars, askedVars, outVars
<1>17. CASE Reconfigure
  BY <1>17 DEF Reconfigure, TypeOK, OnlyMarginsStop, placeVars, clientVars,
               askedVars, grabVars
<1>18. CASE OutputFrame
  BY <1>18, OutputAssumption
  DEF OutputFrame, TypeOK, OnlyMarginsStop, placeVars, clientVars, askedVars, grabVars
<1>19. CASE UNCHANGED vars
  BY <1>19 DEF TypeOK, OnlyMarginsStop, vars, placeVars, clientVars, askedVars,
               grabVars, outVars
<1> QED
  BY <1>1, <1>2, <1>3, <1>4, <1>5, <1>6, <1>7, <1>8, <1>9, <1>10, <1>11, <1>12,
     <1>13, <1>14, <1>15, <1>16, <1>17, <1>18, <1>19 DEF Next

\* Whatever margins the files hold, and whatever clients and users do, only margins
\* that do not fit on the output lead to a negative size.
THEOREM SizesCorrect == Spec => [](TypeOK /\ OnlyMarginsStop)
<1>1. Init => SizeInv
  <2> SUFFICES ASSUME Init PROVE SizeInv
    OBVIOUS
  <2>1. geometry \in [Axis -> Interval] /\ previous \in [Axis -> Interval]
        /\ box \in [Axis -> Interval] /\ grabBox \in [Axis -> Interval]
    BY ZeroIsRectangle DEF Init
  <2>2. scheduled \in States /\ current \in States
    BY DEF Init, States
  <2>3. requested \in [Axis -> Nat] /\ OnlyMarginsStop
    BY DEF Init, OnlyMarginsStop
  <2> QED BY <2>1, <2>2, <2>3, NatsAreInts DEF Init, SizeInv, SizesKept, TypeOK
<1>2. SizeInv /\ [Next]_vars => SizeInv'
  BY SizeStep
<1> QED BY <1>1, <1>2, PTL DEF Spec, SizeInv


----------------------------------------------------------------------------
\* While a resize lasts, grab_x and grab_y hold the distance from the cursor to
\* the dragged edge when it began.
GrabInv ==
  mode = "resize" =>
    \A a \in Axis : grab[a] = from[a] - Unit * GrabbedEdge(grabBox[a], edges[a])

\* Only begin_interactive() begins a grab, and it records that distance.
LEMMA GrabStep == GrabInv /\ [Next]_vars => GrabInv'
<1> SUFFICES ASSUME GrabInv, [Next]_vars PROVE GrabInv'
  OBVIOUS
<1>1. ASSUME NEW e \in [Axis -> Edges], BeginResize(e) PROVE GrabInv'
  BY <1>1 DEF BeginResize, GrabInv
<1>2. CASE mode' \in {"passthrough", "move"}
  BY <1>2 DEF GrabInv
<1>3. CASE UNCHANGED grabVars
  BY <1>3 DEF GrabInv, grabVars
<1>4. ASSUME NEW b \in ClientBox, Map(b) \/ Commit(b) PROVE UNCHANGED grabVars
  BY <1>4 DEF Map, Commit
<1>5. ASSUME NEW c \in [Axis -> Cursor],
             PointerMotion(c) \/ MoveMotion(c) \/ ResizeMotion(c)
      PROVE  UNCHANGED grabVars
  BY <1>5 DEF PointerMotion, MoveMotion, ResizeMotion
<1>6. CASE Unmap \/ Release \/ BeginMove
  BY <1>2, <1>6 DEF Unmap, Release, BeginMove
<1>7. CASE InitialCommit \/ RequestFullscreen \/ RequestMaximize \/ RequestMinimize
           \/ Deiconify \/ Shade \/ Unshade \/ Reconfigure \/ OutputFrame
  BY <1>3, <1>7
  DEF InitialCommit, RequestFullscreen, RequestMaximize, RequestMinimize,
      Deiconify, Shade, Unshade, Reconfigure, OutputFrame
<1>8. CASE UNCHANGED vars
  BY <1>3, <1>8 DEF vars
<1> QED BY <1>1, <1>3, <1>4, <1>5, <1>6, <1>7, <1>8 DEF Next

\* Only the cursor moves the cursor: in a resize, that is process_cursor_resize().
LEMMA CursorMoves ==
  ASSUME [Next]_vars, mode = "resize", cursor' # cursor
  PROVE  \E c \in [Axis -> Cursor] : ResizeMotion(c)
<1>1. ASSUME NEW b \in ClientBox, Map(b) \/ Commit(b) PROVE FALSE
  BY <1>1 DEF Map, Commit
<1>2. ASSUME NEW e \in [Axis -> Edges], BeginResize(e) PROVE FALSE
  BY <1>2 DEF BeginResize
<1>3. CASE InitialCommit \/ Unmap \/ RequestFullscreen \/ RequestMaximize
           \/ RequestMinimize \/ Deiconify \/ Shade \/ Unshade \/ BeginMove
           \/ Release \/ Reconfigure \/ OutputFrame
  BY <1>3
  DEF InitialCommit, Unmap, RequestFullscreen, RequestMaximize, RequestMinimize,
      Deiconify, Shade, Unshade, BeginMove, Release, Reconfigure, OutputFrame
<1>4. ASSUME NEW c \in [Axis -> Cursor], PointerMotion(c) \/ MoveMotion(c)
      PROVE  FALSE
  BY <1>4 DEF PointerMotion, MoveMotion
<1>5. CASE UNCHANGED vars
  BY <1>5 DEF vars
<1> QED BY <1>1, <1>2, <1>3, <1>4, <1>5 DEF Next

\* The edges of a window after a step of a resize.
LEMMA ResizeEffect ==
  ASSUME TypeOK, NEW c \in [Axis -> Cursor], ResizeMotion(c), NEW a \in Axis
  PROVE  /\ geometry'[a].pos + box[a].pos = NewLow(a, c[a])
         /\ NewLow(a, c[a]) + requested'[a] = NewHigh(a, c[a])
         /\ requested'[a] = NewHigh(a, c[a]) - NewLow(a, c[a])
<1>1. NewLow(a, c[a]) \in Int /\ NewHigh(a, c[a]) \in Int
  BY NewEdges
<1>2. box[a].pos \in Int
  BY DEF TypeOK, Interval
<1>3. geometry'[a].pos = NewLow(a, c[a]) - box[a].pos
  BY DEF ResizeMotion, At
<1>4. requested'[a] = NewHigh(a, c[a]) - NewLow(a, c[a])
  BY DEF ResizeMotion, SetSize
<1> QED BY <1>1, <1>2, <1>3, <1>4

\* A resize keeps the edge opposite to the dragged one where it was, whatever the
\* client does meanwhile and however far the cursor goes.
THEOREM ResizeCorrect == Spec => ResizeKeepsOppositeEdge
<1> DEFINE Kept(a) ==
      LET low == geometry'[a].pos + box[a].pos
      IN  /\ edges[a] # "low" => low = grabBox[a].pos
          /\ edges[a] # "high" => low + requested'[a] = High(grabBox[a])
          /\ edges[a] # "none" => requested'[a] >= 1
<1>1. ASSUME TypeOK, [Next]_vars, mode = "resize", cursor' # cursor,
             NEW a \in Axis
      PROVE  Kept(a)
  <2>1. PICK c \in [Axis -> Cursor] : ResizeMotion(c)
    BY <1>1, CursorMoves
  <2>2. /\ geometry'[a].pos + box[a].pos = NewLow(a, c[a])
        /\ NewLow(a, c[a]) + requested'[a] = NewHigh(a, c[a])
        /\ requested'[a] = NewHigh(a, c[a]) - NewLow(a, c[a])
    BY <1>1, <2>1, ResizeEffect
  <2> QED BY <1>1, <2>2, NewEdges
<1>2. TypeOK /\ [Next]_vars
      => [mode = "resize" /\ cursor' # cursor => \A a \in Axis : Kept(a)]_vars
  BY <1>1
<1>3. Spec => []TypeOK
  BY SizesCorrect, PTL
<1> QED BY <1>2, <1>3, PTL DEF Spec, ResizeKeepsOppositeEdge

\* A pixel more is a pixel's fractions more.
LEMMA UnitMonotone ==
  ASSUME NEW m \in Int, NEW k \in Int, m <= k
  PROVE  Unit * m \in Int /\ Unit * k \in Int /\ Unit * m <= Unit * k
<1>1. Unit \in Int /\ Unit > 0
  BY UnitAssumption
<1>2. Unit * (k - m) >= 0
  BY <1>1
<1>3. Unit * (k - m) = Unit * k - Unit * m
  BY <1>1
<1> QED BY <1>1, <1>2, <1>3

\* The edge the cursor drags, unless the opposite edge holds it back, is within a
\* pixel of where the cursor has carried it.
THEOREM DragCorrect == Spec => DraggedEdgeFollowsCursor
<1> DEFINE Follows(a) ==
      LET low == geometry'[a].pos + box[a].pos
          travel == cursor'[a] - from[a]
          lowLead == Lead(low - grabBox[a].pos, travel)
          highLead == Lead((low + requested'[a]) - High(grabBox[a]), travel)
      IN  /\ edges[a] = "low" =>
               lowLead < Unit /\ (requested'[a] = 1 \/ -Unit < lowLead)
          /\ edges[a] = "high" =>
               -Unit < highLead /\ (requested'[a] = 1 \/ highLead < Unit)
<1>1. ASSUME TypeOK, GrabInv, [Next]_vars, mode = "resize", cursor' # cursor,
             NEW a \in Axis
      PROVE  Follows(a)
  <2>1. PICK c \in [Axis -> Cursor] : ResizeMotion(c)
    BY <1>1, CursorMoves
  <2>2. cursor' = c
    BY <2>1 DEF ResizeMotion
  <2> DEFINE n == c[a] - grab[a]
             g == GrabbedEdge(grabBox[a], edges[a])
             travel == c[a] - from[a]
             low == geometry'[a].pos + box[a].pos
  <2>3. c[a] \in Int /\ from[a] \in Int /\ n \in Int /\ travel \in Int
    BY <1>1, CursorFacts DEF TypeOK
  <2>4. grabBox[a].pos \in Int /\ grabBox[a].len \in Nat /\ g \in Int
    BY <1>1 DEF TypeOK, Interval, GrabbedEdge, High
  <2>5. /\ low = NewLow(a, c[a])
        /\ NewLow(a, c[a]) + requested'[a] = NewHigh(a, c[a])
        /\ requested'[a] = NewHigh(a, c[a]) - NewLow(a, c[a])
    BY <1>1, <2>1, ResizeEffect
  <2>6. NewLow(a, c[a]) \in Int /\ NewHigh(a, c[a]) \in Int
    BY <1>1, NewEdges
  <2>7. Trunc(n) \in Int /\ -Unit < Unit * Trunc(n) - n /\ Unit * Trunc(n) - n < Unit
    BY <2>3, TruncNear
  <2>8. -Unit < Lead(Trunc(n) - g, travel) /\ Lead(Trunc(n) - g, travel) < Unit
    <3>1. n = travel + Unit * g
      BY <1>1, <2>3, <2>4, UnitAssumption DEF GrabInv
    <3>2. Unit * (Trunc(n) - g) = Unit * Trunc(n) - Unit * g
      BY <2>4, <2>7, UnitAssumption
    <3>3. Unit * g \in Int /\ Unit * Trunc(n) \in Int /\ Unit \in Int
      BY <2>4, <2>7, UnitAssumption
    <3> HIDE DEF n, g, travel
    <3> QED BY <3>1, <3>2, <3>3, <2>3, <2>7 DEF Lead
  <2>9. ASSUME edges[a] = "low"
        PROVE  /\ Lead(low - grabBox[a].pos, travel) < Unit
               /\ requested'[a] = 1 \/ -Unit < Lead(low - grabBox[a].pos, travel)
    <3>1. g = grabBox[a].pos /\ NewHigh(a, c[a]) = High(grabBox[a])
      BY <2>9 DEF GrabbedEdge, NewHigh
    <3>2. NewLow(a, c[a]) = DraggedLow(High(grabBox[a]), Trunc(n))
      BY <2>9 DEF NewLow
    <3> HIDE DEF n, g, travel, low
    <3>3. low <= Trunc(n)
      BY <2>4, <2>5, <2>7, <3>2 DEF DraggedLow, High
    <3>4. Lead(low - g, travel) <= Lead(Trunc(n) - g, travel)
      BY <2>3, <2>4, <2>5, <2>6, <2>7, <3>3, UnitMonotone DEF Lead
    <3>5. Lead(low - g, travel) \in Int /\ Lead(Trunc(n) - g, travel) \in Int
      BY <2>3, <2>4, <2>5, <2>6, <2>7, UnitAssumption DEF Lead
    <3>6. Lead(low - g, travel) < Unit
      BY <2>8, <3>4, <3>5, UnitAssumption
    <3>7. requested'[a] = 1 \/ low = Trunc(n)
      BY <2>4, <2>5, <2>6, <3>1, <3>2 DEF DraggedLow, High
    <3> QED BY <2>8, <3>1, <3>6, <3>7
  <2>10. ASSUME edges[a] = "high"
         PROVE  LET lead == Lead((low + requested'[a]) - High(grabBox[a]), travel)
                IN  -Unit < lead /\ (requested'[a] = 1 \/ lead < Unit)
    <3>1. g = High(grabBox[a]) /\ NewLow(a, c[a]) = grabBox[a].pos
      BY <2>10 DEF GrabbedEdge, NewLow
    <3>2. NewHigh(a, c[a]) = DraggedHigh(grabBox[a].pos, Trunc(n))
      BY <2>10 DEF NewHigh
    <3> DEFINE high == low + requested'[a]
    <3>3. high = NewHigh(a, c[a])
      BY <2>5, Zenon
    <3> HIDE DEF n, g, travel, low, high
    <3>4. Trunc(n) <= high
      BY <2>4, <2>7, <3>2, <3>3 DEF DraggedHigh
    <3>5. Lead(Trunc(n) - g, travel) <= Lead(high - g, travel)
      BY <2>3, <2>4, <2>6, <2>7, <3>3, <3>4, UnitMonotone DEF Lead
    <3>6. Lead(high - g, travel) \in Int /\ Lead(Trunc(n) - g, travel) \in Int
      BY <2>3, <2>4, <2>6, <2>7, <3>3, UnitAssumption DEF Lead
    <3>7. -Unit < Lead(high - g, travel)
      BY <2>8, <3>5, <3>6, UnitAssumption
    <3>8. requested'[a] = 1 \/ high = Trunc(n)
      BY <2>4, <2>5, <2>6, <2>7, <3>1, <3>2, <3>3 DEF DraggedHigh
    <3>9. -Unit < Lead(high - g, travel)
          /\ (requested'[a] = 1 \/ Lead(high - g, travel) < Unit)
      BY <2>8, <3>7, <3>8
    <3> QED BY <3>1, <3>9 DEF high
  <2>11. cursor'[a] - from[a] = travel
    BY <2>2
  <2> HIDE DEF n, g, travel
  <2> QED BY <2>9, <2>10, <2>11
<1>2. TypeOK /\ GrabInv /\ [Next]_vars
      => [mode = "resize" /\ cursor' # cursor => \A a \in Axis : Follows(a)]_vars
  BY <1>1
<1>3. Spec => []TypeOK
  BY SizesCorrect, PTL
<1>4. Init => GrabInv
  BY DEF Init, GrabInv
<1>5. Spec => []GrabInv
  BY <1>4, GrabStep, PTL DEF Spec
<1> QED BY <1>2, <1>3, <1>5, PTL DEF Spec, DraggedEdgeFollowsCursor
=============================================================================
