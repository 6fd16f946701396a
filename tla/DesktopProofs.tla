---------------------------- MODULE DesktopProofs ----------------------------
(***************************************************************************)
(* Proofs about Desktop, for any number of windows, layer surfaces and     *)
(* keyboards, whatever malloc left in wb_seat.focused_layer.               *)
(***************************************************************************)
EXTENDS Desktop, SequenceTheorems, TLAPS

----------------------------------------------------------------------------
\* The lists: their operations permute, extend or shrink a list without losing
\* an element or linking one twice.

\* A function on 1 .. n with values in S is a sequence of length n over S.
LEMMA FunctionIsSeq ==
  ASSUME NEW S, NEW n \in Nat, NEW f \in [1 .. n -> S]
  PROVE  f \in Seq(S) /\ Len(f) = n /\ DOMAIN f = 1 .. n
<1>1. f \in Seq(S)
  BY SeqDef
<1>2. Len(f) \in Nat /\ DOMAIN f = 1 .. Len(f)
  BY <1>1, LenProperties
<1>3. 1 .. Len(f) = 1 .. n
  BY <1>2
<1>4. Len(f) = n
  <2>1. CASE n = 0
    BY <2>1, <1>2, <1>3
  <2>2. CASE n > 0
    BY <2>2, <1>2, <1>3
  <2> QED BY <2>1, <2>2
<1> QED BY <1>1, <1>2, <1>4

\* PosOf finds an element that is in the list.
LEMMA PosOfElement ==
  ASSUME NEW S, NEW s \in Seq(S), NEW x \in Elements(s)
  PROVE  /\ PosOf(s, x) \in 1 .. Len(s)
         /\ s[PosOf(s, x)] = x
BY LenProperties DEF PosOf, Elements

\* MoveToFront returns a list of the same length that starts with s[i].
LEMMA MoveToFrontIsSeq ==
  ASSUME NEW S, NEW s \in Seq(S), NEW i \in 1 .. Len(s)
  PROVE  /\ MoveToFront(s, i) \in Seq(S)
         /\ Len(MoveToFront(s, i)) = Len(s)
         /\ MoveToFront(s, i)[1] = s[i]
<1> DEFINE f == MoveToFront(s, i)
<1>1. Len(s) \in Nat /\ DOMAIN s = 1 .. Len(s) /\ \A j \in 1 .. Len(s) : s[j] \in S
  BY LenProperties, ElementOfSeq
<1>2. f \in [1 .. Len(s) -> S]
  BY <1>1 DEF MoveToFront
<1>3. f[1] = s[i]
  BY <1>1 DEF MoveToFront
<1> QED BY <1>1, <1>2, <1>3, FunctionIsSeq

\* MoveToFront neither loses an element nor links one twice.
LEMMA MoveToFrontPermutes ==
  ASSUME NEW S, NEW s \in Seq(S), NEW i \in 1 .. Len(s)
  PROVE  /\ Elements(MoveToFront(s, i)) = Elements(s)
         /\ NoDuplicates(s) => NoDuplicates(MoveToFront(s, i))
<1> DEFINE f == MoveToFront(s, i)
<1>1. Len(s) \in Nat /\ DOMAIN s = 1 .. Len(s)
  BY LenProperties
<1>2. DOMAIN f = 1 .. Len(s)
  BY DEF MoveToFront
<1>3. Elements(f) \subseteq Elements(s)
  BY <1>1, <1>2 DEF MoveToFront, Elements
<1>4. Elements(s) \subseteq Elements(f)
  <2> SUFFICES ASSUME NEW j \in 1 .. Len(s)
               PROVE  \E k \in 1 .. Len(s) : f[k] = s[j]
    BY <1>1, <1>2 DEF Elements
  <2>1. CASE j < i
    BY <2>1, <1>1, f[j + 1] = s[j] DEF MoveToFront
  <2>2. CASE j = i
    BY <2>2, <1>1, f[1] = s[j] DEF MoveToFront
  <2>3. CASE j > i
    BY <2>3, <1>1, f[j] = s[j] DEF MoveToFront
  <2> QED BY <2>1, <2>2, <2>3, <1>1
<1>5. NoDuplicates(s) => NoDuplicates(f)
  BY <1>1, <1>2 DEF MoveToFront, NoDuplicates
<1> QED BY <1>3, <1>4, <1>5

\* MoveToBack returns a list of the same length that ends with s[i].
LEMMA MoveToBackIsSeq ==
  ASSUME NEW S, NEW s \in Seq(S), NEW i \in 1 .. Len(s)
  PROVE  /\ MoveToBack(s, i) \in Seq(S)
         /\ Len(MoveToBack(s, i)) = Len(s)
<1> DEFINE f == MoveToBack(s, i)
<1>1. Len(s) \in Nat /\ \A j \in 1 .. Len(s) : s[j] \in S
  BY LenProperties, ElementOfSeq
<1>2. f \in [1 .. Len(s) -> S]
  BY <1>1 DEF MoveToBack
<1> QED BY <1>1, <1>2, FunctionIsSeq

\* MoveToBack neither loses an element nor links one twice.
LEMMA MoveToBackPermutes ==
  ASSUME NEW S, NEW s \in Seq(S), NEW i \in 1 .. Len(s)
  PROVE  /\ Elements(MoveToBack(s, i)) = Elements(s)
         /\ NoDuplicates(s) => NoDuplicates(MoveToBack(s, i))
<1> DEFINE f == MoveToBack(s, i)
<1>1. Len(s) \in Nat /\ DOMAIN s = 1 .. Len(s)
  BY LenProperties
<1>2. DOMAIN f = 1 .. Len(s)
  BY DEF MoveToBack
<1>3. Elements(f) \subseteq Elements(s)
  BY <1>1, <1>2 DEF MoveToBack, Elements
<1>4. Elements(s) \subseteq Elements(f)
  <2> SUFFICES ASSUME NEW j \in 1 .. Len(s)
               PROVE  \E k \in 1 .. Len(s) : f[k] = s[j]
    BY <1>1, <1>2 DEF Elements
  <2>1. CASE j < i
    BY <2>1, <1>1, f[j] = s[j] DEF MoveToBack
  <2>2. CASE j = i
    BY <2>2, <1>1, f[Len(s)] = s[j] DEF MoveToBack
  <2>3. CASE j > i
    BY <2>3, <1>1, f[j - 1] = s[j] DEF MoveToBack
  <2> QED BY <2>1, <2>2, <2>3, <1>1
<1>5. NoDuplicates(s) => NoDuplicates(f)
  BY <1>1, <1>2 DEF MoveToBack, NoDuplicates
<1> QED BY <1>3, <1>4, <1>5

\* InsertFront adds x before every element.
LEMMA InsertFrontIsSeq ==
  ASSUME NEW S, NEW s \in Seq(S), NEW x \in S
  PROVE  /\ InsertFront(s, x) \in Seq(S)
         /\ Len(InsertFront(s, x)) = Len(s) + 1
         /\ InsertFront(s, x)[1] = x
         /\ \A j \in 1 .. Len(s) : InsertFront(s, x)[j + 1] = s[j]
<1> DEFINE f == InsertFront(s, x)
<1>1. Len(s) \in Nat /\ \A j \in 1 .. Len(s) : s[j] \in S
  BY LenProperties, ElementOfSeq
<1>2. f \in [1 .. Len(s) + 1 -> S]
  BY <1>1 DEF InsertFront
<1>3. f[1] = x /\ \A j \in 1 .. Len(s) : f[j + 1] = s[j]
  BY <1>1 DEF InsertFront
<1>4. Len(s) + 1 \in Nat
  BY <1>1
<1> QED BY <1>2, <1>3, <1>4, FunctionIsSeq

\* The elements after InsertFront.
LEMMA InsertFrontElements ==
  ASSUME NEW S, NEW s \in Seq(S), NEW x \in S
  PROVE  /\ Elements(InsertFront(s, x)) = Elements(s) \cup {x}
         /\ NoDuplicates(s) /\ x \notin Elements(s)
              => NoDuplicates(InsertFront(s, x))
<1> DEFINE f == InsertFront(s, x)
<1>1. Len(s) \in Nat /\ DOMAIN s = 1 .. Len(s)
  BY LenProperties
<1>2. DOMAIN f = 1 .. Len(s) + 1
  BY DEF InsertFront
<1>3. Elements(f) \subseteq Elements(s) \cup {x}
  BY <1>1, <1>2 DEF InsertFront, Elements
<1>4. Elements(s) \cup {x} \subseteq Elements(f)
  <2>1. f[1] = x /\ 1 \in DOMAIN f
    BY <1>1, <1>2 DEF InsertFront
  <2>2. ASSUME NEW j \in 1 .. Len(s)
        PROVE  \E k \in DOMAIN f : f[k] = s[j]
    <3>1. f[j + 1] = s[j] /\ j + 1 \in 1 .. Len(s) + 1
      BY <1>1 DEF InsertFront
    <3> HIDE DEF f
    <3> QED BY <3>1, <1>2
  <2> QED BY <2>1, <2>2, <1>1 DEF Elements
<1>5. NoDuplicates(s) /\ x \notin Elements(s) => NoDuplicates(f)
  BY <1>1, <1>2 DEF InsertFront, NoDuplicates, Elements
<1> QED BY <1>3, <1>4, <1>5

\* RemoveAt returns a list that is one shorter.
LEMMA RemoveAtIsSeq ==
  ASSUME NEW S, NEW s \in Seq(S), NEW i \in 1 .. Len(s)
  PROVE  /\ RemoveAt(s, i) \in Seq(S)
         /\ Len(RemoveAt(s, i)) = Len(s) - 1
<1> DEFINE f == RemoveAt(s, i)
<1>1. Len(s) \in Nat /\ \A j \in 1 .. Len(s) : s[j] \in S
  BY LenProperties, ElementOfSeq
<1>2. f \in [1 .. Len(s) - 1 -> S]
  BY <1>1 DEF RemoveAt
<1>3. Len(s) - 1 \in Nat
  BY <1>1
<1> QED BY <1>2, <1>3, FunctionIsSeq

\* RemoveAt removes s[i] and nothing else.
LEMMA RemoveAtElements ==
  ASSUME NEW S, NEW s \in Seq(S), NEW i \in 1 .. Len(s), NoDuplicates(s)
  PROVE  /\ Elements(RemoveAt(s, i)) = Elements(s) \ {s[i]}
         /\ NoDuplicates(RemoveAt(s, i))
<1> DEFINE f == RemoveAt(s, i)
<1>1. Len(s) \in Nat /\ DOMAIN s = 1 .. Len(s)
  BY LenProperties
<1>2. DOMAIN f = 1 .. Len(s) - 1
  BY DEF RemoveAt
<1>3. Elements(f) \subseteq Elements(s) \ {s[i]}
  BY <1>1, <1>2 DEF RemoveAt, Elements, NoDuplicates
<1>4. Elements(s) \ {s[i]} \subseteq Elements(f)
  <2> SUFFICES ASSUME NEW j \in 1 .. Len(s), j # i
               PROVE  \E k \in 1 .. Len(s) - 1 : f[k] = s[j]
    BY <1>1, <1>2 DEF Elements
  <2>1. CASE j < i
    BY <2>1, <1>1, f[j] = s[j] DEF RemoveAt
  <2>2. CASE j > i
    <3>1. f[j - 1] = s[j] /\ j - 1 \in 1 .. Len(s) - 1
      BY <2>2, <1>1 DEF RemoveAt
    <3> HIDE DEF f
    <3> QED BY <3>1
  <2> QED BY <2>1, <2>2, <1>1
<1>5. NoDuplicates(f)
  BY <1>1, <1>2 DEF RemoveAt, NoDuplicates
<1> QED BY <1>3, <1>4, <1>5

----------------------------------------------------------------------------
\* The windows.

ListInv == TypeOK /\ ListTracksToplevels

USE SurfacesDistinct, InitialFocusedLayerAssumption

\* A toplevel that exists is at its position in the list, and every element of
\* the list is a toplevel that exists.
LEMMA ListFacts ==
  ASSUME ListInv
  PROVE  /\ toplevels \in Seq(Toplevel)
         /\ Len(toplevels) \in Nat
         /\ DOMAIN toplevels = 1 .. Len(toplevels)
         /\ \A i \in 1 .. Len(toplevels) :
              toplevels[i] \in Toplevel /\ Live(toplevels[i])
         /\ \A t \in Toplevel : Live(t) =>
              /\ PosOf(toplevels, t) \in 1 .. Len(toplevels)
              /\ toplevels[PosOf(toplevels, t)] = t
<1>1. toplevels \in Seq(Toplevel)
  BY DEF ListInv, TypeOK
<1>2. Len(toplevels) \in Nat /\ DOMAIN toplevels = 1 .. Len(toplevels)
  BY <1>1, LenProperties
<1>3. Elements(toplevels) = {t \in Toplevel : Live(t)}
  BY DEF ListInv, ListTracksToplevels
<1>4. \A i \in 1 .. Len(toplevels) :
        toplevels[i] \in Toplevel /\ Live(toplevels[i])
  BY <1>2, <1>3 DEF Elements
<1>5. ASSUME NEW t \in Toplevel, Live(t)
      PROVE  /\ PosOf(toplevels, t) \in 1 .. Len(toplevels)
             /\ toplevels[PosOf(toplevels, t)] = t
  BY <1>1, <1>3, <1>5, PosOfElement
<1> QED BY <1>1, <1>2, <1>4, <1>5

\* The toplevel after one that is not the last exists.
LEMMA NextOfIsLive ==
  ASSUME ListInv, NEW t \in Toplevel, Live(t), ~IsLast(t)
  PROVE  NextOf(t) \in Toplevel /\ Live(NextOf(t))
BY ListFacts DEF NextOf, IsLast

\* seat_focus_surface() keeps the types.
LEMMA SeatFocusSurfaceTypes ==
  ASSUME TypeOK, NEW s \in Surface, SeatFocusSurface(s)
  PROVE  kbFocus' \in Surface \cup {None} /\ missed' \in BOOLEAN
BY DEF SeatFocusSurface, TypeOK

\* focus_toplevel() without the list keeps the types.
LEMMA ActivateTypes ==
  ASSUME TypeOK, NEW t \in Toplevel, NEW fl, Activate(t, fl)
  PROVE  /\ activated' \subseteq Toplevel
         /\ kbFocus' \in Surface \cup {None}
         /\ missed' \in BOOLEAN
<1>1. CASE FocusRefused(t, fl)
  BY <1>1 DEF Activate, TypeOK, focusVars
<1>2. CASE ~FocusRefused(t, fl)
  BY <1>2, SeatFocusSurfaceTypes DEF Activate, TypeOK, Surface
<1> QED BY <1>1, <1>2

\* Leaving the list alone and leaving the focus alone.
LEMMA KeepFocusTypes ==
  ASSUME ListInv, KeepFocus
  PROVE  /\ toplevels' \in Seq(Toplevel)
         /\ Elements(toplevels') = Elements(toplevels)
         /\ NoDuplicates(toplevels')
         /\ activated' \subseteq Toplevel
         /\ kbFocus' \in Surface \cup {None}
         /\ missed' \in BOOLEAN
BY DEF ListInv, TypeOK, ListTracksToplevels, KeepFocus, focusVars

\* focus_toplevel() permutes the list, and the toplevel it focuses is first.
LEMMA FocusToplevelTypes ==
  ASSUME ListInv, NEW t \in Toplevel, Live(t), NEW fl, FocusToplevel(t, fl)
  PROVE  /\ toplevels' \in Seq(Toplevel)
         /\ Elements(toplevels') = Elements(toplevels)
         /\ NoDuplicates(toplevels')
         /\ activated' \subseteq Toplevel
         /\ kbFocus' \in Surface \cup {None}
         /\ missed' \in BOOLEAN
         /\ ~FocusRefused(t, fl) => toplevels'[1] = t
         /\ FocusRefused(t, fl) => UNCHANGED <<toplevels, kbFocus, missed>>
<1>1. TypeOK /\ NoDuplicates(toplevels)
  BY DEF ListInv, ListTracksToplevels
<1>2. Activate(t, fl)
  BY DEF FocusToplevel
<1>3. /\ activated' \subseteq Toplevel
      /\ kbFocus' \in Surface \cup {None}
      /\ missed' \in BOOLEAN
  BY <1>1, <1>2, ActivateTypes
<1>4. CASE FocusRefused(t, fl)
  BY <1>1, <1>3, <1>4 DEF FocusToplevel, TypeOK, Activate, focusVars
<1>5. CASE ~FocusRefused(t, fl)
  <2>1. toplevels' = MoveToFront(toplevels, PosOf(toplevels, t))
    BY <1>5 DEF FocusToplevel
  <2>2. /\ toplevels \in Seq(Toplevel)
        /\ PosOf(toplevels, t) \in 1 .. Len(toplevels)
        /\ toplevels[PosOf(toplevels, t)] = t
    BY ListFacts
  <2>3. /\ toplevels' \in Seq(Toplevel)
        /\ Elements(toplevels') = Elements(toplevels)
        /\ NoDuplicates(toplevels')
        /\ toplevels'[1] = t
    BY <1>1, <2>1, <2>2, MoveToFrontIsSeq, MoveToFrontPermutes
  <2> QED BY <1>3, <1>5, <2>3
<1> QED BY <1>4, <1>5

----------------------------------------------------------------------------
\* Every step keeps the types, and keeps the list equal to the live toplevels.
LEMMA ListInvStep == ListInv /\ [Next]_vars => ListInv'
<1> SUFFICES ASSUME ListInv, [Next]_vars PROVE ListInv'
  OBVIOUS
<1> USE DEF ListInv, TypeOK, ListTracksToplevels, Live, ToplevelStage,
            windowVars, layerVars, focusVars, seatVars, grabVars, FaultSite,
            Undefined
<1>1. ASSUME NEW t \in Toplevel, NewToplevel(t)
      PROVE  ListInv'
  <2>1. t \notin Elements(toplevels)
    BY <1>1 DEF NewToplevel
  <2>2. /\ toplevels \in Seq(Toplevel)
        /\ NoDuplicates(toplevels)
        /\ toplevels' = InsertFront(toplevels, t)
    BY <1>1 DEF NewToplevel
  <2>3. /\ toplevels' \in Seq(Toplevel)
        /\ Elements(toplevels') = Elements(toplevels) \cup {t}
        /\ NoDuplicates(toplevels')
    <3> HIDE DEF ListInv
    <3> QED BY <2>1, <2>2, InsertFrontIsSeq, InsertFrontElements
  <2> QED BY <1>1, <2>3 DEF NewToplevel
<1>2. ASSUME NEW t \in Toplevel, AckConfigure(t)
      PROVE  ListInv'
  BY <1>2 DEF AckConfigure
<1>3. ASSUME NEW t \in Toplevel, MapToplevel(t)
      PROVE  ListInv'
  <2>1. Live(t) /\ FocusToplevel(t, focusedLayer)
    BY <1>3 DEF MapToplevel
  <2> HIDE DEF ListInv
  <2>2. /\ toplevels' \in Seq(Toplevel)
        /\ Elements(toplevels') = Elements(toplevels)
        /\ NoDuplicates(toplevels')
        /\ activated' \subseteq Toplevel
        /\ kbFocus' \in Surface \cup {None}
        /\ missed' \in BOOLEAN
    BY <2>1, FocusToplevelTypes
  <2> QED BY <1>3, <2>2 DEF MapToplevel, ListInv
<1>4. ASSUME NEW t \in Toplevel, UnmapToplevel(t)
      PROVE  ListInv'
  <2>1. Live(t)
    BY <1>4 DEF UnmapToplevel, Mapped
  <2> HIDE DEF ListInv
  <2>2. /\ toplevels' \in Seq(Toplevel)
        /\ Elements(toplevels') = Elements(toplevels)
        /\ NoDuplicates(toplevels')
        /\ activated' \subseteq Toplevel
        /\ kbFocus' \in Surface \cup {None}
        /\ missed' \in BOOLEAN
    <3>1. CASE ~IsLast(t) /\ Mapped(NextOf(t))
      BY <1>4, <2>1, <3>1, NextOfIsLive, FocusToplevelTypes DEF UnmapToplevel
    <3>2. CASE ~(~IsLast(t) /\ Mapped(NextOf(t)))
      BY <1>4, <3>2, KeepFocusTypes DEF UnmapToplevel
    <3> QED BY <3>1, <3>2
  <2> QED BY <1>4, <2>2 DEF UnmapToplevel, ListInv, ResetCursorMode, Mapped
<1>5. ASSUME NEW t \in Toplevel, DestroyToplevel(t)
      PROVE  ListInv'
  <2>1. Live(t)
    BY <1>5 DEF DestroyToplevel
  <2>2. /\ PosOf(toplevels, t) \in 1 .. Len(toplevels)
        /\ toplevels[PosOf(toplevels, t)] = t
    BY <2>1, ListFacts
  <2>3. /\ toplevels' \in Seq(Toplevel)
        /\ Elements(toplevels') = Elements(toplevels) \ {t}
        /\ NoDuplicates(toplevels')
    BY <1>5, <2>2, RemoveAtIsSeq, RemoveAtElements DEF DestroyToplevel
  <2> QED BY <1>5, <2>3 DEF DestroyToplevel
<1>6. ASSUME NEW t \in Toplevel, Live(t), Minimize(t)
      PROVE  ListInv'
  <2> HIDE DEF ListInv
  <2>2. /\ toplevels' \in Seq(Toplevel)
        /\ Elements(toplevels') = Elements(toplevels)
        /\ NoDuplicates(toplevels')
        /\ activated' \subseteq Toplevel
        /\ kbFocus' \in Surface \cup {None}
        /\ missed' \in BOOLEAN
    <3>1. CASE Len(toplevels) = 1
      BY <1>6, <3>1, FocusToplevelTypes DEF Minimize
    <3>2. CASE Len(toplevels) # 1 /\ IsLast(t)
      BY <1>6, <3>2, KeepFocusTypes DEF Minimize
    <3>3. CASE Len(toplevels) # 1 /\ ~IsLast(t)
      BY <1>6, <3>3, NextOfIsLive, FocusToplevelTypes DEF Minimize
    <3> QED BY <3>1, <3>2, <3>3
  <2> QED BY <1>6, <2>2 DEF Minimize, ListInv
<1>7. ASSUME NEW t \in Toplevel, RequestMinimize(t)
      PROVE  ListInv'
  BY <1>6, <1>7 DEF RequestMinimize
<1>8. ASSUME NEW t \in Toplevel, NEW mode \in {"move", "resize"},
             BeginInteractive(t, mode)
      PROVE  ListInv'
  BY <1>8 DEF BeginInteractive
<1>9. ASSUME NEW t \in Toplevel, ButtonPress(t)
      PROVE  ListInv'
  <2>1. Live(t) /\ FocusToplevel(t, focusedLayer)
    BY <1>9 DEF ButtonPress, Mapped
  <2> HIDE DEF ListInv
  <2>2. /\ toplevels' \in Seq(Toplevel)
        /\ Elements(toplevels') = Elements(toplevels)
        /\ NoDuplicates(toplevels')
        /\ activated' \subseteq Toplevel
        /\ kbFocus' \in Surface \cup {None}
        /\ missed' \in BOOLEAN
    BY <2>1, FocusToplevelTypes
  <2> QED BY <1>9, <2>2 DEF ButtonPress, ListInv
<1>10. ASSUME NEW l \in LayerSurface, NEW ly \in LayerType,
              NEW interactive \in BOOLEAN, NewLayerSurface(l, ly, interactive)
       PROVE  ListInv'
  BY <1>10, LayerTypeAssumption DEF NewLayerSurface, LayerStage
<1>11. ASSUME NEW l \in LayerSurface, NEW ly \in LayerType,
              NEW interactive \in BOOLEAN, CommitLayer(l, ly, interactive)
       PROVE  ListInv'
  <2>1. kbFocus' \in Surface \cup {None} /\ missed' \in BOOLEAN
    BY <1>11, SeatFocusSurfaceTypes DEF CommitLayer, Surface
  <2>2. layer' \in [LayerSurface -> [stage : LayerStage, layer : BACKGROUND .. OVERLAY,
                                     interactive : BOOLEAN]]
    BY <1>11, LayerTypeAssumption DEF CommitLayer, LayerStage
  <2> QED BY <1>11, <2>1, <2>2 DEF CommitLayer
<1>12. ASSUME NEW l \in LayerSurface, MapLayer(l)
       PROVE  ListInv'
  <2>1. /\ kbFocus' \in Surface \cup {None}
        /\ missed' \in BOOLEAN
        /\ focusedLayer' \in LayerSurface \cup {None, Dangling}
    BY <1>12, SeatFocusSurfaceTypes DEF MapLayer, SeatSetFocusLayer, Surface
  <2>2. layer' \in [LayerSurface -> [stage : LayerStage, layer : BACKGROUND .. OVERLAY,
                                     interactive : BOOLEAN]]
    BY <1>12 DEF MapLayer, LayerStage
  <2> QED BY <1>12, <2>1, <2>2 DEF MapLayer
<1>13. ASSUME NEW l \in LayerSurface, UnmapLayer(l)
       PROVE  ListInv'
  <2> HIDE DEF ListInv
  <2>1. /\ toplevels' \in Seq(Toplevel)
        /\ Elements(toplevels') = Elements(toplevels)
        /\ NoDuplicates(toplevels')
        /\ activated' \subseteq Toplevel
        /\ kbFocus' \in Surface \cup {None}
        /\ missed' \in BOOLEAN
    <3>1. CASE toplevels # <<>> /\ Mapped(Front)
      <4>1. Front \in Toplevel /\ Live(Front)
        <5>1. Len(toplevels) # 0
          BY <3>1, ListFacts, EmptySeq
        <5> QED BY <5>1, ListFacts DEF Front
      <4> QED BY <1>13, <3>1, <4>1, FocusToplevelTypes DEF UnmapLayer
    <3>2. CASE ~(toplevels # <<>> /\ Mapped(Front))
      BY <1>13, <3>2, KeepFocusTypes DEF UnmapLayer
    <3> QED BY <3>1, <3>2
  <2>2. layer' \in [LayerSurface -> [stage : LayerStage, layer : BACKGROUND .. OVERLAY,
                                     interactive : BOOLEAN]]
    <3>1. layer' = [layer EXCEPT ![l].stage = "unmapped"]
      BY <1>13 DEF UnmapLayer
    <3>2. layer \in [LayerSurface -> [stage : LayerStage, layer : BACKGROUND .. OVERLAY,
                                      interactive : BOOLEAN]]
      BY DEF ListInv, TypeOK
    <3> QED BY ONLY <3>1, <3>2, <1>13 DEF LayerStage
  <2>3. focusedLayer' \in LayerSurface \cup {None, Dangling}
    BY <1>13 DEF UnmapLayer, FocusedLayerWithout, ListInv
  <2> QED BY <1>13, <2>1, <2>2, <2>3 DEF UnmapLayer, ListInv
<1>14. ASSUME NEW l \in LayerSurface, DestroyLayer(l)
       PROVE  ListInv'
  BY <1>14 DEF DestroyLayer, LayerStage, NoLayer, BACKGROUND, OVERLAY
<1>15. ASSUME NEW s \in Surface, DestroySurface(s)
       PROVE  ListInv'
  BY <1>15 DEF DestroySurface
<1>16. ASSUME NEW k \in Keyboard,
              NewKeyboard(k) \/ DestroyKeyboard(k) \/ KeyboardEvent(k)
       PROVE  ListInv'
  BY <1>16 DEF NewKeyboard, DestroyKeyboard, KeyboardEvent
<1>17. ASSUME KeyNextWindow
       PROVE  ListInv'
  <2>1. Len(toplevels) \in 1 .. Len(toplevels)
    BY <1>17, ListFacts, EmptySeq DEF KeyNextWindow
  <2>2. toplevels[Len(toplevels)] \in Toplevel
    BY <2>1, ListFacts
  <2>3. /\ activated' \subseteq Toplevel
        /\ kbFocus' \in Surface \cup {None}
        /\ missed' \in BOOLEAN
    BY <1>17, <2>2, ActivateTypes DEF KeyNextWindow
  <2>4. /\ toplevels' \in Seq(Toplevel)
        /\ Elements(toplevels') = Elements(toplevels)
        /\ NoDuplicates(toplevels')
    BY <1>17, <2>1, MoveToFrontIsSeq, MoveToFrontPermutes DEF KeyNextWindow
  <2> QED BY <1>17, <2>3, <2>4 DEF KeyNextWindow
<1>18. ASSUME KeyPreviousWindow
       PROVE  ListInv'
  <2>1. Len(toplevels) \in Nat \ {0}
    BY <1>18, ListFacts, EmptySeq DEF KeyPreviousWindow
  <2>2. /\ activated' \subseteq Toplevel
        /\ kbFocus' \in Surface \cup {None}
        /\ missed' \in BOOLEAN
    <3>1. CASE Len(toplevels) > 1
      <4>1. toplevels[2] \in Toplevel
        BY <2>1, <3>1, ListFacts
      <4> QED BY <1>18, <3>1, <4>1, ActivateTypes DEF KeyPreviousWindow
    <3>2. CASE ~(Len(toplevels) > 1)
      BY <1>18, <3>2 DEF KeyPreviousWindow
    <3> QED BY <3>1, <3>2
  <2>3. /\ toplevels' \in Seq(Toplevel)
        /\ Elements(toplevels') = Elements(toplevels)
        /\ NoDuplicates(toplevels')
    BY <1>18, <2>1, MoveToBackIsSeq, MoveToBackPermutes DEF KeyPreviousWindow
  <2> QED BY <1>18, <2>2, <2>3 DEF KeyPreviousWindow
<1>19. ASSUME KeyIconify
       PROVE  ListInv'
  <2>1. Front \in Toplevel /\ Live(Front)
    <3>1. Len(toplevels) # 0
      BY <1>19, ListFacts, EmptySeq DEF KeyIconify
    <3> QED BY <3>1, ListFacts DEF Front
  <2> QED BY <1>6, <1>19, <2>1 DEF KeyIconify
<1>20. ASSUME \/ KeyOnEmptyList \/ CursorMotion \/ ButtonRelease
              \/ \E l \in LayerSurface : ButtonPressLayer(l)
       PROVE  ListInv'
  BY <1>20 DEF KeyOnEmptyList, CursorMotion, ButtonRelease, ButtonPressLayer,
               ResetCursorMode
<1>21. ASSUME UNCHANGED vars
       PROVE  ListInv'
  BY <1>21 DEF vars
<1> QED
  BY <1>1, <1>2, <1>3, <1>4, <1>5, <1>7, <1>8, <1>9, <1>10, <1>11, <1>12,
     <1>13, <1>14, <1>15, <1>16, <1>17, <1>18, <1>19, <1>20, <1>21
  DEF Next

\* The initial state has the types, and an empty list.
LEMMA InitListInv == Init => ListInv
<1> SUFFICES ASSUME Init PROVE ListInv
  OBVIOUS
<1>1. toplevels \in Seq(Toplevel) /\ Elements(toplevels) = {}
      /\ NoDuplicates(toplevels)
  BY EmptySeq, LenProperties DEF Init, Elements, NoDuplicates
<1>2. ListTracksToplevels
  <2>1. {t \in Toplevel : Live(t)} = {}
    BY DEF Init, Live
  <2> QED BY <1>1, <2>1 DEF ListTracksToplevels
<1>3. layer \in [LayerSurface -> [stage : LayerStage, layer : BACKGROUND .. OVERLAY,
                                  interactive : BOOLEAN]]
  BY DEF Init, LayerStage, NoLayer, BACKGROUND, OVERLAY
<1> QED BY <1>1, <1>2, <1>3 DEF Init, ListInv, TypeOK, ToplevelStage

\* The types, for every reachable state.
THEOREM TypeCorrect == Spec => [](TypeOK /\ ListTracksToplevels)
<1>1. Init => ListInv
  BY InitListInv
<1>2. ListInv /\ [Next]_vars => ListInv'
  BY ListInvStep
<1>3. ListInv => TypeOK /\ ListTracksToplevels
  BY DEF ListInv
<1> QED BY <1>1, <1>2, <1>3, PTL DEF Spec

----------------------------------------------------------------------------
\* The first element of a list without duplicates comes at no later position.
LEMMA FirstOnlyFirst ==
  ASSUME NEW S, NEW s \in Seq(S), NoDuplicates(s),
         NEW i \in DOMAIN s, NEW j \in DOMAIN s, i < j
  PROVE  s[j] # s[1]
BY LenProperties DEF NoDuplicates

\* What focus_toplevel() does to the keyboard: nothing when it refuses, else
\* the toplevel has it or, the seat having none, the keyboard was missed.
LEMMA ActivateEffect ==
  ASSUME NEW t \in Toplevel, NEW fl, Activate(t, fl)
  PROVE  \/ FocusRefused(t, fl) /\ kbFocus' = kbFocus /\ missed' = missed
         \/ ~FocusRefused(t, fl) /\ kbFocus' = t /\ missed' = FALSE
         \/ ~FocusRefused(t, fl) /\ kbFocus' = kbFocus /\ missed' = TRUE
BY DEF Activate, SeatFocusSurface, focusVars

\* The list and the focus as they were, and nothing newly mapped.
LEMMA SameOrder ==
  ASSUME ListInv, FrontIsFocused,
         toplevels' = toplevels, kbFocus' = kbFocus, missed' = missed,
         \A u \in Toplevel : Mapped(u)' => Mapped(u)
  PROVE  FrontIsFocused'
BY ListFacts DEF FrontIsFocused

\* focus_toplevel() keeps FrontIsFocused when nothing is newly mapped.
LEMMA FocusKeepsFront ==
  ASSUME ListInv, ListInv', FrontIsFocused,
         NEW t \in Toplevel, Live(t), NEW fl, FocusToplevel(t, fl),
         \A u \in Toplevel : Mapped(u)' => Mapped(u)
  PROVE  FrontIsFocused'
<1>1. CASE FocusRefused(t, fl)
  BY <1>1, FocusToplevelTypes, SameOrder
<1>2. CASE ~FocusRefused(t, fl)
  <2>1. kbFocus' = t \/ missed' = TRUE
    BY <1>2, ActivateEffect DEF FocusToplevel
  <2>2. /\ toplevels' \in Seq(Toplevel)
        /\ NoDuplicates(toplevels')
        /\ toplevels'[1] = t
    BY <1>2, FocusToplevelTypes
  <2>3. \A i, j \in DOMAIN toplevels' : i < j => toplevels'[j] # t
    BY <2>2, FirstOnlyFirst
  <2> QED BY <2>1, <2>3 DEF FrontIsFocused
<1> QED BY <1>1, <1>2

\* What is inductive, given ListInv: each part needs the ones after it.
FocusInv == FrontIsFocused /\ LayerExcludesWindows /\ FocusedLayerMapped

\* Every step keeps the mapped windows behind the one with the keyboard.
LEMMA FrontStep ==
  ListInv /\ ListInv' /\ FocusInv /\ [Next]_vars => FrontIsFocused'
<1> SUFFICES ASSUME ListInv, ListInv', FocusInv, [Next]_vars
             PROVE  FrontIsFocused'
  OBVIOUS
<1> USE DEF FocusInv, windowVars, layerVars, focusVars, seatVars, grabVars
<1> DEFINE Quiet == /\ UNCHANGED <<toplevels, kbFocus, missed>>
                    /\ \A u \in Toplevel : Mapped(u)' => Mapped(u)
<1>0. Quiet => FrontIsFocused'
  BY SameOrder
<1>a. toplevels' \in Seq(Toplevel) /\ NoDuplicates(toplevels')
  BY DEF ListInv, TypeOK, ListTracksToplevels
<1>b. toplevels \in Seq(Toplevel) /\ NoDuplicates(toplevels)
  BY DEF ListInv, TypeOK, ListTracksToplevels
<1>c. stage \in [Toplevel -> ToplevelStage]
  BY DEF ListInv, TypeOK
<1>1. ASSUME NEW t \in Toplevel, NewToplevel(t)
      PROVE  FrontIsFocused'
  <2>1. /\ Len(toplevels') = Len(toplevels) + 1
        /\ toplevels'[1] = t
        /\ \A j \in 1 .. Len(toplevels) : toplevels'[j + 1] = toplevels[j]
    <3>1. toplevels' = InsertFront(toplevels, t)
      BY <1>1 DEF NewToplevel
    <3>2. /\ Len(InsertFront(toplevels, t)) = Len(toplevels) + 1
          /\ InsertFront(toplevels, t)[1] = t
          /\ \A j \in 1 .. Len(toplevels) :
               InsertFront(toplevels, t)[j + 1] = toplevels[j]
      BY <1>b, InsertFrontIsSeq
    <3> QED BY <3>1, <3>2
  <2> SUFFICES ASSUME kbFocus' \in Toplevel, ~missed',
                        NEW i \in DOMAIN toplevels', NEW j \in DOMAIN toplevels',
                        i < j, toplevels'[j] = kbFocus'
                 PROVE  ~Mapped(toplevels[i])'
    BY DEF FrontIsFocused
  <2>3. /\ i \in 1 .. Len(toplevels) + 1
        /\ j \in 1 .. Len(toplevels) + 1
        /\ Len(toplevels) \in Nat
    BY <2>1, <1>a, <1>b, LenProperties
  <2>4. CASE i = 1
    BY <1>1, <1>c, <2>1, <2>4 DEF NewToplevel, Mapped
  <2>5. CASE i # 1
    <3>1. /\ i - 1 \in 1 .. Len(toplevels) /\ j - 1 \in 1 .. Len(toplevels)
          /\ i - 1 < j - 1
      BY <2>3, <2>5
    <3>2. toplevels'[i] = toplevels[i - 1] /\ toplevels'[j] = toplevels[j - 1]
      BY <2>1, <2>3, <3>1
    <3>3. kbFocus' = kbFocus /\ missed' = missed
      BY <1>1 DEF NewToplevel
    <3>4. ~Mapped(toplevels[i - 1])
      BY <3>1, <3>2, <3>3, ListFacts DEF FrontIsFocused
    <3> QED BY <1>1, <1>c, <3>2, <3>4 DEF NewToplevel, Mapped
  <2> QED BY <2>4, <2>5
<1>2. ASSUME NEW t \in Toplevel, AckConfigure(t)
      PROVE  FrontIsFocused'
  BY <1>0, <1>2, <1>c DEF AckConfigure, Mapped
<1>3. ASSUME NEW t \in Toplevel, MapToplevel(t)
      PROVE  FrontIsFocused'
  <2>1. Live(t) /\ FocusToplevel(t, focusedLayer)
    BY <1>3 DEF MapToplevel, Live
  <2>2. CASE focusedLayer # None
    <3>1. kbFocus' = kbFocus /\ missed' = missed
      BY <2>1, <2>2, FocusToplevelTypes DEF FocusRefused
    <3> QED BY <2>2, <3>1 DEF LayerExcludesWindows, FrontIsFocused
  <2>3. CASE focusedLayer = None /\ kbFocus = t
    <3>1. UNCHANGED <<toplevels, kbFocus, missed>>
      BY <2>1, <2>3, FocusToplevelTypes DEF FocusRefused
    <3>2. \A i, j \in DOMAIN toplevels :
            i < j /\ toplevels[j] = t => toplevels[i] # t
      BY <1>b, ListFacts DEF NoDuplicates
    <3>3. \A u \in Toplevel \ {t} : stage'[u] = stage[u]
      BY <1>3, <1>c DEF MapToplevel
    <3> QED BY <2>3, <3>1, <3>2, <3>3, ListFacts DEF FrontIsFocused, Mapped
  <2>4. CASE focusedLayer = None /\ kbFocus # t
    <3>1. kbFocus' = t \/ missed' = TRUE
      BY <2>1, <2>4, ActivateEffect DEF FocusToplevel, FocusRefused
    <3>2. toplevels'[1] = t
      BY <2>1, <2>4, FocusToplevelTypes DEF FocusRefused
    <3> QED BY <1>a, <3>1, <3>2, FirstOnlyFirst DEF FrontIsFocused
  <2> QED BY <2>2, <2>3, <2>4
<1>4. ASSUME NEW t \in Toplevel, UnmapToplevel(t)
      PROVE  FrontIsFocused'
  <2>1. Live(t) /\ \A u \in Toplevel : Mapped(u)' => Mapped(u)
    BY <1>4, <1>c DEF UnmapToplevel, Mapped, Live
  <2>2. CASE ~IsLast(t) /\ Mapped(NextOf(t))
    BY <1>4, <2>1, <2>2, NextOfIsLive, FocusKeepsFront DEF UnmapToplevel
  <2>3. CASE ~(~IsLast(t) /\ Mapped(NextOf(t)))
    BY <1>0, <1>4, <2>1, <2>3 DEF UnmapToplevel, KeepFocus
  <2> QED BY <2>2, <2>3
<1>5. ASSUME NEW t \in Toplevel, DestroyToplevel(t)
      PROVE  FrontIsFocused'
  <2>1. PICK n \in 1 .. Len(toplevels) : toplevels' = RemoveAt(toplevels, n)
    BY <1>5, ListFacts DEF DestroyToplevel, Live
  <2>2. DOMAIN toplevels' = 1 .. Len(toplevels) - 1
    BY <2>1 DEF RemoveAt
  <2> SUFFICES ASSUME kbFocus' \in Toplevel, ~missed',
                      NEW i \in DOMAIN toplevels', NEW j \in DOMAIN toplevels',
                      i < j, toplevels'[j] = kbFocus'
               PROVE  ~Mapped(toplevels[i])'
    BY DEF FrontIsFocused
  <2>3. toplevels \in Seq(Toplevel)
    BY <1>b
  <2>4. PICK p, q \in 1 .. Len(toplevels) :
          p < q /\ toplevels'[i] = toplevels[p] /\ toplevels'[j] = toplevels[q]
    <3> DEFINE old(k) == IF k < n THEN k ELSE k + 1
    <3>1. Len(toplevels) \in Nat
      BY ListFacts
    <3>2. old(i) \in 1 .. Len(toplevels) /\ old(j) \in 1 .. Len(toplevels)
      BY <2>2, <3>1
    <3>3. old(i) < old(j)
      BY <2>2, <3>1
    <3>4. toplevels'[i] = toplevels[old(i)] /\ toplevels'[j] = toplevels[old(j)]
      BY <2>1, <2>2, <3>1 DEF RemoveAt
    <3> HIDE DEF old
    <3> QED BY <3>2, <3>3, <3>4
  <2>5. kbFocus' = kbFocus /\ missed' = missed
    BY <1>5 DEF DestroyToplevel
  <2>6. ~Mapped(toplevels[p])
    BY <2>4, <2>5, ListFacts DEF FrontIsFocused
  <2> QED BY <1>5, <1>c, <2>4, <2>6, ListFacts DEF DestroyToplevel, Mapped
<1>6. ASSUME NEW t \in Toplevel, Live(t), Minimize(t)
      PROVE  FrontIsFocused'
  <2>1. \A u \in Toplevel : Mapped(u)' => Mapped(u)
    BY <1>6 DEF Minimize, Mapped
  <2>2. CASE Len(toplevels) = 1
    BY <1>6, <2>1, <2>2, FocusKeepsFront DEF Minimize
  <2>3. CASE Len(toplevels) # 1 /\ IsLast(t)
    BY <1>0, <1>6, <2>1, <2>3 DEF Minimize, KeepFocus
  <2>4. CASE Len(toplevels) # 1 /\ ~IsLast(t)
    BY <1>6, <2>1, <2>4, NextOfIsLive, FocusKeepsFront DEF Minimize
  <2> QED BY <2>2, <2>3, <2>4
<1>7. ASSUME NEW t \in Toplevel, RequestMinimize(t)
      PROVE  FrontIsFocused'
  BY <1>6, <1>7 DEF RequestMinimize
<1>8. ASSUME NEW t \in Toplevel, NEW mode \in {"move", "resize"},
             BeginInteractive(t, mode)
      PROVE  FrontIsFocused'
  BY <1>0, <1>8 DEF BeginInteractive, Mapped
<1>9. ASSUME NEW t \in Toplevel, ButtonPress(t)
      PROVE  FrontIsFocused'
  <2>1. \A u \in Toplevel : Mapped(u)' => Mapped(u)
    BY <1>9 DEF ButtonPress, Mapped
  <2> QED BY <1>9, <2>1, FocusKeepsFront DEF ButtonPress, Live, Mapped
<1>10. ASSUME NEW l \in LayerSurface, NEW ly, NEW interactive,
              \/ NewLayerSurface(l, ly, interactive)
              \/ DestroyLayer(l)
       PROVE  FrontIsFocused'
  BY <1>0, <1>10 DEF NewLayerSurface, DestroyLayer, Mapped
<1>11. ASSUME NEW l \in LayerSurface, NEW ly, NEW interactive,
              CommitLayer(l, ly, interactive) \/ MapLayer(l)
       PROVE  FrontIsFocused'
  <2>1. UNCHANGED <<toplevels, stage>>
    BY <1>11 DEF CommitLayer, MapLayer
  <2>2. \/ UNCHANGED <<kbFocus, missed>>
        \/ kbFocus' = l
        \/ missed' = TRUE
    BY <1>11 DEF CommitLayer, MapLayer, SeatSetFocusLayer, SeatFocusSurface
  <2>3. CASE UNCHANGED <<kbFocus, missed>>
    BY <1>0, <2>1, <2>3 DEF Mapped
  <2>4. CASE kbFocus' = l \/ missed' = TRUE
    BY <2>4 DEF FrontIsFocused
  <2> QED BY <2>2, <2>3, <2>4
<1>13. ASSUME NEW l \in LayerSurface, UnmapLayer(l)
       PROVE  FrontIsFocused'
  <2>1. \A u \in Toplevel : Mapped(u)' => Mapped(u)
    BY <1>13 DEF UnmapLayer, Mapped
  <2>2. CASE toplevels # <<>> /\ Mapped(Front)
    <3>1. Front \in Toplevel /\ Live(Front)
      <4>1. Len(toplevels) # 0
        BY <2>2, <1>b, ListFacts, EmptySeq
      <4> QED BY <4>1, ListFacts DEF Front
    <3> QED BY <1>13, <2>1, <2>2, <3>1, FocusKeepsFront DEF UnmapLayer
  <2>3. CASE ~(toplevels # <<>> /\ Mapped(Front))
    BY <1>0, <1>13, <2>1, <2>3 DEF UnmapLayer, KeepFocus
  <2> QED BY <2>2, <2>3
<1>15. ASSUME NEW s \in Surface, DestroySurface(s)
       PROVE  FrontIsFocused'
  BY <1>15 DEF DestroySurface, FrontIsFocused
<1>16. ASSUME NEW k \in Keyboard,
              NewKeyboard(k) \/ DestroyKeyboard(k) \/ KeyboardEvent(k)
       PROVE  FrontIsFocused'
  BY <1>0, <1>16 DEF NewKeyboard, DestroyKeyboard, KeyboardEvent, Mapped
<1>d. ASSUME NEW t \in Toplevel, Activate(t, focusedLayer), toplevels'[1] = t
      PROVE  FrontIsFocused'
  <2>1. \A i, j \in DOMAIN toplevels' : i < j => toplevels'[j] # t
    BY <1>a, <1>d, FirstOnlyFirst
  <2>2. \/ kbFocus' = t
        \/ missed' = TRUE
        \/ focusedLayer # None /\ kbFocus' = kbFocus /\ missed' = missed
    BY <1>d, ActivateEffect DEF FocusRefused
  <2>3. \/ kbFocus' = t
        \/ missed' = TRUE
        \/ kbFocus' \notin Toplevel
    BY <2>2 DEF LayerExcludesWindows
  <2> QED BY <2>1, <2>3 DEF FrontIsFocused
<1>17. ASSUME KeyNextWindow
       PROVE  FrontIsFocused'
  <2>1. Len(toplevels) \in 1 .. Len(toplevels)
    BY <1>17, <1>b, ListFacts, EmptySeq DEF KeyNextWindow
  <2>2. /\ toplevels[Len(toplevels)] \in Toplevel
        /\ toplevels'[1] = toplevels[Len(toplevels)]
    BY <1>17, <1>b, <2>1, ListFacts, MoveToFrontIsSeq DEF KeyNextWindow
  <2> QED BY <1>17, <1>d, <2>2 DEF KeyNextWindow
<1>18. ASSUME KeyPreviousWindow
       PROVE  FrontIsFocused'
  <2>1. Len(toplevels) = 1 \/ Len(toplevels) > 1
    BY <1>18, <1>b, ListFacts, EmptySeq DEF KeyPreviousWindow
  <2>2. CASE Len(toplevels) > 1
    <3>1. toplevels[2] \in Toplevel /\ toplevels'[1] = toplevels[2]
      BY <1>18, <2>2, ListFacts DEF KeyPreviousWindow, MoveToBack
    <3> QED BY <1>18, <1>d, <2>2, <3>1 DEF KeyPreviousWindow
  <2>3. CASE Len(toplevels) = 1
    <3>1. DOMAIN toplevels' = 1 .. Len(toplevels)
      BY <1>18 DEF KeyPreviousWindow, MoveToBack
    <3> QED BY <2>3, <3>1 DEF FrontIsFocused
  <2> QED BY <2>1, <2>2, <2>3
<1>19. ASSUME KeyIconify
       PROVE  FrontIsFocused'
  <2>1. Front \in Toplevel /\ Live(Front)
    <3>1. Len(toplevels) # 0
      BY <1>19, <1>b, ListFacts, EmptySeq DEF KeyIconify
    <3> QED BY <3>1, ListFacts DEF Front
  <2> QED BY <1>6, <1>19, <2>1 DEF KeyIconify
<1>20. ASSUME \/ KeyOnEmptyList \/ CursorMotion \/ ButtonRelease
              \/ \E l \in LayerSurface : ButtonPressLayer(l)
              \/ UNCHANGED vars
       PROVE  FrontIsFocused'
  BY <1>0, <1>20 DEF KeyOnEmptyList, CursorMotion, ButtonRelease,
                     ButtonPressLayer, Mapped, vars
<1> QED
  BY <1>1, <1>2, <1>3, <1>4, <1>5, <1>7, <1>8, <1>9, <1>10, <1>11,
     <1>13, <1>15, <1>16, <1>17, <1>18, <1>19, <1>20
  DEF Next

----------------------------------------------------------------------------
\* Each callback's effect on the keyboard and its exclusive holder is a step of
\* the abstract KeyboardFocus, or none.

\* focus_toplevel() with the focused layer of the moment.
LEMMA ActivateEnters ==
  ASSUME NEW t \in Toplevel, Activate(t, focusedLayer),
         focusedLayer' = focusedLayer
  PROVE  Abstract!EnterWindow \/ UNCHANGED <<kbFocus, focusedLayer>>
BY ActivateEffect DEF FocusRefused, Abstract!EnterWindow

\* Every callback is a step of KeyboardFocus, or none.
LEMMA KeyboardStep ==
  ListInv /\ [Next]_vars => [Abstract!Next]_<<kbFocus, focusedLayer>>
<1> SUFFICES ASSUME ListInv, [Next]_vars
             PROVE  Abstract!Next \/ UNCHANGED <<kbFocus, focusedLayer>>
  OBVIOUS
<1> USE DEF windowVars, layerVars, focusVars, seatVars, grabVars
<1> DEFINE Step == Abstract!Next \/ UNCHANGED <<kbFocus, focusedLayer>>
<1>1. ASSUME NEW t \in Toplevel, Activate(t, focusedLayer),
             focusedLayer' = focusedLayer
      PROVE  Step
  BY <1>1, ActivateEnters DEF Abstract!Next
<1>2. ASSUME NEW t \in Toplevel, MapToplevel(t) \/ ButtonPress(t)
      PROVE  Step
  BY <1>1, <1>2 DEF MapToplevel, ButtonPress, FocusToplevel
<1>3. ASSUME NEW t \in Toplevel, UnmapToplevel(t)
      PROVE  Step
  <2>1. CASE ~IsLast(t) /\ Mapped(NextOf(t))
    <3>1. NextOf(t) \in Toplevel
      BY <1>3, <2>1, NextOfIsLive DEF UnmapToplevel, Mapped, Live
    <3> QED BY <1>1, <1>3, <2>1, <3>1 DEF UnmapToplevel, FocusToplevel
  <2>2. CASE ~(~IsLast(t) /\ Mapped(NextOf(t)))
    BY <1>3, <2>2 DEF UnmapToplevel, KeepFocus
  <2> QED BY <2>1, <2>2
<1>4. ASSUME NEW t \in Toplevel, Live(t), Minimize(t)
      PROVE  Step
  <2>1. CASE Len(toplevels) = 1
    BY <1>1, <1>4, <2>1 DEF Minimize, FocusToplevel
  <2>2. CASE Len(toplevels) # 1 /\ IsLast(t)
    BY <1>4, <2>2 DEF Minimize, KeepFocus
  <2>3. CASE Len(toplevels) # 1 /\ ~IsLast(t)
    BY <1>1, <1>4, <2>3, NextOfIsLive DEF Minimize, FocusToplevel
  <2> QED BY <2>1, <2>2, <2>3
<1>5. ASSUME NEW l \in LayerSurface, NEW ly, NEW interactive,
             CommitLayer(l, ly, interactive)
      PROVE  Step
  <2>1. focusedLayer' = focusedLayer
    BY <1>5 DEF CommitLayer
  <2>2. kbFocus' = kbFocus \/ kbFocus' = l
    BY <1>5 DEF CommitLayer, SeatFocusSurface
  <2> QED BY <2>1, <2>2 DEF Abstract!Next, Abstract!EnterLayer
<1>6. ASSUME NEW l \in LayerSurface, MapLayer(l)
      PROVE  Step
  <2>1. CASE UNCHANGED <<focusedLayer, focusVars>>
    BY <2>1
  <2>2. CASE SeatSetFocusLayer(l)
    <3>1. kbFocus' = kbFocus \/ kbFocus' = l
      BY <2>2 DEF SeatSetFocusLayer, SeatFocusSurface
    <3>2. focusedLayer' = focusedLayer \/ focusedLayer' = l
      BY <2>2 DEF SeatSetFocusLayer
    <3> QED
      BY <3>1, <3>2 DEF Abstract!Next, Abstract!EnterLayer, Abstract!Hold
  <2> QED BY <1>6, <2>1, <2>2 DEF MapLayer
<1>7. ASSUME NEW l \in LayerSurface, UnmapLayer(l)
      PROVE  Step
  <2>1. CASE ~(toplevels # <<>> /\ Mapped(Front))
    <3>1. kbFocus' = kbFocus
      BY <1>7, <2>1 DEF UnmapLayer, KeepFocus
    <3>2. focusedLayer' = focusedLayer \/ (focusedLayer = l /\ focusedLayer' = None)
      BY <1>7 DEF UnmapLayer, FocusedLayerWithout
    <3> QED BY <3>1, <3>2 DEF Abstract!Next, Abstract!Release
  <2>2. CASE toplevels # <<>> /\ Mapped(Front)
    <3>1. Front \in Toplevel
      <4>1. Len(toplevels) # 0
        BY <2>2, ListFacts, EmptySeq
      <4> QED BY <4>1, ListFacts DEF Front
    <3>2. CASE focusedLayer = l
      <4>1. focusedLayer \in LayerSurface /\ focusedLayer' = None
        BY <1>7, <3>2 DEF UnmapLayer, FocusedLayerWithout
      <4>2. kbFocus' \in Toplevel \cup {kbFocus}
        BY <1>7, <2>2, <3>1, ActivateEffect DEF UnmapLayer, FocusToplevel
      <4> QED BY <4>1, <4>2 DEF Abstract!Next, Abstract!Release
    <3>3. CASE focusedLayer # l
      BY <1>1, <1>7, <2>2, <3>1, <3>3
      DEF UnmapLayer, FocusedLayerWithout, FocusToplevel
    <3> QED BY <3>2, <3>3
  <2> QED BY <2>1, <2>2
<1>8. ASSUME NEW s \in Surface, DestroySurface(s)
      PROVE  Step
  BY <1>8 DEF DestroySurface, Abstract!Next, Abstract!Leave
<1>9. ASSUME KeyNextWindow
      PROVE  Step
  <2>1. toplevels[Len(toplevels)] \in Toplevel
    BY <1>9, ListFacts, EmptySeq DEF KeyNextWindow
  <2> QED BY <1>1, <1>9, <2>1 DEF KeyNextWindow
<1>10. ASSUME KeyPreviousWindow
       PROVE  Step
  <2>1. CASE Len(toplevels) > 1
    <3>1. toplevels[2] \in Toplevel
      BY <2>1, ListFacts
    <3> QED BY <1>1, <1>10, <2>1, <3>1 DEF KeyPreviousWindow
  <2>2. CASE ~(Len(toplevels) > 1)
    BY <1>10, <2>2 DEF KeyPreviousWindow
  <2> QED BY <2>1, <2>2
<1>11. ASSUME KeyIconify
       PROVE  Step
  <2>1. Front \in Toplevel /\ Live(Front)
    <3>1. Len(toplevels) # 0
      BY <1>11, ListFacts, EmptySeq DEF KeyIconify
    <3> QED BY <3>1, ListFacts DEF Front
  <2> QED BY <1>4, <1>11, <2>1 DEF KeyIconify
<1>12. ASSUME NEW t \in Toplevel, NEW mode,
              \/ NewToplevel(t) \/ AckConfigure(t) \/ DestroyToplevel(t)
              \/ BeginInteractive(t, mode)
       PROVE  Step
  BY <1>12 DEF NewToplevel, AckConfigure, DestroyToplevel, BeginInteractive
<1>13. ASSUME NEW l \in LayerSurface, NEW ly, NEW interactive,
              NewLayerSurface(l, ly, interactive) \/ DestroyLayer(l)
       PROVE  Step
  BY <1>13 DEF NewLayerSurface, DestroyLayer
<1>14. ASSUME NEW k \in Keyboard,
              NewKeyboard(k) \/ DestroyKeyboard(k) \/ KeyboardEvent(k)
       PROVE  Step
  BY <1>14 DEF NewKeyboard, DestroyKeyboard, KeyboardEvent
<1>15. ASSUME \/ KeyOnEmptyList \/ CursorMotion \/ ButtonRelease
              \/ \E l \in LayerSurface : ButtonPressLayer(l)
              \/ UNCHANGED vars
       PROVE  Step
  BY <1>15 DEF KeyOnEmptyList, CursorMotion, ButtonRelease, ButtonPressLayer, vars
<1> QED
  BY <1>2, <1>3, <1>4, <1>5, <1>6, <1>7, <1>8, <1>9, <1>10, <1>11, <1>12,
     <1>13, <1>14, <1>15
  DEF Next, RequestMinimize

\* While a layer surface holds the keyboard exclusively, whatever happens, the
\* keyboard does not move to a window.
THEOREM ExclusiveLayer == Spec => ExclusiveLayerKeepsKeyboard
<1>1. ListInv /\ [Next]_vars =>
        [focusedLayer # None /\ focusedLayer' # None /\ kbFocus' # kbFocus
           => kbFocus' \notin Toplevel]_vars
  <2> SUFFICES ASSUME ListInv, [Next]_vars,
                      focusedLayer # None, focusedLayer' # None,
                      kbFocus' # kbFocus
               PROVE  kbFocus' \notin Toplevel
    OBVIOUS
  <2>1. Abstract!Next
    BY KeyboardStep
  <2> QED
    BY <2>1, SurfacesDistinct
    DEF Abstract!Next, Abstract!EnterWindow, Abstract!EnterLayer,
        Abstract!Hold, Abstract!Release, Abstract!Leave
<1>2. Spec => []ListInv
  BY TypeCorrect, PTL DEF ListInv
<1> QED BY <1>1, <1>2, PTL DEF Spec, ExclusiveLayerKeepsKeyboard

\* Whatever malloc() left in focused_layer, Desktop implements KeyboardFocus: every
\* callback gives the keyboard, takes it or lets it be as that allows.
THEOREM Implements == Spec => ImplementsKeyboardFocus
<1>1. Init => Abstract!Init
  BY DEF Init, Abstract!Init
<1>2. ListInv /\ [Next]_vars => [Abstract!Next]_<<kbFocus, focusedLayer>>
  BY KeyboardStep
<1>3. Spec => []ListInv
  BY TypeCorrect, PTL DEF ListInv
<1> QED
  BY <1>1, <1>2, <1>3, PTL DEF Spec, ImplementsKeyboardFocus, Abstract!Spec

----------------------------------------------------------------------------
\* Every step keeps windows from the keyboard while a layer surface holds it.
LEMMA LayerExcludesStep ==
  ListInv /\ FocusInv /\ [Next]_vars => LayerExcludesWindows'
<1> SUFFICES ASSUME ListInv, FocusInv, [Next]_vars,
                    focusedLayer' # None, ~missed', kbFocus' \in Toplevel
             PROVE  FALSE
  BY DEF LayerExcludesWindows
<1> USE DEF windowVars, layerVars, focusVars, seatVars, grabVars
<1>0. focusedLayer # None /\ ~missed => kbFocus \notin Toplevel
  BY DEF FocusInv, LayerExcludesWindows
<1>1. kbFocus' = kbFocus
  <2>1. [Abstract!Next]_<<kbFocus, focusedLayer>>
    BY KeyboardStep
  <2> QED
    BY <2>1, SurfacesDistinct
    DEF Abstract!Next, Abstract!EnterWindow, Abstract!EnterLayer,
        Abstract!Hold, Abstract!Release, Abstract!Leave
<1>2. CASE focusedLayer' = focusedLayer
  <2>1. ASSUME NEW s, SeatFocusSurface(s), missed
        PROVE  kbFocus' = s
    BY <2>1 DEF SeatFocusSurface
  <2>2. missed
    BY <1>0, <1>1, <1>2
  <2>3. ASSUME NEW t, Activate(t, focusedLayer)
        PROVE  FALSE
    BY <1>2, <2>2, <2>3 DEF Activate, FocusRefused
  <2>4. missed' # missed
    BY <2>2
  <2>5. ASSUME NEW l \in LayerSurface, SeatFocusSurface(l)
        PROVE  FALSE
    BY <2>1, <2>2, <2>5, SurfacesDistinct
  <2>6. ASSUME NEW l \in LayerSurface, UnmapLayer(l)
        PROVE  FALSE
    <3>1. FocusedLayerWithout(l) = focusedLayer
      BY <1>2, <2>6 DEF UnmapLayer
    <3> QED
      BY <2>3, <2>4, <2>6, <3>1 DEF UnmapLayer, FocusToplevel, KeepFocus
  <2>7. ASSUME NEW t, Minimize(t)
        PROVE  FALSE
    BY <2>3, <2>4, <2>7 DEF Minimize, FocusToplevel, KeepFocus
  <2>8. ASSUME NEW t, UnmapToplevel(t)
        PROVE  FALSE
    BY <2>3, <2>4, <2>8 DEF UnmapToplevel, FocusToplevel, KeepFocus
  <2>9. ASSUME NEW l \in LayerSurface, NEW ly, NEW interactive,
               CommitLayer(l, ly, interactive) \/ MapLayer(l)
        PROVE  FALSE
    BY <2>4, <2>5, <2>9 DEF CommitLayer, MapLayer, SeatSetFocusLayer
  <2>10. ASSUME \/ KeyNextWindow \/ KeyPreviousWindow
                \/ \E t \in Toplevel : MapToplevel(t) \/ ButtonPress(t)
         PROVE  FALSE
    BY <2>3, <2>4, <2>10
    DEF KeyNextWindow, KeyPreviousWindow, MapToplevel, ButtonPress, FocusToplevel
  <2> QED
    BY <2>4, <2>6, <2>7, <2>8, <2>9, <2>10
    DEF Next, NewToplevel, AckConfigure, DestroyToplevel, RequestMinimize,
        BeginInteractive, NewLayerSurface, DestroyLayer, DestroySurface,
        NewKeyboard, DestroyKeyboard, KeyboardEvent, KeyIconify,
        KeyOnEmptyList, CursorMotion, ButtonRelease, ButtonPressLayer, vars
<1>3. CASE focusedLayer' # focusedLayer
  <2>1. PICK l \in LayerSurface : MapLayer(l) /\ SeatSetFocusLayer(l)
    BY <1>3
    DEF Next, NewToplevel, AckConfigure, MapToplevel, UnmapToplevel,
        DestroyToplevel, RequestMinimize, Minimize, BeginInteractive,
        ButtonPress, NewLayerSurface, CommitLayer, MapLayer, UnmapLayer,
        DestroyLayer, DestroySurface, NewKeyboard, DestroyKeyboard,
        KeyboardEvent, KeyNextWindow, KeyPreviousWindow, KeyIconify,
        KeyOnEmptyList, CursorMotion, ButtonRelease, ButtonPressLayer,
        FocusedLayerWithout, vars
  <2>2. kbFocus' = l \/ missed'
    BY <2>1 DEF SeatSetFocusLayer, SeatFocusSurface
  <2> QED BY <2>1, <2>2, SurfacesDistinct
<1> QED BY <1>2, <1>3

\* Every step keeps seat->focused_layer a mapped layer surface.
LEMMA FocusedLayerStep ==
  ListInv /\ FocusInv /\ [Next]_vars => FocusedLayerMapped'
<1> SUFFICES ASSUME ListInv, FocusInv, [Next]_vars,
                    focusedLayer' \in LayerSurface
             PROVE  layer'[focusedLayer'].stage = "mapped"
  BY DEF FocusedLayerMapped
<1> USE DEF windowVars, layerVars, focusVars, seatVars, grabVars
<1>0. focusedLayer \in LayerSurface => layer[focusedLayer].stage = "mapped"
  BY DEF FocusInv, FocusedLayerMapped
<1>t. layer \in [LayerSurface -> [stage : LayerStage, layer : BACKGROUND .. OVERLAY,
                                  interactive : BOOLEAN]]
  BY DEF ListInv, TypeOK
<1>1. ASSUME NEW l \in LayerSurface, NEW ly, NEW interactive,
             \/ NewLayerSurface(l, ly, interactive)
             \/ CommitLayer(l, ly, interactive)
             \/ DestroyLayer(l)
      PROVE  layer'[focusedLayer'].stage = "mapped"
  BY <1>0, <1>1, <1>t DEF NewLayerSurface, CommitLayer, DestroyLayer
<1>2. ASSUME NEW l \in LayerSurface, MapLayer(l)
      PROVE  layer'[focusedLayer'].stage = "mapped"
  <2>1. focusedLayer' = focusedLayer \/ focusedLayer' = l
    BY <1>2 DEF MapLayer, SeatSetFocusLayer
  <2>2. layer' = [layer EXCEPT ![l].stage = "mapped"]
    BY <1>2 DEF MapLayer
  <2> QED BY <1>0, <1>t, <2>1, <2>2
<1>3. ASSUME NEW l \in LayerSurface, UnmapLayer(l)
      PROVE  layer'[focusedLayer'].stage = "mapped"
  <2>1. focusedLayer' = focusedLayer /\ focusedLayer # l
    BY <1>3, SurfacesDistinct DEF UnmapLayer, FocusedLayerWithout
  <2>2. layer' = [layer EXCEPT ![l].stage = "unmapped"]
    BY <1>3 DEF UnmapLayer
  <2> QED BY <1>0, <1>t, <2>1, <2>2
<1>4. CASE UNCHANGED layerVars
  BY <1>0, <1>4
<1> QED
  BY <1>1, <1>2, <1>3, <1>4
  DEF Next, NewToplevel, AckConfigure, MapToplevel, UnmapToplevel,
      DestroyToplevel, RequestMinimize, Minimize, BeginInteractive,
      ButtonPress, DestroySurface, NewKeyboard, DestroyKeyboard,
      KeyboardEvent, KeyNextWindow, KeyPreviousWindow, KeyIconify,
      KeyOnEmptyList, CursorMotion, ButtonRelease, ButtonPressLayer, vars

\* The window that has the keyboard comes before every mapped window in the
\* list, no window has it while a layer surface holds it, and that layer surface
\* is mapped: in every reachable state.
THEOREM FocusCorrect ==
  Spec => [](FrontIsFocused /\ LayerExcludesWindows /\ FocusedLayerMapped)
<1>1. Init => FocusInv
  BY SurfacesDistinct, InitialFocusedLayerAssumption
  DEF Init, FocusInv, FrontIsFocused, LayerExcludesWindows, FocusedLayerMapped
<1>2. ListInv /\ ListInv' /\ FocusInv /\ [Next]_vars => FocusInv'
  BY FrontStep, LayerExcludesStep, FocusedLayerStep DEF FocusInv
<1>3. Spec => []ListInv
  BY TypeCorrect, PTL DEF ListInv
<1>4. FocusInv => FrontIsFocused /\ LayerExcludesWindows /\ FocusedLayerMapped
  BY DEF FocusInv
<1> QED BY <1>1, <1>2, <1>3, <1>4, PTL DEF Spec
----------------------------------------------------------------------------
\* Every step keeps the grab on a window that can be moved.
LEMMA GrabStep ==
  ListInv /\ GrabTracksWindow /\ [Next]_vars => GrabTracksWindow'
<1> SUFFICES ASSUME ListInv, GrabTracksWindow, [Next]_vars
             PROVE  GrabTracksWindow'
  OBVIOUS
<1> USE SurfacesDistinct
        DEF GrabTracksWindow, windowVars, layerVars, focusVars, seatVars, grabVars
<1>t. stage \in [Toplevel -> ToplevelStage]
  BY DEF ListInv, TypeOK
<1>1. ASSUME NEW t \in Toplevel, NewToplevel(t) \/ AckConfigure(t) \/ MapToplevel(t)
      PROVE  GrabTracksWindow'
  BY <1>1, <1>t DEF NewToplevel, AckConfigure, MapToplevel, Live
<1>2. ASSUME NEW t \in Toplevel, UnmapToplevel(t) \/ DestroyToplevel(t)
      PROVE  GrabTracksWindow'
  BY <1>2, <1>t DEF UnmapToplevel, DestroyToplevel, ResetCursorMode
<1>3. ASSUME NEW t \in Toplevel, NEW mode \in {"move", "resize"},
             BeginInteractive(t, mode)
      PROVE  GrabTracksWindow'
  BY <1>3 DEF BeginInteractive
<1>4. CASE ButtonRelease
  BY <1>4 DEF ButtonRelease, ResetCursorMode
<1>5. CASE UNCHANGED <<stage, grabVars>>
  BY <1>5
<1> QED
  BY <1>1, <1>2, <1>3, <1>4, <1>5
  DEF Next, RequestMinimize, Minimize, ButtonPress, NewLayerSurface,
      CommitLayer, MapLayer, UnmapLayer, DestroyLayer, DestroySurface,
      NewKeyboard, DestroyKeyboard, KeyboardEvent, KeyNextWindow,
      KeyPreviousWindow, KeyIconify, KeyOnEmptyList, CursorMotion,
      ButtonPressLayer, vars

\* No order of maps, unmaps, requests and clicks leaves the cursor in a grab of a
\* window that is no longer configured.
THEOREM GrabCorrect == Spec => []GrabTracksWindow
<1>1. Init => GrabTracksWindow
  BY SurfacesDistinct DEF Init, GrabTracksWindow
<1>2. Spec => []ListInv
  BY TypeCorrect, PTL DEF ListInv
<1> QED BY <1>1, <1>2, GrabStep, PTL DEF Spec

----------------------------------------------------------------------------
\* A window that maps when no layer surface is mapped gets the keyboard, whatever
\* layer surfaces did before: it is kept off at most by what malloc() left in
\* focused_layer.
THEOREM NewWindowCorrect == Spec => NewWindowGetsKeyboard
<1>1. ASSUME ListInv, FocusedLayerMapped, [Next]_vars,
             NEW t \in Toplevel, MapsAlone(t), focusedLayer # Dangling
      PROVE  kbFocus' = t
  <2>1. focusedLayer = None
    BY <1>1 DEF FocusedLayerMapped, MapsAlone, ListInv, TypeOK
  <2>2. stage \in [Toplevel -> ToplevelStage]
    BY <1>1 DEF ListInv, TypeOK
  <2>3. MapToplevel(t)
    BY <1>1, <2>2
    DEF MapsAlone, Mapped, Next, NewToplevel, AckConfigure, MapToplevel,
        UnmapToplevel, DestroyToplevel, RequestMinimize, Minimize,
        BeginInteractive, ButtonPress, NewLayerSurface, CommitLayer, MapLayer,
        UnmapLayer, DestroyLayer, DestroySurface, NewKeyboard, DestroyKeyboard,
        KeyboardEvent, KeyNextWindow, KeyPreviousWindow, KeyIconify,
        KeyOnEmptyList, CursorMotion, ButtonRelease, ButtonPressLayer, vars,
        windowVars
  <2>4. Activate(t, None)
    BY <2>1, <2>3 DEF MapToplevel, FocusToplevel
  <2> QED
    BY <1>1, <2>4
    DEF MapsAlone, Activate, FocusRefused, SeatFocusSurface, focusVars
<1>2. ListInv /\ FocusedLayerMapped /\ [Next]_vars
      => [\A t \in Toplevel :
            MapsAlone(t) /\ focusedLayer # Dangling => kbFocus' = t]_vars
  BY <1>1
<1>3. Spec => []ListInv /\ []FocusedLayerMapped
  BY TypeCorrect, FocusCorrect, PTL DEF ListInv
<1> QED BY <1>2, <1>3, PTL DEF Spec, NewWindowGetsKeyboard
=============================================================================
