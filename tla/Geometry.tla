------------------------------- MODULE Geometry -------------------------------
(***************************************************************************)
(* Where a window is and how large it is asked to be: the callbacks of     *)
(* xdg_shell.c that place, fullscreen, maximize and minimize a toplevel,   *)
(* the key bindings that shade it, and the interactive move and resize of  *)
(* cursor.c.                                                               *)
(*                                                                         *)
(* The code does the same to both axes, so a rectangle is a function from  *)
(* axes to intervals.  Pixels are integers; the cursor and the grab offset *)
(* are doubles and are counted in fractions of a pixel, 1 / Unit each.     *)
(* There is one output, at (0, 0), and one toplevel.  A negative size is   *)
(* not sent to the client: wlroots asserts that there is none, and stops.  *)
(***************************************************************************)
EXTENDS Integers

CONSTANTS
  Axis,       \* {"x", "y"} or one of them
  Unit,       \* fractions of a pixel the cursor can tell apart
  Output,     \* size of the output along each axis
  Margins,    \* the margins that rc.xml may hold
  Cursor,     \* where the cursor may be
  Position,   \* bound: where a window may be dragged to
  Inset,      \* offsets of a client's window geometry in its surface
  Extent,     \* sizes a client may give itself
  Edges,      \* bound: the edges along an axis that a resize may drag
  Requests    \* bound: the requests that are made

ASSUME AxisAssumption == Axis \subseteq {"x", "y"}
ASSUME UnitAssumption == Unit \in Nat \ {0}
ASSUME OutputAssumption == Output \in [Axis -> Nat]
ASSUME MarginsAssumption == Margins \subseteq [Axis -> [low : Int, high : Int]]
ASSUME RangesAssumption ==
  /\ Cursor \subseteq Int
  /\ Position \subseteq Int
  /\ Inset \subseteq Int
  /\ Extent \subseteq Nat \ {0}
  /\ Edges \subseteq {"none", "low", "high"}

VARIABLES
  stage,      \* of the xdg_surface
  geometry,   \* wb_toplevel.geometry
  previous,   \* wb_toplevel.previous_geometry
  minimized,  \* xdg_toplevel.requested.minimized
  box,        \* xdg_surface.geometry, as the client last committed it
  requested,  \* the size last asked of the client
  scheduled,  \* the states last asked of the client
  current,    \* the states the client last acknowledged
  margin,     \* wb_config.margins
  frame,      \* wb_output.geometry, which output_frame_notify() fills in
  cursor,     \* wlr_cursor.x and .y
  mode,       \* wb_cursor.cursor_mode
  grab,       \* wb_server.grab_x and .grab_y
  grabBox,    \* wb_server.grab_geo_box
  edges,      \* wb_server.resize_edges
  from,       \* ghost: where the cursor was when the grab began
  stopped     \* a failed assertion of wlroots ended the process

sizeVars   == <<requested, stopped>>
placeVars  == <<geometry, previous>>
clientVars == <<stage, box, current>>
askedVars  == <<sizeVars, scheduled, minimized>>
grabVars   == <<mode, grab, grabBox, edges, from>>
outVars    == <<margin, frame>>
vars == <<placeVars, clientVars, askedVars, grabVars, outVars, cursor>>

TITLEBAR_HEIGHT == 8

Interval == [pos : Int, len : Nat]
ClientBox == [Axis -> [pos : Inset, len : Extent]]
States == [fullscreen : BOOLEAN, maximized : BOOLEAN]
Zero == [a \in Axis |-> [pos |-> 0, len |-> 0]]

----------------------------------------------------------------------------
\* Arithmetic.

AtMost(m, n) == IF m < n THEN m ELSE n
AtLeast(m, n) == IF m < n THEN n ELSE m

\* A double of n fractions of a pixel, converted to int: towards zero.
Trunc(n) == IF n >= 0 THEN n \div Unit ELSE -((-n) \div Unit)

\* Mutant: each margin is taken off both sides.
UsableMarginsTwice(a) == Output[a] - 2 * (margin[a].low + margin[a].high)

\* get_usable_area(), less the margins.
Usable(a) == Output[a] - margin[a].low - margin[a].high

\* The far end of an interval, and the interval moved to another start.
High(i) == i.pos + i.len
At(i, p) == [pos |-> p, len |-> i.len]

\* Mutant: the offset is taken from the left or top edge in all cases.
GrabbedEdgeLow(i, e) == i.pos

\* The edge that begin_interactive() takes the offset of the cursor from.
GrabbedEdge(i, e) == IF e = "high" THEN High(i) ELSE i.pos

\* Mutant: the dragged edge may meet the opposite one.
DraggedLowMeeting(high, at) == IF at > high THEN high ELSE at

\* process_cursor_resize(): the left or top edge, dragged to `at`.
DraggedLow(high, at) == IF at >= high THEN high - 1 ELSE at

\* The same for the right or bottom edge.
DraggedHigh(low, at) == IF at <= low THEN low + 1 ELSE at

\* Mutant: the height is turned around, instead of the position.
AboveOutputFlipped(a) ==
  IF a = "y" THEN [geometry[a] EXCEPT !.len = -geometry[a].len] ELSE geometry[a]

\* xdg_toplevel_request_minimize(): the window just above the output.
AboveOutput(a) ==
  IF a = "y" THEN At(geometry[a], -geometry[a].len) ELSE geometry[a]

\* wlr_xdg_toplevel_set_size(): a negative size fails its assertion.
SetSize(size) ==
  /\ requested' = size
  /\ stopped' = \E a \in Axis : size[a] < 0

Running == ~stopped

\* The edges process_cursor_resize() asks for along axis a, cursor at c.
NewLow(a, c) ==
  IF edges[a] = "low" THEN DraggedLow(High(grabBox[a]), Trunc(c - grab[a]))
  ELSE grabBox[a].pos

NewHigh(a, c) ==
  IF edges[a] = "high" THEN DraggedHigh(grabBox[a].pos, Trunc(c - grab[a]))
  ELSE High(grabBox[a])

----------------------------------------------------------------------------
Init ==
  /\ stage = "created"
  /\ geometry = Zero
  /\ previous = Zero
  /\ minimized = FALSE
  /\ box = Zero
  /\ requested = [a \in Axis |-> 0]
  /\ scheduled = [fullscreen |-> FALSE, maximized |-> FALSE]
  /\ current = scheduled
  /\ margin \in Margins
  /\ frame = [a \in Axis |-> 0]
  /\ cursor \in [Axis -> Cursor]
  /\ mode = "passthrough"
  /\ grab = [a \in Axis |-> 0]
  /\ grabBox = Zero
  /\ edges = [a \in Axis |-> "none"]
  /\ from = cursor
  /\ stopped = FALSE

----------------------------------------------------------------------------
\* The life of the surface.

\* xdg_toplevel_commit(), the initial one: the client may choose its size.
InitialCommit ==
  /\ Running
  /\ stage = "created"
  /\ stage' = "configured"
  /\ SetSize([a \in Axis |-> 0])
  /\ UNCHANGED <<placeVars, box, current, scheduled, minimized, grabVars,
                 outVars, cursor>>

\* xdg_toplevel_map(), by a commit that gave the client's box.
Map(b) ==
  /\ Running
  /\ stage = "configured"
  /\ stage' = "mapped"
  /\ box' = b
  /\ geometry' = [a \in Axis |-> [pos |-> margin[a].low,
                                  len |-> AtMost(b[a].len, Usable(a))]]
  /\ SetSize([a \in Axis |-> geometry'[a].len])
  /\ UNCHANGED <<previous, current, scheduled, minimized, grabVars, outVars,
                 cursor>>

\* A later commit: the client acknowledges what it was asked, or not yet, and
\* has the box it likes.
Commit(b) ==
  /\ Running
  /\ stage = "mapped"
  /\ box' = b
  /\ \E f \in {current.fullscreen, scheduled.fullscreen},
        m \in {current.maximized, scheduled.maximized} :
       current' = [fullscreen |-> f, maximized |-> m]
  /\ UNCHANGED <<stage, placeVars, askedVars, grabVars, outVars, cursor>>

\* xdg_toplevel_unmap(): wlroots resets its own state, waybox keeps both boxes.
Unmap ==
  /\ Running
  /\ stage = "mapped"
  /\ stage' = "created"
  /\ mode' = "passthrough"
  /\ box' = Zero
  /\ minimized' = FALSE
  /\ scheduled' = [fullscreen |-> FALSE, maximized |-> FALSE]
  /\ current' = scheduled'
  /\ UNCHANGED <<placeVars, sizeVars, grab, grabBox, edges, from, outVars, cursor>>

----------------------------------------------------------------------------
\* Requests of the client and key bindings.

\* xdg_toplevel_request_fullscreen() turns the acknowledged state around.
RequestFullscreen ==
  /\ Running
  /\ "fullscreen" \in Requests
  /\ IF current.fullscreen
     THEN geometry' = previous /\ UNCHANGED previous
     ELSE /\ previous' = geometry
          /\ geometry' = [a \in Axis |-> [pos |-> 0, len |-> frame[a]]]
  /\ SetSize([a \in Axis |-> geometry'[a].len])
  /\ scheduled' = [scheduled EXCEPT !.fullscreen = ~current.fullscreen]
  /\ UNCHANGED <<clientVars, minimized, grabVars, outVars, cursor>>

\* xdg_toplevel_request_maximize() moves the window, and leaves its size in
\* geometry as it was.
RequestMaximize ==
  /\ Running
  /\ "maximize" \in Requests
  /\ IF current.maximized
     THEN /\ geometry' = [a \in Axis |-> At(geometry[a], previous[a].pos)]
          /\ SetSize([a \in Axis |-> previous[a].len])
          /\ UNCHANGED previous
     ELSE /\ previous' = geometry
          /\ geometry' = [a \in Axis |-> At(geometry[a], margin[a].low)]
          /\ SetSize([a \in Axis |-> Usable(a)])
  /\ scheduled' = [scheduled EXCEPT !.maximized = ~current.maximized]
  /\ UNCHANGED <<clientVars, minimized, grabVars, outVars, cursor>>

\* xdg_toplevel_request_minimize(), by the client or by ACTION_ICONIFY: the
\* window goes above the output.
RequestMinimize ==
  /\ Running
  /\ "minimize" \in Requests
  /\ minimized' = TRUE
  /\ previous' = geometry
  /\ geometry' = [a \in Axis |-> AboveOutput(a)]
  /\ UNCHANGED <<clientVars, sizeVars, scheduled, grabVars, outVars, cursor>>

\* deiconify_toplevel(), when a key binding cycles to the window.
Deiconify ==
  /\ Running
  /\ minimized
  /\ minimized' = FALSE
  /\ geometry' = previous
  /\ UNCHANGED <<previous, clientVars, sizeVars, scheduled, grabVars, outVars,
                 cursor>>

\* handle_keybinding(), ACTION_SHADE
Shade ==
  /\ Running
  /\ "shade" \in Requests
  /\ stage = "mapped"
  /\ previous' = geometry
  /\ SetSize([a \in Axis |->
       IF a = "y" THEN AtLeast(box[a].pos - geometry[a].pos, TITLEBAR_HEIGHT)
       ELSE geometry[a].len])
  /\ UNCHANGED <<geometry, clientVars, scheduled, minimized, grabVars, outVars,
                 cursor>>

\* handle_keybinding(), ACTION_UNSHADE
Unshade ==
  /\ Running
  /\ stage = "mapped"
  /\ \A a \in Axis : previous[a].len > 0
  /\ SetSize([a \in Axis |-> previous[a].len])
  /\ UNCHANGED <<placeVars, clientVars, scheduled, minimized, grabVars, outVars,
                 cursor>>

----------------------------------------------------------------------------
\* Interactive move and resize.

\* begin_interactive() in WB_CURSOR_MOVE
BeginMove ==
  /\ Running
  /\ stage # "created"
  /\ mode' = "move"
  /\ grab' = [a \in Axis |-> cursor[a] - Unit * geometry[a].pos]
  /\ from' = cursor
  /\ UNCHANGED <<placeVars, clientVars, askedVars, grabBox, edges, outVars,
                 cursor>>

\* begin_interactive() in WB_CURSOR_RESIZE: the box is that of the client at
\* this moment, in layout coordinates.
BeginResize(e) ==
  /\ Running
  /\ stage # "created"
  /\ mode' = "resize"
  /\ edges' = e
  /\ grabBox' = [a \in Axis |-> At(box[a], box[a].pos + geometry[a].pos)]
  /\ grab' = [a \in Axis |-> cursor[a] - Unit * GrabbedEdge(grabBox'[a], e[a])]
  /\ from' = cursor
  /\ UNCHANGED <<placeVars, clientVars, askedVars, outVars, cursor>>

\* process_cursor_motion() with no grab
PointerMotion(c) ==
  /\ Running
  /\ mode = "passthrough"
  /\ cursor' = c
  /\ UNCHANGED <<placeVars, clientVars, askedVars, grabVars, outVars>>

\* process_cursor_move()
MoveMotion(c) ==
  /\ Running
  /\ mode = "move"
  /\ cursor' = c
  /\ geometry' = [a \in Axis |-> At(geometry[a], Trunc(c[a] - grab[a]))]
  /\ \A a \in Axis : geometry'[a].pos \in Position
  /\ UNCHANGED <<previous, clientVars, askedVars, grabVars, outVars>>

\* process_cursor_resize(): the position follows at once, the size when the
\* client acknowledges it.
ResizeMotion(c) ==
  /\ Running
  /\ mode = "resize"
  /\ cursor' = c
  /\ geometry' = [a \in Axis |-> At(geometry[a], NewLow(a, c[a]) - box[a].pos)]
  /\ \A a \in Axis : geometry'[a].pos \in Position
  /\ SetSize([a \in Axis |-> NewHigh(a, c[a]) - NewLow(a, c[a])])
  /\ UNCHANGED <<previous, clientVars, scheduled, minimized, grabVars, outVars>>

\* handle_cursor_button(), released: reset_cursor_mode()
Release ==
  /\ Running
  /\ mode' = "passthrough"
  /\ UNCHANGED <<placeVars, clientVars, askedVars, grab, grabBox, edges, from, outVars,
                 cursor>>

----------------------------------------------------------------------------
\* The rest of the desktop.

\* init_config() again: other margins, for the next window that asks.
Reconfigure ==
  /\ Running
  /\ margin' \in Margins
  /\ UNCHANGED <<placeVars, clientVars, askedVars, grabVars, frame, cursor>>

\* output_frame_notify() learns the size of the output.
OutputFrame ==
  /\ Running
  /\ frame' = Output
  /\ UNCHANGED <<placeVars, clientVars, askedVars, grabVars, margin, cursor>>

Next ==
  \/ InitialCommit \/ Unmap
  \/ \E b \in ClientBox : Map(b) \/ Commit(b)
  \/ RequestFullscreen \/ RequestMaximize \/ RequestMinimize
  \/ Deiconify \/ Shade \/ Unshade
  \/ BeginMove \/ Release
  \/ \E e \in [Axis -> Edges] : BeginResize(e)
  \/ \E c \in [Axis -> Cursor] :
       PointerMotion(c) \/ MoveMotion(c) \/ ResizeMotion(c)
  \/ Reconfigure \/ OutputFrame

Spec == Init /\ [][Next]_vars

----------------------------------------------------------------------------
\* Properties.

TypeOK ==
  /\ stage \in {"created", "configured", "mapped"}
  /\ geometry \in [Axis -> [pos : Int, len : Int]]
  /\ previous \in [Axis -> Interval]
  /\ minimized \in BOOLEAN
  /\ box \in [Axis -> Interval]
  /\ requested \in [Axis -> Int]
  /\ scheduled \in States
  /\ current \in States
  /\ margin \in Margins
  /\ frame \in [Axis -> Nat]
  /\ cursor \in [Axis -> Cursor]
  /\ mode \in {"passthrough", "move", "resize"}
  /\ grab \in [Axis -> Int]
  /\ grabBox \in [Axis -> Interval]
  /\ edges \in [Axis -> {"none", "low", "high"}]
  /\ from \in [Axis -> Cursor]
  /\ stopped \in BOOLEAN

\* Margins that do not fit on the output are the only way to a negative size, on
\* which wlroots stops the compositor: no sequence of requests, key bindings,
\* drags, late acknowledgements and reloads leads to one with margins that fit.
OnlyMarginsStop ==
  stopped => \E a \in Axis : margin[a].low + margin[a].high > Output[a]

\* While an edge is dragged, whatever the client does with its size meanwhile,
\* the opposite edge stays where it was when the grab began, and the window
\* keeps a pixel.  Along the other axis it keeps the size it had.
ResizeKeepsOppositeEdge ==
  [][mode = "resize" /\ cursor' # cursor =>
       \A a \in Axis :
         LET low == geometry'[a].pos + box[a].pos
         IN  /\ edges[a] # "low" => low = grabBox[a].pos
             /\ edges[a] # "high" => low + requested'[a] = High(grabBox[a])
             /\ edges[a] # "none" => requested'[a] >= 1]_vars

\* How far an edge is ahead of the cursor: moved in pixels, travel in fractions.
Lead(moved, travel) == Unit * moved - travel

\* The dragged edge has moved as far as the cursor has since the grab began, to
\* less than a pixel, unless the opposite edge holds it back: the offset that
\* begin_interactive() keeps is the one process_cursor_resize() takes off.
DraggedEdgeFollowsCursor ==
  [][mode = "resize" /\ cursor' # cursor =>
       \A a \in Axis :
         LET low == geometry'[a].pos + box[a].pos
             travel == cursor'[a] - from[a]
             lowLead == Lead(low - grabBox[a].pos, travel)
             highLead == Lead((low + requested'[a]) - High(grabBox[a]), travel)
         IN  /\ edges[a] = "low" =>
                  lowLead < Unit /\ (requested'[a] = 1 \/ -Unit < lowLead)
             /\ edges[a] = "high" =>
                  -Unit < highLead /\ (requested'[a] = 1 \/ highLead < Unit)]_vars

\* rc.xml: "You can reserve a portion of your screen where windows will not cover
\* when they are maximized, or when they are initially placed".
MaximizedKeepsMargins ==
  /\ scheduled = [fullscreen |-> FALSE, maximized |-> TRUE]
  /\ current = scheduled
  /\ frame = Output
  => \A a \in Axis :
       /\ geometry[a].pos >= margin[a].low
       /\ geometry[a].pos + requested[a] <= Output[a] - margin[a].high
=============================================================================
