# A verification development for waybox

waybox is a stacking Wayland compositor in the manner of Openbox, about 2,700
lines of C over wlroots. It has one thread. libwayland's event loop calls one
handler at a time; the handlers change a few lists and pointers that all of them
share, and what makes the program hard is the order in which clients, devices,
wlroots and signals make those calls. This directory holds TLA+ models of that
shared state, the TLC configurations that check them on small instances, and
proofs, checked by TLAPS, of what holds on every instance.

Paths below are relative to the repository. A line `seat.c:402` is in `waybox/`.

## 1. The system

### Components

| component | files | state it keeps | operations that change it |
|---|---|---|---|
| windows | `xdg_shell.c` | `server->toplevels` (a list, most recently focused first), per window `geometry`, `previous_geometry`, `scene_tree`, `decoration` | new, commit, map, unmap, destroy, fullscreen, maximize, minimize, move, resize, popup requests |
| seat | `seat.c` | `seat->keyboards`, `seat->focused_layer`, wlroots' focused surface and current keyboard | keyboard added, removed, modifiers, key; pointer added; selections |
| key bindings | `seat.c`, `config.c` | `config->key_bindings` | look-up and the actions of a binding |
| configuration | `config.c`, `main.c` | `server->config`: NULL, live, or freed | read at start, reload by key or signal, freed at the end |
| layer shell | `layer_shell.c` | per surface `output`, `mapped`, scene node | new, commit, map, unmap, destroy, popups |
| cursor | `cursor.c` | `cursor_mode`, `grabbed_toplevel`, `grab_x/y`, `grab_geo_box`, `resize_edges` | motion, button, axis, frame, focus change, image |
| outputs | `output.c` | `server->outputs`, per output five layer trees, `geometry`, `gamma_lut_changed` | added, removed, frame, state request, gamma, configuration |
| idle inhibition | `idle.c` | `server->inhibitors`, one listener for the destruction of all | inhibitor created, destroyed |
| decorations | `decoration.c` | one listener triple per decoration, `toplevel->decoration` | new, mode requested, destroyed |
| life of the server | `server.c`, `main.c` | every object above | create, start, run, terminate, signals |

### How they interact

* `focus_toplevel()` (`xdg_shell.c:32`) is the centre: maps, unmaps, minimises,
  clicks, window cycling and the unmap of a layer surface call it. It reads the
  layer surface that holds the keyboard (`seat->focused_layer`) and the focused
  surface, reorders the list, activates and deactivates windows, and asks the seat
  to enter the surface, which does nothing while there is no keyboard.
* The key bindings act on the first window of the list. That it is the window
  the user types into is an invariant nothing in the code states.
* `cursor.c` follows `grabbed_toplevel` until a button is released or
  `xdg_toplevel_unmap()` resets it.
* `init_config()` and `deinit_config()` are called at the start, by the action
  Reconfigure in the middle of the scan of the very list they replace, and by the
  handler of SIGUSR1 and SIGUSR2, which may run at any instruction.
* Sizes are asked of a client with `wlr_xdg_toplevel_set_size()` and come back
  with a later commit, in which the client may also have chosen another size or
  have acknowledged an earlier request only.

### What is hard

Orders of callbacks that nobody tried (a window that is destroyed without having
been mapped, a layer surface that changes its layer while it holds the keyboard,
a keyboard unplugged and plugged in again); list ends, since the ring of a
`wl_list` has one element more than the list; pointers kept across callbacks
(the grab, the focused layer, the configuration); a reload that fails after it
freed what it replaces; the signal handler; acknowledgements that come late.
Nothing is persisted, and there are no timeouts. There are no tests in the
repository.

### What makes each component correct

* Windows and seat: the list holds each live window once; the focused window is
  the first mapped one; a layer surface that holds the keyboard keeps windows
  from it and is a mapped surface; when no layer surface is there a new window
  gets the keyboard; a grab follows a window that can still be moved.
* Geometry: no client is asked for a negative size, unless the margins do not fit; a resize keeps the opposite
  edge, and the dragged edge follows the cursor, whatever the client does
  meanwhile; a maximized window keeps off the margins (it does not always).
* Key bindings: the last of several bindings wins; each key event is decided, and
  either acted upon or sent to the client (with two keysyms it may be both); a requested
  exit happens; a configuration is not used after it was freed (it sometimes is).
* Idle inhibition: the screen may blank exactly when nobody inhibits it.
* Stacking: the window with the keyboard is on top; the background stays under
  all windows (other layers do not keep their place).
* Outputs: a gamma change is looked at by a frame, a frame callback comes, and no
  callback reads an output that is not there (the last two need conditions).
* Decorations: a client that asked for a mode gets an answer, or its request waits
  with a window that will give one.
* Life of the server: nothing is destroyed with listeners in it, twice, or before
  what still needs it; nothing is left; a request to stop ends the process.

## 2. The modules

| module | what it is | models |
|---|---|---|
| `WlList` | the operators on lists | `wl_list_insert`, `wl_list_remove`, used by `Desktop` and `Stacking` |
| `KeyboardFocus` | abstract specification | what a client may count on: one focus, one exclusive holder |
| `Desktop` | the core | the list of windows, activation, seat, layer surfaces, grab |
| `Geometry` | place and size of a window, interactive move and resize | `xdg_shell.c`, `cursor.c`, the shade bindings of `seat.c` |
| `KeyBindings` | configuration, look-up of a key, reloads, end of the session | `config.c`, `seat.c:58-216`, `main.c:24-39`, the calls of `server.c` that touch the configuration |
| `IdleInhibit` | inhibitors and their one listener | `idle.c` |
| `Stacking` | the scene's order; extends `Desktop` | the raises of `xdg_shell.c` and `layer_shell.c`, fullscreen, the layer trees of `output.c` |
| `Decorations` | decoration modes; extends `Desktop` | `decoration.c`, `xdg_shell.c:160-201` |
| `Outputs` | outputs that come and go, frames and gamma, layer surfaces on outputs | `output.c`, `layer_shell.c`, `xdg_shell.c:81-96` |
| `Lifecycle` | start and end of the process; uses `IdleInhibit` | `server.c`, `main.c`, constructors and destructors |
| `MCDesktop`, `MCStacking`, `MCDecorations`, `MCGeometry`, `MCKeyBindings`, `MCOutputs` | small instances for TLC | |
| `DesktopProofs` (with the lemmas on lists), `StackingProofs`, `DecorationsProofs`, `GeometryProofs`, `KeyBindingsProofs`, `IdleInhibitProofs`, `OutputsProofs`, `LifecycleProofs` | theorems | |

### WlList and Desktop

A `wl_list` is the sequence of its elements; position `Len + 1` is its head. An
action of `Desktop` is a whole callback: the event loop does not start another
one before it returns. The variables have the names of the fields they stand
for (`toplevels`, `focusedLayer`, `seatKeyboard`, `cursorMode`, `grabbed`), and
`kbFocus` is `wlr_seat.keyboard_state.focused_surface`. `stage` is the life that
wlroots gives an xdg_surface: created, configured once its first configure is
acknowledged, mapped, and back to created when it unmaps. wlroots unmaps a mapped
surface before it destroys it, so destroy actions start from an unmapped one.

Where the C code goes wrong, the model does not repair it. A callback that reads
the list's head or freed memory as an object sets `fault` to the place, or does
not: that is the undefined behaviour, and after a fault nothing runs. One ghost
variable only observes: `missed` is true when the last surface that was given
the focus was not entered, for want of a keyboard.

Left out: popups (their grabs hold the keyboard inside wlroots), the pointer's
focus, the handle of the foreign-toplevel protocol, titles, and everything that
needs more than one output or none. A layer surface of `Desktop` has passed the
tests at the start of `handle_layer_shell_surface()`. A click over one is
`ButtonPressLayer`: `get_toplevel_at()` takes the first data field up the tree for
a toplevel, and there it is a scene descriptor.

### KeyboardFocus

Five steps: a window is given the keyboard, only while nobody holds it; a layer
surface is given it; a layer surface becomes the holder; the holder lets go; the
focused surface is destroyed. `Desktop` implements it with `focus <- kbFocus` and
`holder <- focusedLayer`. The code does not initialise `focused_layer`, so what holds the
keyboard at first is a parameter, `InitialHolder`: NULL, or the dangling pointer that
`malloc()` may leave, which keeps windows off until a layer surface takes its place. That
is all `KeyboardFocus` promises of it.

### Geometry

The code treats both axes alike, so a rectangle is a function from axes to
intervals, and TLC needs one axis only. The cursor and the grab's offset are
doubles in the code; here they count fractions of a pixel (`Unit` of them), and
`Trunc` is the conversion to int, towards zero. `scheduled` are the states last
asked of the client, `current` those it last acknowledged: a commit may
acknowledge each of them or not. `box` is what the client commits, anything in
`Inset` by `Extent`. `Position` is a bound on where windows are dragged to, for
TLC; the proofs take it to be any set of integers. Margins are the integers that
`strtoul()` makes of the file (`config.c:205-208`), not compared with the output; that a
margin may be too large for an int is left out. `SetSize` is
`wlr_xdg_toplevel_set_size()`, whose assertion a negative size fails: `stopped` says so, and
nothing runs after it.

### KeyBindings

The variable `pc` has the main thread inside `keyboard_handle_key()`, since the
signal handler may run between any two of its steps. `reloads` is the stack of
reloads in progress, each between `deinit_config()` and `init_config()`; only the
top of the stack moves, the main thread waits for an empty stack, and a signal is
blocked while its own handler runs, but not while the other's does. The contents
of a binding are its key, a sequence of names, and its set of actions. What the
actions do to windows is in the other modules. `stale` says that what is being
scanned or carried out has been freed; from then on any answer may be read. That holds of
a binding to Reconfigure too: `ActExit` is the look for Exit in the binding that the
callback itself has freed (`seat.c:145`), the fault `freed_binding`. The ghost `acted`
numbers the keysyms of the event, from its last, for which something was done. A SIGTERM
that comes between `sigaction()` and the event loop is left out: `wl_display_run()`
begins by setting the flag that `wl_display_terminate()` cleared, so it is lost. Inside `deinit_config()` and `init_config()` each call is one step.

### IdleInhibit

`armed` is the one inhibitor whose list the listener can be taken out of. The
destruction of any other one follows links that are no longer a list: wlroots
may stop there, or not.

### Stacking

`stack` are the children of the scene's root, topmost first: a node for each
window and one for each layer's tree. (`shell_fullscreen` never holds a node and is
left out.) Each action is one of `Desktop` together with what the same callback
does to the scene, so the module is the composition of the two: `Raises` is the raise
inside `focus_toplevel()`, `RaisedOnCommit` the one at the end of
`handle_surface_commit()`. Requests to be fullscreen are added, because they raise
a window without focusing it and because a fullscreen first window makes the
commits of layer surfaces return early. The ghost `lifted` holds the windows that
were raised in that way since the last focus. Grabs are left out: they touch
neither the order nor the focus.

### Decorations

`kept` is `wb_toplevel.decoration`, named by the window whose decoration it is.
`SetMode` looks at the first window of the list, as the code does, and leaves the
decoration with it; `InitialCommit` asks again for what the window keeps, or reads
freed memory. The window list comes from `Desktop`, whose other callbacks are
`OffDecorations`. The ghost `lost` holds requests that were handed to a window and
overwritten there, or destroyed with it, before it committed: nobody answers
those.

### Outputs

`home` is `wb_layer_surface.output`; `Freed` is the address of an output that was
unplugged. Every return of `output_frame_notify()` is a disjunct of `Frame`:
committed, no state or no table, test failed. (With a table that is applied and tests well
the state built for it is freed again, `output.c:34-38`, and the commit shows another
one: that the change is looked at does not say that it is applied.) `scheduled` is what the backend is
going to raise; whether wlroots schedules another frame by itself after a commit is
left open. The state into which a changed gamma table is built is not initialised
(`output.c:19`), the fault `pending_state`. A test of an output configuration
meets a listener without a callback (`output.c:170`), which ends the process; so
does a popup of a layer surface's popup, whose parent has no scene tree in its user data
(`xdg_shell.c:404`). Windows are here a flag and the callbacks that
ask the layout for an output: `shown`, since an output that could not be enabled is in
`server->outputs` but not in the layout (`output.c:146-150`). The first commit
(`output.c:113`) is taken to succeed, so that an output in the layout has a size. The
ghosts are `refused`, the outputs whose last frame ended without a commit, and `steady`:
windows always had an output in the layout, and no output was unplugged that a layer
surface or a gamma control was using (`InUse`).

### Lifecycle

The program is data: `Terminate`, `StartServer` and the rest are sequences of steps
(make, try, link, unlink, destroy), written in the order of the code, and `todo` is
what is left. An interpreter of six actions takes them one by one and knows
wlroots' rule, that an object is destroyed with no listener linked in it, and what the
callbacks need that a destruction sets off. A step that may fail is `try`,
`OpenSocket` or `StartBackend`. While the server runs, windows and devices come and go, and inhibitors as in `IdleInhibit`, of which the module has an instance that
it implements: clients that are destroyed at the end take their inhibitors with them one
by one. `Left` counts what is still to be done once the server was told to stop: steps,
windows and inhibitors.

## 3. What TLC checks

`tlc -workers 2 -config <run>.cfg <module>.tla`; all times are on two cores of a busy machine.

| run | instance | states | what it shows |
|---|---|---|---|
| `desktop_windows` | 3 windows, 2 keyboards | 68 thousand, 5 s | the list tracks the windows, the first mapped one is the focused one, the grab follows a window that can be moved |
| `desktop` | 2 windows, 2 layer surfaces, 1 keyboard, `focused_layer` NULL or dangling at first | 2.2 million, 2 to 3 min | windows and layer surfaces together; implements `KeyboardFocus` |
| `stacking` | 2 windows, 1 layer surface on background or overlay, all four layers, 1 keyboard, `focused_layer` as before | 450 thousand, 1 to 2 min | one node each; the window with the keyboard is on top; the background is under every window |
| `decorations` | 2 windows, 1 layer surface, 1 keyboard, `focused_layer` as before | 240 thousand, 30 s | a request for a mode is answered or waits; a decoration goes with its window |
| `geometry_requests` | all requests, margins that a reload changes, fit, do not fit or are negative | 600 thousand, 30 s | a negative size comes only of margins that do not fit |
| `geometry_drag` | moves and resizes by every edge, half pixels | 730 thousand, 40 s | the opposite edge stays, the dragged edge follows |
| `idle_inhibit` | 5 inhibitors | 141 | blanking is inhibited exactly while asked for |
| `key_bindings` | 2 files or none, 5 key events, one of two keysyms, 2 signals | 700 thousand, 2 min | the configuration's safety; a key's last keysym decides whether the client gets it; each step brings it closer to its end; liveness |
| `outputs` | 2 outputs, 1 layer surface | 230 thousand, 1 min | gamma changes meet a frame, a client that waits has one on its way, frame callbacks come, no output is missed but after one in use was unplugged, or a window was without |
| `lifecycle` | the whole program, 3 inhibitors | 1245 | the end is in order, complete, comes closer with each step, and comes |

### Why the bounds are enough

* Three windows are the least for which "next", "first" and "last" of the list
  are different windows; a second keyboard is needed for the seat to have another
  one when the current one goes. Windows, layer surfaces and keyboards are
  symmetric; neither run checks liveness.
* Two layer surfaces are the least for one to take the keyboard from another.
* One pixel of margin on each side of an output of two leaves nothing, the boundary at
  which the size becomes negative; one pixel more is beyond it. Half pixels show truncation on both sides of
  zero; windows one and two pixels long meet the clamp of a resize.
* One of the keys has two keysyms, so that what is done for the first can differ from
  what is done for the last. The two files have a key bound twice, a binding that only reloads and one
  that reloads among other actions; the file may change at any moment and be
  unreadable at any moment. Two signals nest as deeply as signals can.
* In `stacking` a single layer surface passes between the lowest and the highest
  layer by its own commits; all four layers are in the stack. Windows that are two
  show every "above". `decorations` has two windows: one that keeps the decoration of the
  other. Both runs have the state constraint `FollowedUp`: a process that met a fault,
  or that has windows and no keyboard, is not followed further. What happens without a
  keyboard is in `desktop_windows` and `desktop`, and the theorems have no
  constraint.
* Two outputs tell apart what one does and what becomes of the other; layer surfaces do
  not see each other in `Outputs`.
* Three inhibitors are one more than can be destroyed out of order; all else in
  `Lifecycle` is a fixed program.
* What is proved (below) does not depend on these bounds.

`CHECK_DEADLOCK FALSE` stands in every configuration: after a fault, when the
session is closed or `main()` returned, the system does stop.

### Fairness

Three modules claim that something happens.

In `KeyBindings`, `FairSpec` takes the steps
of a signal handler weakly fair: nothing in it waits. The steps of a callback are
taken strongly fair, because a handler that interrupts disables them: this says
that signals do not come so fast that the main thread never runs between them.
`KeyIsDecided` and `RequestedExitHappens` excuse themselves once undefined
behaviour has been met or a reload disturbed a callback. `FaultNeedsBadReload` says when
that can be: while reloads succeed and interrupt nothing, only at the look for Exit in
a binding to Reconfigure, after everything else was done for the key.

In `Outputs`, `Frame(o)` is weakly fair for each output: the backend raises the frame
event it was asked for. `FrameCallbackComes` says that under this alone a client that
waits is told, unless the frame ended early, at `output.c:20-32`.

In `Lifecycle`, `Main` is weakly fair: a single thread goes on by itself. The action
`StopRunning` is not fair, so the server need not stop; `StopEnds` is about what comes
after.

Under each liveness property but `RequestedExitHappens` lies a safety property that needs
no fairness and is proved for every instance. `KeyComesCloser` and `EndComesCloser` are
variants: each step of a key event makes a well-founded order smaller (keysyms, then where
the callback is, then calls of its reload or bindings to be passed by), each step of the
end a natural number, so what is left to `KeyIsDecided` and `StopEnds` is that these steps
are taken. `WaiterHasFrame` says that the frame `FrameCallbackComes` waits for has been
asked for, unless the output's last one ended early.

No fairness is assumed of clients, devices, the user or the sender of signals.

### Where the code and its comments differ

Each of these runs ends in a counterexample.

| run | refutes | what happens |
|---|---|---|
| `overlay_loses_keyboard` | `layer_shell.c:159` "only if the currently focused layer has a lower precedence" | the test is `>=`, so a surface of the top layer takes the keyboard from one of the overlay layer |
| `reload_fails` | `seat.c:79` "Some default key bindings, when the rc.xml file can't be parsed." | a reload frees the configuration, cannot read the new one, and leaves the pointer |

More configurations in this directory end in counterexamples of the same kind:

| configuration | module | what it shows |
|---|---|---|
| `unmap_reads_head.cfg` | `MCDesktop` | `xdg_shell.c:137`: the last window of the list unmaps and the head of the list is read as a window |
| `layer_clicked.cfg` | `MCDesktop` | `xdg_shell.c:24` "it is the only one for which we set the data field": a click over a layer surface finds another |
| `maximized_over_margins.cfg` | `MCGeometry` | `data/rc.xml:3`: a fullscreen window is maximized, then leaves fullscreen, and lies over the margins, maximized |
| `idle_two_inhibitors.cfg` | `IdleInhibit` | `idle.c:13`: two inhibitors share one listener; destroying the older one first unlinks the wrong list |
| `two_symbol_key.cfg` | `MCKeyBindings` | `seat.c:64`: a key with two keysyms, the first of them bound, is acted upon and sent to the client too (`KeyGoesOneWay`); `LastKeysymDecides` is what holds |
| `layer_change_lost.cfg` | `MCStacking` | `layer_shell.c:112`: a layer surface changes its layer while the first window is fullscreen, and stays where it was |
| `windows_between_layers.cfg` | `MCStacking` | `layer_shell.c:138`, `xdg_shell.c:68`: windows are raised over the top layer, and the bottom layer over windows; the protocol has windows between them |
| `mode_before_commit.cfg` | `MCDecorations` | `decoration.c:19`: the mode is set on a surface that has not committed, because the first window has |
| `decoration_dangles.cfg` | `MCDecorations` | `decoration.c:21`: a window keeps a decoration that was destroyed |
| `frames_stall.cfg` | `MCOutputs` | `output.c:21`: a frame that ends early leaves the client waiting, and no other frame is asked for |
| `layer_outlives_output.cfg` | `MCOutputs` | `output.c:86`: a layer surface keeps the address of an unplugged output |
| `layer_dropped.cfg` | `MCOutputs` | `layer_shell.c:320`: a surface that leaves the choice of the output to waybox is dropped while there is no window |
| `heads_lost.cfg` | `MCOutputs` | `output.c:155`, `output.c:62`: a second output, or a state request, makes output management forget the others |
| `failed_start.cfg` | `Lifecycle` | `server.c:85`: after a failed start `wb_terminate()` unlinks what was never linked |
| `two_activated.cfg` | `MCDesktop` | `xdg_shell.c:57`: a window that lost the keyboard to a layer surface stays activated when another window is activated |
| `unmap_keeps_keyboard.cfg` | `MCDesktop` | `xdg_shell.c:137`: only the next window of the list is asked, and it may not have mapped yet |
| `keyboard_replug.cfg` | `MCDesktop` | `xdg_shell.c:74`: a window focused while there is no keyboard is not entered when one comes |
| `grab_dangles.cfg` | `MCDesktop` | a window that never mapped starts a move and is destroyed; the next motion follows it |
| `window_over_exclusive_layer.cfg` | `MCDesktop` | `protocol/wlr-layer-shell-unstable-v1.xml:230`: an exclusive surface of the top layer loses the keyboard to any window |
| `uninitialised_focused_layer.cfg` | `MCDesktop` | `seat.c:443`: `focused_layer` is read before it was ever set, and a window that is alone does not get the keyboard (`LoneWindowGetsKeyboard`); `NewWindowGetsKeyboard` excepts just that |
| `pointer_without_config.cfg` | `MCKeyBindings` | `seat.c:280`: a pointer is found while there is no configuration |
| `reconfigure_exits.cfg` | `MCKeyBindings` | `seat.c:145`: the action Exit is looked for in the binding that Reconfigure has freed |

## 4. What is proved

All for any constants that meet the named assumptions: any number of windows, layer
surfaces, keyboards, outputs and bindings, any size of an output, margins, resolution
of the cursor.

| theorem | says |
|---|---|
| `DesktopProofs!TypeCorrect` | `Spec => [](TypeOK /\ ListTracksToplevels)` |
| `DesktopProofs!FocusCorrect` | `Spec => [](FrontIsFocused /\ LayerExcludesWindows /\ FocusedLayerMapped)` |
| `DesktopProofs!ExclusiveLayer` | `Spec => ExclusiveLayerKeepsKeyboard` |
| `DesktopProofs!Implements` | `Spec => ImplementsKeyboardFocus` |
| `DesktopProofs!GrabCorrect` | `Spec => []GrabTracksWindow` |
| `DesktopProofs!NewWindowCorrect` | `Spec => NewWindowGetsKeyboard` |
| `GeometryProofs!SizesCorrect` | `Spec => [](TypeOK /\ OnlyMarginsStop)` |
| `GeometryProofs!ResizeCorrect` | `Spec => ResizeKeepsOppositeEdge` |
| `GeometryProofs!DragCorrect` | `Spec => DraggedEdgeFollowsCursor` |
| `KeyBindingsProofs!TypeCorrect` | `Spec => []TypeOK` |
| `KeyBindingsProofs!LastKeybind` | `Spec => []LastKeybindWins` |
| `KeyBindingsProofs!ReloadSafe` | `Spec => []FaultNeedsBadReload` |
| `KeyBindingsProofs!OneWay` | `Spec => LastKeysymDecides` |
| `KeyBindingsProofs!KeyCloser` | `Spec => KeyComesCloser` |
| `IdleInhibitProofs!InhibitCorrect` | `Spec => [](TypeOK /\ InhibitedWhileAsked)` |
| `StackingProofs!StackImplements` | `StackSpec => Spec`, the latter of `Desktop` |
| `StackingProofs!StackTypeCorrect` | `StackSpec => []StackTypeOK` |
| `StackingProofs!OnTopCorrect` | `StackSpec => []FocusedOnTop` |
| `StackingProofs!BackgroundCorrect` | `StackSpec => []BackgroundBeneath` |
| `DecorationsProofs!DecorTypeCorrect` | `DecorSpec => []DecorTypeOK` |
| `DecorationsProofs!RequestCorrect` | `DecorSpec => []RequestServedOrKept` |
| `DecorationsProofs!DecorFocusCorrect` | `DecorSpec => [](FrontIsFocused /\ LayerExcludesWindows /\ FocusedLayerMapped)` |
| `DecorationsProofs!DecorImplements` | `DecorSpec => ImplementsKeyboardFocus` |
| `OutputsProofs!TypeCorrect` | `Spec => []TypeOK` |
| `OutputsProofs!GammaCorrect` | `Spec => []GammaChangeHasFrame` |
| `OutputsProofs!WaiterCorrect` | `Spec => []WaiterHasFrame` |
| `OutputsProofs!SteadyCorrect` | `Spec => []SteadyOutputsAreSafe` |
| `LifecycleProofs!LifecycleTypeCorrect` | `Spec => []TypeOK` |
| `LifecycleProofs!EndsInOrder` | `Spec => []OrderlyEnd` |
| `LifecycleProofs!LeavesNothing` | `Spec => []NothingIsLeft` |
| `LifecycleProofs!ImplementsIdleInhibit` | `Spec => Idle!Spec` |
| `LifecycleProofs!EndCloser` | `Spec => EndComesCloser` |

`tlapm <module>.tla` checks a module; no step is left without a proof.

### How the proofs go

* Lists (`DesktopProofs`): linking, unlinking and moving an element gives a sequence again,
  with that element more, less, or the same ones, and none twice. The order of
  the other elements is stated as "who was before whom".
* `Desktop`. Types alone are not inductive: `NextOf` and `PosOf` give a window only
  if the window asking is in the list, once. `ListInv == TypeOK /\ ListTracksToplevels`
  is inductive, and `TypeCorrect` proves both. `FrontIsFocused` is not inductive
  either: it is kept when a layer surface goes only because that surface held
  windows off until then. `FocusInv` adds `LayerExcludesWindows` and
  `FocusedLayerMapped` to it, and `FocusCorrect` proves all three. For the
  refinement, `KeyboardStep` maps each callback to a step of `KeyboardFocus` or to
  none; most of them come down to `ActivateEnters`, what `focus_toplevel()` may do.
  `ExclusiveLayer` follows from the same steps. `GrabTracksWindow` is inductive.
  `NewWindowCorrect` needs `FocusedLayerMapped`: were no layer surface mapped and
  one still held the keyboard, `focus_toplevel()` would refuse the window. No theorem
  needs to know what `malloc()` left in `focused_layer`.
* `Geometry`. A size is asked for from the window's own box, the box saved before, or
  the output less the margins. So `SizeInv` has, besides `TypeOK` and
  `OnlyMarginsStop`, that as long as wlroots has not stopped the sizes kept and asked
  for are natural numbers (`SizesKept`): a negative one stops it before any
  request can return to it. For resizes, `GrabInv` says what the
  grab's offset is while one lasts: where the button went down less the grabbed
  edge of the box saved then, so that the place of the cursor gives the new edge.
  `TruncNear` bounds what the conversion to int loses, by less than a pixel.
* `KeyBindings`. `ScanInv` says what the scan has passed by, that no reload is
  between its two halves under a scan of live bindings, and that a scan that was
  not disturbed reads the live configuration. `ReloadInv` says where a freed configuration can be while no reload failed and no callback was disturbed.
  The one exception has a conjunct of its own: a binding that is freed, or whose reload
  goes on, when the callback looks for Exit in it is one to Reconfigure.
  `OneWayInv` ties what was done for the keysym the callback is at to what it is going to
  answer: between the match and the return something was done, and the return says so. At
  the last keysym that answer decides, however many came before. `KeyCloser` needs
  `ReloadInv` too: a scan of a freed list may read it anew without end, and the invariant
  says that this takes a callback that was disturbed.
* `IdleInhibit`. `idle_inhibitor_destroy()` counts before wlroots unlinks:
  `CountTellsWhetherOthersRemain`, of any finite set, says that this is enough.

* `Stacking`. Every step of it is a step of `Desktop` or leaves `Desktop` alone
  (`StackRefines`, `StackImplements`), so `ListInv` and `FocusInv` hold here too (`StackingDesktop`).
  `SceneStep` reduces all callbacks to four outcomes for the scene: a window is
  inserted on top, one is removed, something other than the background is raised, or
  nothing happens. The types and `BackgroundBeneath` follow from these by the order
  lemmas on lists (`MoveToFrontOrder`, `InsertFrontOrder`, `RemoveAtOrder`).
  `FocusedOnTop` needs more, what the focus does in each callback: `OnTopSettled`,
  `OnTopRaised` and `OnTopFocus` are the three ways in which a callback keeps it.
* `Decorations`. A step is one of `Desktop`, or leaves all but the fault alone
  (`DecorStep`): the initial commit may read a freed decoration, which `Desktop` knows
  nothing of, so `DecorSpec` does not imply `Spec`, and what is proved of `Desktop` is carried
  over invariant by invariant (`DecorListStep`, `DecorFocusCorrect`, `DecorImplements`). Without
  `ListInv` the first window need not exist. `DecorInv` adds to the types that only decorations that
  asked are kept, which `RequestServedOrKept` needs when a kept one is asked for again.
* `Outputs`. `TypeOK` and `GammaChangeHasFrame` are inductive. `SteadyInv` adds to
  `SteadyOutputsAreSafe` that windows find an output and that no layer surface keeps
  the address of a freed one. `WaiterHasFrame` is inductive by itself: a client begins to
  wait in a commit, which schedules a frame, and a frame that does not tell it refuses it.
* `Lifecycle`. Which objects are there does not follow from where `todo` is, because
  the program may fail half way; so the invariant has the set `D` of the steps that are
  done. `LifeInv(D)` says that `D` and the rest are together the whole life (`Life`), that
  the rest fits `D` (each step makes, links, unlinks or destroys only what it may after
  those before it: `Fits`), and that `live` and `linked` are what `D` made and linked. That
  the program as it is written fits the empty set is where a swapped order would show;
  it is shown part by part (`FitsConcat`). Three things are kept apart: a start that failed,
  after which `Inv` asks for types, phases and inhibitors only; the configuration, which
  an rc.xml that cannot be read leaves out; and inhibitors, whose part is `InhibitInv` of
  `IdleInhibitProofs`, since each step is one of `IdleInhibit` or leaves it alone
  (`ImplementsIdleInhibit`). `EndCloser` takes from `InhibitInv` that inhibitors are finitely
  many.

### Assumptions

* `Desktop`: surfaces, keyboards, `None` and `Dangling` are different things
  (`SurfacesDistinct`); `focused_layer` starts as NULL or as a pointer to nothing
  (`InitialFocusedLayerAssumption`).
* `Geometry`: `Unit` is positive, the sizes of outputs and clients are natural, margins
  are integers.
* `KeyBindings`: types of the constants only.
* `Stacking`: layers are no windows (`LayersAreNoToplevels`), besides what `Desktop` assumes;
  `Decorations` assumes only the latter.
* `Outputs`: `None` and `Freed` are no outputs (`OutputsDistinct`).
* `Lifecycle`: `None` is no inhibitor (`NoneIsNoInhibitor`).

No theorem has assumptions besides these on the constants.

### Model-checked only

Liveness under fairness stays with TLC: `KeyIsDecided`, `RequestedExitHappens`,
`FrameCallbackComes` and `StopEnds`. Fairness is about ENABLED, and the descent of a
variant is an induction; TLAPS has neither here. Every safety property of a passing run,
invariant or action property, has a theorem, and the variants among them are the part
of liveness that does not depend on scheduling.

## 5. Plan

Done: everything that the first plan listed: `WlList`, `Desktop` with `KeyboardFocus`,
`Geometry`, `KeyBindings`, `IdleInhibit`, `Stacking` (composed with `Desktop`),
`Decorations`, `Outputs`, `Lifecycle`, and the proofs of their safety. Left:

1. A refinement for `Outputs`: an abstract frame loop (ask, show, tell) that
   `Frame` implements where no gamma table is refused.
2. `Outputs` with the layer trees of `Stacking`: an output that is plugged in later
   makes its background above the windows that are there, and no tree is
   moved to the output's place in the layout.

## 6. Not modelled

* Popups of toplevels, selections, data control, titles and icons: the code passes
  them on to wlroots and keeps no state.
* The arithmetic of `arrange_layers()`: wlroots places the surfaces; the call's use
  of the output is in `Outputs`.
* Which node is found at a point of the screen: a click of the models finds any mapped
  window or layer surface.
* `wb_decoration` after its decoration is gone: it waits for the manager's end.
* Settings of pointers and keymaps: strings translated into calls, once.
* Rendering and damage: inside wlroots.
* Allocation failure: the code does not handle it.
* `wl_list_for_each()` in `deinit_config()` reads a link after its node is
  freed; allocators leave it legible, and the model takes it as harmless.
