------------------------------ MODULE Lifecycle ------------------------------
(***************************************************************************)
(* How waybox starts and ends: main(), wb_create_backend(),                *)
(* wb_start_server() and wb_terminate() with the constructors and          *)
(* destructors that they call.  The program is kept as the sequence of     *)
(* steps still to do, each of which makes or destroys an object, or links  *)
(* or unlinks a listener in a signal of an object.  wlroots requires that  *)
(* nothing is linked in an object when it is destroyed, and the callbacks  *)
(* that a destruction sets off require what they read to be there.         *)
(*                                                                         *)
(* Listeners that are linked and unlinked together are one.  In between,   *)
(* windows and devices come and go, and idle inhibitors as IdleInhibit     *)
(* says.                                                                   *)
(***************************************************************************)
EXTENDS Naturals, Sequences, FiniteSets

CONSTANTS
  Inhibitor,  \* inhibitors that clients may create
  None        \* the listener is in no list

ASSUME NoneIsNoInhibitor == None \notin Inhibitor

VARIABLES
  phase,       \* what main() is at
  todo,        \* the steps that are left of it
  live,        \* objects that are there
  linked,      \* listeners that are linked in a signal
  failed,      \* wb_start_server() has failed
  mapped,      \* whether any window is mapped
  plugged,     \* whether any output or input device is plugged in
  inhibitors, armed, inhibited, idleFault,  \* as in IdleInhibit
  fault        \* what went wrong, and ended the process

Idle == INSTANCE IdleInhibit WITH fault <- idleFault

idleVars == <<inhibitors, armed, inhibited, idleFault>>
clientVars == <<mapped, plugged, idleVars>>
vars == <<phase, todo, live, linked, failed, clientVars, fault>>

\* The listeners, and the object in whose signals each is linked.
Owner ==
  [new_input |-> "backend", new_output |-> "backend",
   selection_requests |-> "seat", pointer_requests |-> "seat",
   cursor_events |-> "cursor",
   output_configuration |-> "output_manager",
   gamma_control_set_gamma |-> "gamma_manager",
   new_inhibitor |-> "inhibit_manager",
   destroy_inhibit_manager |-> "inhibit_manager",
   new_xdg_decoration |-> "decoration_manager",
   new_layer_surface |-> "layer_shell",
   new_xdg_toplevel |-> "xdg_shell", new_xdg_popup |-> "xdg_shell"]

Listener == DOMAIN Owner

\* What goes with the display, and all there is.
Globals == {"seat", "output_manager", "gamma_manager", "inhibit_manager",
            "decoration_manager", "layer_shell", "xdg_shell"}
Object == Globals \cup {"display", "backend", "renderer", "allocator", "layout",
                        "wb_seat", "cursor", "config", "scene"}

Running == fault = "none" /\ ~idleFault

FaultSite == {"listener_left", "unlinked_null", "unlinked_late", "destroyed_twice",
              "missing", "cursor_freed"}

----------------------------------------------------------------------------
\* The programs.

Operation == {"make", "try", "link", "socket", "start", "unlink", "destroy", "clients"}
StepRecord == [op : Operation, on : Object \cup Listener \cup {None}]

Step(op, x) == [op |-> op, on |-> x]
Steps(op, xs) == [i \in DOMAIN xs |-> Step(op, xs[i])]

Make(xs) == Steps("make", xs)
Try(xs) == Steps("try", xs)
Link(xs) == Steps("link", xs)
Unlink(xs) == Steps("unlink", xs)
Destroy(xs) == Steps("destroy", xs)

\* wb_seat_create() and wb_cursor_create()
SeatCreate ==
  Make(<<"wb_seat">>) \o Link(<<"new_input">>) \o Make(<<"seat">>)
    \o Link(<<"selection_requests">>)
CursorCreate ==
  Make(<<"cursor">>) \o Link(<<"cursor_events", "pointer_requests">>)

\* wb_create_backend(): main() exits where one of the first four fails.
CreateBackend ==
  Try(<<"display", "backend", "renderer", "allocator">>)
    \o Make(<<"layout">>) \o SeatCreate \o CursorCreate

\* init_config() leaves nothing behind when it fails.
InitOutput ==
  Link(<<"new_output">>) \o Make(<<"output_manager">>)
    \o Link(<<"output_configuration">>)
CreateIdleManager ==
  Make(<<"inhibit_manager">>) \o Link(<<"new_inhibitor", "destroy_inhibit_manager">>)
InitShells ==
  Make(<<"decoration_manager">>) \o Link(<<"new_xdg_decoration">>)
    \o Make(<<"layer_shell">>) \o Link(<<"new_layer_surface">>)
    \o Make(<<"xdg_shell">>) \o Link(<<"new_xdg_toplevel", "new_xdg_popup">>)

\* wb_start_server()
StartServer ==
  Try(<<"config">>) \o InitOutput \o Make(<<"scene">>)
    \o <<Step("socket", None), Step("start", None)>>
    \o Make(<<"gamma_manager">>) \o Link(<<"gamma_control_set_gamma">>)
    \o CreateIdleManager \o InitShells

\* wb_cursor_destroy() and wb_seat_destroy()
CursorDestroy ==
  Unlink(<<"pointer_requests", "cursor_events">>) \o Destroy(<<"cursor">>)
SeatDestroy == Unlink(<<"selection_requests">>) \o Destroy(<<"wb_seat">>)

UnlinkServer ==
  Unlink(<<"new_input", "new_output", "output_configuration", "new_inhibitor",
           "destroy_inhibit_manager", "gamma_control_set_gamma",
           "new_layer_surface", "new_xdg_toplevel", "new_xdg_popup">>)

\* Mutant: the clients are not destroyed.
EndWithoutClients ==
  CursorDestroy \o Unlink(<<"new_xdg_decoration">>) \o Destroy(<<"config">>)
    \o Destroy(<<"layout", "allocator", "renderer">>)

\* wb_terminate(), up to and from the destruction of the backend.
EndClients ==
  CursorDestroy \o Unlink(<<"new_xdg_decoration">>) \o Destroy(<<"config">>)
    \o <<Step("clients", None)>> \o Destroy(<<"layout", "allocator", "renderer">>)
EndServer == Destroy(<<"backend">>) \o SeatDestroy \o Destroy(<<"display", "scene">>)

\* Mutants: the listeners of the server are unlinked after the backend is gone;
\* the scene is left to the end of the process.
TerminateUnlinkingLate == EndClients \o EndServer \o UnlinkServer
TerminateKeepingScene ==
  EndClients \o UnlinkServer \o SubSeq(EndServer, 1, Len(EndServer) - 1)

\* wb_terminate()
Terminate == EndClients \o UnlinkServer \o EndServer

----------------------------------------------------------------------------
Init ==
  /\ phase = "starting"
  /\ todo = CreateBackend \o StartServer
  /\ live = {} /\ linked = {}
  /\ failed = FALSE
  /\ mapped = FALSE /\ plugged = FALSE
  /\ Idle!Init
  /\ fault = "none"

Now(op) == todo # <<>> /\ Head(todo).op = op
On == Head(todo).on
Go == todo' = Tail(todo)
Undefined(site) == fault' \in {"none", site}

----------------------------------------------------------------------------
\* Start.

MakeObject ==
  /\ Running
  /\ Now("make") \/ Now("try")
  /\ live' = live \cup {On}
  /\ Go
  /\ UNCHANGED <<phase, linked, failed, clientVars, fault>>

\* main() exits at once if wb_create_backend() fails; an unreadable rc.xml leaves
\* no configuration.
TryFails ==
  /\ Running
  /\ Now("try")
  /\ IF On = "config" THEN Go /\ UNCHANGED phase
                      ELSE phase' = "exited" /\ todo' = <<>>
  /\ failed' = (failed \/ On # "config")
  /\ UNCHANGED <<live, linked, clientVars, fault>>

LinkListener ==
  /\ Running
  /\ Now("link")
  /\ linked' = linked \cup {On}
  /\ IF Owner[On] \in live THEN UNCHANGED fault ELSE Undefined("missing")
  /\ Go
  /\ UNCHANGED <<phase, live, failed, clientVars>>

\* wl_display_add_socket_auto() fails: the backend is destroyed before main()
\* calls wb_terminate().
OpenSocket ==
  /\ Running
  /\ Now("socket")
  /\ \/ Go /\ UNCHANGED <<phase, failed>>
     \/ /\ todo' = Destroy(<<"backend">>) \o Terminate
        /\ phase' = "stopping"
        /\ failed' = TRUE
  /\ UNCHANGED <<live, linked, clientVars, fault>>

\* What the callbacks of new and of vanishing devices use.
DeviceNeeds == {"scene", "layout", "output_manager", "wb_seat", "seat"}

\* wlr_backend_start() announces the devices there are; or it fails.
StartBackend ==
  /\ Running
  /\ Now("start")
  /\ \/ /\ Go
        /\ plugged' \in BOOLEAN
        /\ IF plugged' /\ ~(DeviceNeeds \subseteq live)
           THEN Undefined("missing") ELSE UNCHANGED fault
        /\ UNCHANGED <<phase, failed>>
     \/ /\ todo' = Destroy(<<"backend", "display">>) \o Terminate
        /\ phase' = "stopping"
        /\ failed' = TRUE
        /\ UNCHANGED <<plugged, fault>>
  /\ UNCHANGED <<live, linked, mapped, idleVars>>

\* wl_display_run()
Run ==
  /\ Running
  /\ phase = "starting" /\ todo = <<>>
  /\ phase' = "running"
  /\ UNCHANGED <<todo, live, linked, failed, clientVars, fault>>

----------------------------------------------------------------------------
\* While it runs.

\* What clients and devices do when main() is at one of these phases.
ClientsWhile(phases) ==
  /\ Running
  /\ phase \in phases
  /\ \/ mapped' = ~mapped /\ UNCHANGED <<plugged, idleVars>>
     \/ plugged' = ~plugged /\ UNCHANGED <<mapped, idleVars>>
     \/ Idle!Next /\ UNCHANGED <<mapped, plugged>>
  /\ UNCHANGED <<phase, todo, live, linked, failed, fault>>

\* Mutant: clients are served until the end.
ClientsComeToTheEnd == ClientsWhile({"running", "stopping"})

\* wl_display_run() dispatches to them; nothing does afterwards.
ClientsComeAndGo == ClientsWhile({"running"})

\* SIGINT, SIGTERM or the exit action: wl_display_terminate().
StopRunning ==
  /\ Running
  /\ phase = "running"
  /\ phase' = "stopping"
  /\ todo' = Terminate
  /\ UNCHANGED <<live, linked, failed, clientVars, fault>>

----------------------------------------------------------------------------
\* End.

\* wl_list_remove(): the link of a listener that never was linked is NULL.
UnlinkListener ==
  /\ Running
  /\ Now("unlink")
  /\ linked' = linked \ {On}
  /\ IF On \notin linked THEN fault' = "unlinked_null"
     ELSE IF Owner[On] \notin live THEN Undefined("unlinked_late")
     ELSE UNCHANGED fault
  /\ Go
  /\ UNCHANGED <<phase, live, failed, clientVars>>

\* What is destroyed with an object.
With(x) == IF x = "display" THEN {x} \cup Globals ELSE {x}

\* The devices are destroyed with the backend, and their callbacks run: they
\* unlink outputs from the scene and keyboards from the seat.
DestroyObject ==
  /\ Running
  /\ Now("destroy")
  /\ live' = live \ With(On)
  /\ plugged' = (plugged /\ On # "backend")
  /\ IF On \notin live /\ On # "config" THEN Undefined("destroyed_twice")
     ELSE IF \E l \in linked : Owner[l] \in With(On) THEN Undefined("listener_left")
     ELSE IF On = "backend" /\ plugged /\ ~({"scene", "wb_seat"} \subseteq live)
     THEN Undefined("missing")
     ELSE UNCHANGED fault
  /\ Go
  /\ UNCHANGED <<phase, linked, failed, mapped, idleVars>>

\* Mutant: the clients are waited for.
DestroyClientsAwaited ==
  /\ Running
  /\ Now("clients")
  /\ ~mapped /\ inhibitors = {}
  /\ Go
  /\ UNCHANGED <<phase, live, linked, failed, clientVars, fault>>

\* wl_display_destroy_clients(): a mapped window unmaps, and reset_cursor_mode()
\* writes to the cursor; the inhibitors are destroyed one by one.
DestroyClients ==
  /\ Running
  /\ Now("clients")
  /\ \/ /\ mapped
        /\ mapped' = FALSE
        /\ IF "cursor" \in live THEN UNCHANGED fault ELSE Undefined("cursor_freed")
        /\ UNCHANGED <<todo, idleVars>>
     \/ /\ \E i \in Inhibitor : Idle!Destroy(i) \/ Idle!DestroyUnarmed(i)
        /\ UNCHANGED <<todo, mapped, fault>>
     \/ /\ ~mapped /\ inhibitors = {}
        /\ Go
        /\ UNCHANGED <<mapped, idleVars, fault>>
  /\ UNCHANGED <<phase, live, linked, failed, plugged>>

\* main() returns.
Exit ==
  /\ Running
  /\ phase = "stopping" /\ todo = <<>>
  /\ phase' = "exited"
  /\ UNCHANGED <<todo, live, linked, failed, clientVars, fault>>

----------------------------------------------------------------------------
Main ==
  \/ MakeObject \/ TryFails \/ LinkListener \/ OpenSocket \/ StartBackend \/ Run
  \/ UnlinkListener \/ DestroyObject \/ DestroyClients \/ Exit

Next == Main \/ ClientsComeAndGo \/ StopRunning

\* main() goes on by itself, except that it runs until it is told to stop.
Spec == Init /\ [][Next]_vars /\ WF_vars(Main)

----------------------------------------------------------------------------
\* Properties.

TypeOK ==
  /\ phase \in {"starting", "running", "stopping", "exited"}
  /\ todo \in Seq(StepRecord)
  /\ live \subseteq Object
  /\ linked \subseteq Listener
  /\ failed \in BOOLEAN /\ mapped \in BOOLEAN /\ plugged \in BOOLEAN
  /\ Idle!TypeOK
  /\ plugged => "backend" \in live
  /\ mapped => phase \in {"running", "stopping"}
  /\ fault \in FaultSite \cup {"none"}

\* A server that started ends in order: nothing is linked in what is destroyed,
\* nothing is unlinked or destroyed twice or too late, and the devices that go
\* with the backend still find the scene and the seat.
OrderlyEnd == ~failed => fault \in {"none", "cursor_freed"}

\* And nothing is left of it when main() returns.
NothingIsLeft ==
  phase = "exited" /\ ~failed /\ Running => live = {} /\ linked = {} /\ inhibitors = {}

\* What is left to do once main() ends the process: the steps of wb_terminate(),
\* the clients' windows and inhibitors that it destroys, and the return.
Left ==
  Len(todo) + Cardinality(inhibitors)
    + (IF mapped THEN 1 ELSE 0) + (IF phase = "exited" THEN 0 ELSE 1)

\* Nothing puts the end off: whatever happens then leaves less to do.
EndComesCloser == [][phase = "stopping" /\ Running' => Left' < Left]_vars

\* A signal to end the process does: main() returns, whatever clients hold.
StopEnds == phase = "stopping" ~> (phase = "exited" \/ ~Running)

\* What the code means to do, and does not.

\* main.c ends a server that failed to start with wb_terminate() and
\* exit(EXIT_FAILURE).
FailedStartExits == failed => fault = "none"
=============================================================================
