------------------------------ MODULE IdleInhibit ------------------------------
(***************************************************************************)
(* Idle inhibitors (idle.c): a client holds one to keep the screen from    *)
(* blanking.  The server has one struct wl_listener for the destruction of *)
(* them all.  wl_signal_add() links it into the newest inhibitor's list    *)
(* and leaves the lists of the older ones pointing at it: every inhibitor  *)
(* reaches the listener, and the listener knows the one in `armed` only.   *)
(***************************************************************************)
EXTENDS Naturals, FiniteSets

CONSTANTS
  Inhibitor,   \* inhibitors that clients may create
  None         \* the listener is in no list

ASSUME NoneIsNoInhibitor == None \notin Inhibitor

VARIABLES
  inhibitors,  \* wb_server.inhibitors
  armed,       \* the inhibitor whose list wb_server.destroy_inhibitor is in
  inhibited,   \* what the idle notifier was last told
  fault        \* a list was followed through a link that is no longer in it

vars == <<inhibitors, armed, inhibited, fault>>

Running == ~fault

\* Mutant: the inhibitor that is being destroyed is not counted out.
AnyOtherInhibitorCountsItself == Cardinality(inhibitors) > 0

\* idle_inhibitor_destroy() counts the list before wlroots unlinks from it.
AnyOtherInhibitor == Cardinality(inhibitors) > 1

\* Mutant: the listener is not taken out of the list.
DisarmForgotten == UNCHANGED armed

\* wl_list_remove(&server->destroy_inhibitor.link)
Disarm == armed' = None

Init ==
  /\ inhibitors = {}
  /\ armed = None
  /\ inhibited = FALSE
  /\ fault = FALSE

\* idle_inhibitor_new()
New(i) ==
  /\ Running
  /\ i \notin inhibitors
  /\ inhibitors' = inhibitors \cup {i}
  /\ armed' = i
  /\ inhibited' = TRUE
  /\ UNCHANGED fault

\* wlroots emits `destroy` for i, idle_inhibitor_destroy() runs, and wlroots
\* frees i.  Where the listener is in another inhibitor's list, it is taken out
\* of the wrong one: wlroots may notice that its list is not empty, or go on.
Destroy(i) ==
  /\ Running
  /\ i \in inhibitors
  /\ armed # None
  /\ inhibitors' = inhibitors \ {i}
  /\ inhibited' = AnyOtherInhibitor
  /\ Disarm
  /\ IF armed = i THEN UNCHANGED fault ELSE fault' \in BOOLEAN

\* The listener is in no list, but the list of i still leads to it, and from
\* there through the NULL link that wl_list_remove() left.
DestroyUnarmed(i) ==
  /\ Running
  /\ i \in inhibitors
  /\ armed = None
  /\ fault' = TRUE
  /\ UNCHANGED <<inhibitors, armed, inhibited>>

Next == \E i \in Inhibitor : New(i) \/ Destroy(i) \/ DestroyUnarmed(i)

Spec == Init /\ [][Next]_vars

----------------------------------------------------------------------------
\* Properties.

TypeOK ==
  /\ inhibitors \subseteq Inhibitor
  /\ armed \in inhibitors \cup {None}
  /\ inhibited \in BOOLEAN
  /\ fault \in BOOLEAN

\* The screen may blank exactly when no client inhibits it, in whatever order
\* inhibitors come and go, for as long as the server survives their destruction.
InhibitedWhileAsked == Running => (inhibited <=> inhibitors # {})

\* idle.c: "wlroots will destroy the inhibitor after this callback, so this
\* number will be 1 if the last inhibitor is being destroyed".  That is, each
\* inhibitor's destruction gets to the callback and leaves it intact.
EveryDestroyIsHandled == ~fault
=============================================================================
