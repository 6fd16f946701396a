----------------------------- MODULE Decorations -----------------------------
(***************************************************************************)
(* Decoration modes in waybox (decoration.c, and the initial commit of     *)
(* xdg_shell.c).  A client that has a decoration asks for a mode; waybox   *)
(* answers with client-side, but looks at the first window of the list,    *)
(* not at the decoration's own: it answers if that one has committed, and  *)
(* leaves the decoration with it, to be asked again at its first commit.   *)
(* Which window is first is what Desktop says, so its callbacks are taken  *)
(* with these.  wb_decoration outlives the decoration it belongs to and    *)
(* listens to nothing then; it is left out.                                *)
(***************************************************************************)
EXTENDS Desktop

VARIABLES
  initialized,  \* toplevels whose xdg_surface.initialized is set
  decorated,    \* toplevels whose client made a decoration of them
  asked,        \* decorated toplevels whose client asked for a mode
  clientSide,   \* decorated toplevels whose mode waybox set to client-side
  kept,         \* wb_toplevel.decoration: the toplevel that decoration is of
  lost          \* ghost: asked, and left with a window that forgot it

decorationVars == <<decorated, asked, clientSide, kept, lost>>
decoratingVars == <<vars, initialized, decorationVars>>

----------------------------------------------------------------------------
DecorInit ==
  /\ Init
  /\ initialized = {}
  /\ decorated = {}
  /\ asked = {}
  /\ clientSide = {}
  /\ kept = [t \in Toplevel |-> None]
  /\ lost = {}

\* What window t is to ask again at its first commit, and forgets.
Forgets(t) == IF t \in initialized THEN {} ELSE {kept[t]} \cap Toplevel

\* Mutant: the decoration is not left with the window.
SetModeNotKept(d, committed) ==
  /\ clientSide' = IF Front \in committed THEN clientSide \cup {d} ELSE clientSide
  /\ UNCHANGED <<kept, lost>>

\* handle_xdg_decoration_mode(), on the decoration of d, when the toplevels in
\* committed are initialized.
SetMode(d, committed) ==
  /\ clientSide' = IF Front \in committed THEN clientSide \cup {d} ELSE clientSide
  /\ kept' = [kept EXCEPT ![Front] = d]
  /\ lost' = (lost \cup Forgets(Front)) \ {d}

\* handle_new_xdg_toplevel_decoration(): wlroots refuses a second decoration,
\* and one of a surface that has content.
NewDecoration(t) ==
  /\ Running
  /\ Live(t) /\ ~Mapped(t)
  /\ t \notin decorated
  /\ decorated' = decorated \cup {t}
  /\ UNCHANGED <<vars, initialized, asked, clientSide, kept, lost>>

\* The client sets or unsets the mode it would like.
RequestMode(t) ==
  /\ Running
  /\ t \in decorated
  /\ asked' = asked \cup {t}
  /\ SetMode(t, initialized)
  /\ UNCHANGED <<vars, initialized, decorated>>

\* Who keeps a decoration of t is not told that it goes.
KeptWithout(t) == [u \in Toplevel |-> IF kept[u] = t THEN Dangling ELSE kept[u]]

\* free_xdg_decoration_mode()
DestroyDecoration(t) ==
  /\ Running
  /\ t \in decorated
  /\ decorated' = decorated \ {t}
  /\ asked' = asked \ {t}
  /\ clientSide' = clientSide \ {t}
  /\ kept' = KeptWithout(t)
  /\ lost' = lost \ {t}
  /\ UNCHANGED <<vars, initialized>>

\* Mutant: the initial commit does not look at the decoration.
InitialCommitOnly(t) ==
  /\ Running
  /\ stage[t] = "created"
  /\ t \notin initialized
  /\ initialized' = initialized \cup {t}
  /\ UNCHANGED <<vars, decorationVars>>

\* xdg_toplevel_commit(), the initial one: the decoration kept is asked for its
\* mode again, whosever it is and whether it still exists or not.
InitialCommit(t) ==
  /\ Running
  /\ stage[t] = "created"
  /\ t \notin initialized
  /\ initialized' = initialized \cup {t}
  /\ IF kept[t] \in Toplevel
     THEN SetMode(kept[t], initialized') /\ UNCHANGED <<decorated, asked>>
     ELSE UNCHANGED decorationVars
  /\ IF kept[t] = Dangling THEN Undefined("decoration_freed") ELSE UNCHANGED fault
  /\ UNCHANGED <<windowVars, layerVars, focusVars, seatVars, grabVars>>

\* The client acknowledges the configure of its initial commit.
AckInitialConfigure(t) ==
  /\ t \in initialized
  /\ AckConfigure(t)
  /\ UNCHANGED <<initialized, decorationVars>>

\* wlroots resets the surface of a window that unmaps: it has to commit anew.
UnmapDecorated(t) ==
  /\ UnmapToplevel(t)
  /\ initialized' = initialized \ {t}
  /\ UNCHANGED decorationVars

\* Mutant: the decoration survives its toplevel.
DestroyDecoratedKept(t) ==
  /\ DestroyToplevel(t)
  /\ initialized' = initialized \ {t}
  /\ kept' = [KeptWithout(t) EXCEPT ![t] = None]
  /\ lost' = (lost \cup Forgets(t)) \ {t}
  /\ UNCHANGED <<decorated, asked, clientSide>>

\* xdg_toplevel_destroy(): wlroots destroys the decoration of the toplevel.
DestroyDecorated(t) ==
  /\ DestroyToplevel(t)
  /\ initialized' = initialized \ {t}
  /\ decorated' = decorated \ {t}
  /\ asked' = asked \ {t}
  /\ clientSide' = clientSide \ {t}
  /\ kept' = [KeptWithout(t) EXCEPT ![t] = None]
  /\ lost' = (lost \cup Forgets(t)) \ {t}

\* The callbacks that only decide which window is first.
OffDecorations ==
  /\ \/ \E t \in Toplevel :
          NewToplevel(t) \/ MapToplevel(t) \/ RequestMinimize(t) \/ ButtonPress(t)
     \/ \E l \in LayerSurface :
          \/ \E ly \in LayerType, interactive \in BOOLEAN :
               NewLayerSurface(l, ly, interactive) \/ CommitLayer(l, ly, interactive)
          \/ MapLayer(l) \/ UnmapLayer(l) \/ DestroyLayer(l)
     \/ \E s \in Surface : DestroySurface(s)
     \/ \E k \in Keyboard : NewKeyboard(k) \/ DestroyKeyboard(k)
     \/ KeyNextWindow \/ KeyPreviousWindow \/ KeyIconify
  /\ UNCHANGED <<initialized, decorationVars>>

DecorNext ==
  \/ \E t \in Toplevel :
       \/ NewDecoration(t) \/ RequestMode(t) \/ DestroyDecoration(t)
       \/ InitialCommit(t) \/ AckInitialConfigure(t)
       \/ UnmapDecorated(t) \/ DestroyDecorated(t)
  \/ OffDecorations

DecorSpec == DecorInit /\ [][DecorNext]_decoratingVars

----------------------------------------------------------------------------
\* Properties.

DecorTypeOK ==
  /\ initialized \subseteq {t \in Toplevel : Live(t)}
  /\ decorated \subseteq {t \in Toplevel : Live(t)}
  /\ asked \subseteq decorated
  /\ clientSide \subseteq decorated
  /\ kept \in [Toplevel -> decorated \cup {None, Dangling}]
  /\ lost \subseteq asked

\* However windows are created, focused and committed between the requests, a
\* client that asked for a mode has its answer, or will have it when some window
\* commits for the first time; unless the window that kept its request was
\* handed another one, or was destroyed, before it committed.
RequestServedOrKept ==
  \A t \in asked \ lost :
    \/ t \in clientSide
    \/ \E u \in Toplevel : Live(u) /\ u \notin initialized /\ kept[u] = t

\* What the code takes care of, and does not keep.

\* decoration.c sets a mode only where it finds the surface initialized.
ModeSetOnInitialized ==
  [][\A t \in clientSide' \ clientSide : t \in initialized']_decoratingVars

\* A window keeps a decoration that exists.
KeptDecorationExists == \A t \in Toplevel : kept[t] # Dangling
=============================================================================
