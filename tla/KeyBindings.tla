------------------------------ MODULE KeyBindings ------------------------------
(***************************************************************************)
(* Key bindings and the configuration they come from: how rc.xml becomes   *)
(* wb_config.key_bindings (config.c), how a key event is looked up there   *)
(* (seat.c), and how both are replaced while the server runs, by the       *)
(* Reconfigure action and by the handler of SIGUSR1 and SIGUSR2 (main.c).  *)
(*                                                                         *)
(* The handler runs on the one thread of waybox, at any instruction of it: *)
(* `reloads` is the stack of reloads in progress, and only the top of it   *)
(* moves.  A signal is blocked while its own handler runs, not while the   *)
(* other's does.  What the actions do to windows is in Desktop, Geometry;  *)
(* here they matter as having been taken.                                  *)
(***************************************************************************)
EXTENDS Naturals, Sequences

CONSTANTS
  RcFile,      \* what rc.xml may hold: sequences of keybind elements
  Unreadable,  \* no rc.xml, or none that can be parsed
  KeyEvent,    \* the keysyms, none for a release, and modifiers of key events
  Signal       \* the signals that may come

ASSUME UnreadableAssumption == Unreadable \notin RcFile
ASSUME RcFileAssumption ==
  RcFile \subseteq Seq([key : Seq(STRING), actions : SUBSET STRING])
ASSUME KeyEventAssumption ==
  KeyEvent \subseteq [syms : Seq(STRING), mods : SUBSET STRING]
ASSUME SignalAssumption == Signal \subseteq {"SIGUSR1", "SIGUSR2"}

VARIABLES
  rcFile,       \* the file as it is now
  config,       \* wb_server.config: NULL, a live object, or a freed one
  loaded,       \* ghost: the file that config was read from
  key_bindings, \* wb_config.key_bindings
  reloads,      \* reloads in progress, the innermost last
  pc,           \* where the main thread is
  syms,         \* keysyms of the event that are yet to be looked up
  modifiers,    \* modifiers of the event
  pos,          \* the scan of key_bindings
  key_binding,  \* the binding that matched
  stale,        \* the binding or the list that is being read has been freed
  handled,      \* what the last handle_keybinding() returned
  sent,         \* the last key event was sent to the client
  acted,        \* ghost: keysyms of it that were acted upon, counted from the last
  terminated,   \* wl_display_terminate() was called
  asked,        \* ghost: ... for SIGTERM, or for a binding to Exit
  disturbed,    \* ghost: a reload failed, or interrupted the main thread
  fault         \* the site whose undefined behaviour ended the process

configVars == <<config, loaded, key_bindings>>
eventVars  == <<syms, modifiers, pos, key_binding, handled, sent, acted>>
endVars    == <<terminated, asked>>
vars == <<rcFile, configVars, reloads, pc, eventVars, stale, endVars,
          disturbed, fault>>

\* Who reloads, and what it calls next.
Reload == [by : {"key", "SIGUSR1", "SIGUSR2"}, at : {"deinit", "init"}]

\* The names of modifiers in a keybind's key.
Modifier ==
  [A |-> "Alt", Alt |-> "Alt", Caps |-> "Caps", C |-> "Ctrl", Ctrl |-> "Ctrl",
   Mod2 |-> "Mod2", Mod3 |-> "Mod3", Mod5 |-> "Mod5", S |-> "Shift",
   Shift |-> "Shift", W |-> "Logo", Logo |-> "Logo"]

\* parse_key_bindings(): each part of the key that names a modifier is one, the
\* last included; the last is the keysym, whatever it names.
Binding(keybind) ==
  LET key == keybind.key
  IN  [sym |-> IF key = <<>> THEN "NoSymbol" ELSE key[Len(key)],
       mods |-> {Modifier[key[i]] :
                   i \in {j \in DOMAIN key : key[j] \in DOMAIN Modifier}},
       actions |-> keybind.actions]

\* Mutant: each binding is linked after the ones before it.
LinkedInFileOrder(file) == [i \in 1 .. Len(file) |-> Binding(file[i])]

\* parse_key_bindings(): each binding is linked before the ones read earlier.
Linked(file) ==
  [i \in 1 .. Len(file) |-> Binding(file[Len(file) + 1 - i])]

\* handle_keybinding() without a config: the actions of `sym`, if any.
Defaults(sym, mods) ==
  IF sym = "Tab" /\ "Alt" \in mods THEN {"NextWindow"}
  ELSE IF sym = "Tab" /\ "Shift" \in mods THEN {"PreviousWindow"}
  ELSE IF sym = "Escape" /\ "Ctrl" \in mods THEN {"Exit"}
  ELSE {}

Running == fault = "none" /\ pc # "closed"
OnMainThread == Running /\ reloads = <<>>

\* The configuration is read through a pointer to a freed one, or to none; the
\* list is scanned, or the binding's last action read, after it was freed; a
\* configuration is freed twice.
FaultSite ==
  {"freed_config", "null_config", "stale_scan", "freed_binding", "double_free"}

\* Undefined behaviour: the process ends, or goes on with what it read.
Undefined(site) == fault' \in {fault, site}

----------------------------------------------------------------------------
\* wb_start_server() has called init_config().
Init ==
  /\ rcFile \in RcFile \cup {Unreadable}
  /\ loaded = rcFile
  /\ config = IF rcFile = Unreadable THEN "null" ELSE "live"
  /\ key_bindings = IF rcFile = Unreadable THEN <<>> ELSE Linked(rcFile)
  /\ reloads = <<>>
  /\ pc = "idle"
  /\ syms = <<>>
  /\ modifiers = {}
  /\ pos = 1
  /\ key_binding = Binding([key |-> <<>>, actions |-> {}])
  /\ stale = FALSE
  /\ handled = FALSE
  /\ sent = FALSE
  /\ acted = {}
  /\ terminated = FALSE
  /\ asked = FALSE
  /\ disturbed = FALSE
  /\ fault = "none"

\* The user saves, moves or spoils rc.xml.
EditFile(file) ==
  /\ Running
  /\ rcFile' = file
  /\ UNCHANGED <<configVars, reloads, pc, eventVars, stale, endVars, disturbed,
                 fault>>

----------------------------------------------------------------------------
\* Reloading.

\* Mutant: a NULL config is freed too.
DeinitConfigOfNull ==
  IF config = "live"
  THEN config' = "freed" /\ UNCHANGED fault
  ELSE UNCHANGED config /\ Undefined("double_free")

\* deinit_config(server->config), which leaves the pointer as it was.  The loop
\* reads each link after its node was freed; allocators leave it legible.
DeinitConfig ==
  IF config = "live"
  THEN config' = "freed" /\ UNCHANGED fault
  ELSE /\ UNCHANGED config
       /\ IF config = "freed" THEN Undefined("double_free")
          ELSE UNCHANGED fault

\* Mutant: the new bindings are linked before those that were there.
InitConfigMerging ==
  IF rcFile = Unreadable
  THEN UNCHANGED configVars
  ELSE config' = "live" /\ loaded' = rcFile
       /\ key_bindings' = Linked(rcFile) \o key_bindings

\* init_config(): server->config is set only when all went well.
InitConfig ==
  IF rcFile = Unreadable
  THEN UNCHANGED configVars
  ELSE config' = "live" /\ loaded' = rcFile /\ key_bindings' = Linked(rcFile)

\* signal_handler() is entered.
RaiseSignal(sig) ==
  /\ Running
  /\ \A i \in DOMAIN reloads : reloads[i].by # sig
  /\ reloads' = Append(reloads, [by |-> sig, at |-> "deinit"])
  /\ disturbed' = (disturbed \/ pc # "idle" \/ reloads # <<>>)
  /\ UNCHANGED <<rcFile, configVars, pc, eventVars, stale, endVars, fault>>

\* deinit_config() of the innermost reload.
ReloadDeinit ==
  /\ Running
  /\ reloads # <<>>
  /\ reloads[Len(reloads)].at = "deinit"
  /\ reloads' = [reloads EXCEPT ![Len(reloads)].at = "init"]
  /\ DeinitConfig
  /\ stale' = (stale \/ pc \in {"scan", "act", "exit"})
  /\ UNCHANGED <<rcFile, loaded, key_bindings, pc, eventVars, endVars,
                 disturbed>>

\* init_config() of the innermost reload, which returns.
ReloadInit ==
  /\ Running
  /\ reloads # <<>>
  /\ reloads[Len(reloads)].at = "init"
  /\ reloads' = SubSeq(reloads, 1, Len(reloads) - 1)
  /\ InitConfig
  /\ disturbed' = (disturbed \/ (rcFile = Unreadable /\ config # "null"))
  /\ UNCHANGED <<rcFile, pc, eventVars, stale, endVars, fault>>

----------------------------------------------------------------------------
\* A key event.

\* keyboard_handle_key(); a release has no keysyms to look up.
KeyboardHandleKey(event) ==
  /\ OnMainThread
  /\ pc = "idle"
  /\ ~terminated
  /\ pc' = "lookup"
  /\ syms' = event.syms
  /\ modifiers' = event.mods
  /\ handled' = FALSE
  /\ UNCHANGED <<rcFile, configVars, reloads, pos, key_binding, stale, sent, acted,
                 endVars, disturbed, fault>>

\* Mutant: the loop over the keysyms of the event does not go on.
ReturnToSameSym(answer) ==
  /\ pc' = "lookup"
  /\ UNCHANGED syms
  /\ handled' = answer

\* handle_keybinding() returns `answer` for the first of syms.
Return(answer) ==
  /\ pc' = "lookup"
  /\ syms' = Tail(syms)
  /\ handled' = answer

\* The first of syms is acted upon.
ActUpon == acted' = acted \cup {Len(syms)}

\* handle_keybinding(), a switch to another virtual terminal.
SwitchVT ==
  /\ OnMainThread
  /\ pc = "lookup" /\ syms # <<>>
  /\ Head(syms) = "XF86Switch_VT" /\ modifiers \cap {"Ctrl", "Alt"} # {}
  /\ Return(TRUE)
  /\ ActUpon
  /\ UNCHANGED <<rcFile, configVars, reloads, modifiers, pos, key_binding, stale,
                 sent, endVars, disturbed, fault>>

Lookup ==
  /\ OnMainThread
  /\ pc = "lookup" /\ syms # <<>>
  /\ ~(Head(syms) = "XF86Switch_VT" /\ modifiers \cap {"Ctrl", "Alt"} # {})

\* handle_keybinding(), without a config.
LookupDefault ==
  /\ Lookup
  /\ config = "null"
  /\ LET actions == Defaults(Head(syms), modifiers)
     IN  /\ Return(actions # {})
         /\ IF actions # {} THEN ActUpon ELSE UNCHANGED acted
         /\ terminated' = (terminated \/ "Exit" \in actions)
         /\ asked' = (asked \/ "Exit" \in actions)
  /\ UNCHANGED <<rcFile, configVars, reloads, modifiers, pos, key_binding, stale,
                 sent, disturbed, fault>>

\* handle_keybinding() takes the first of server->config->key_bindings.
LookupBegin ==
  /\ Lookup
  /\ config # "null"
  /\ pc' = "scan"
  /\ pos' = 1
  /\ stale' = (config = "freed")
  /\ IF config = "freed" THEN Undefined("freed_config") ELSE UNCHANGED fault
  /\ UNCHANGED <<rcFile, configVars, reloads, syms, modifiers, key_binding,
                 handled, sent, acted, endVars, disturbed>>

Matches(binding) == binding.sym = Head(syms) /\ binding.mods = modifiers

\* Mutant: the scan does not go on to the next binding.
ScanNextStays == pos' = pos

ScanNext == pos' = pos + 1

\* One turn of the loop over key_bindings.
Scan ==
  /\ OnMainThread
  /\ pc = "scan"
  /\ ~stale
  /\ \/ /\ pos > Len(key_bindings)
        /\ Return(FALSE)
        /\ UNCHANGED <<pos, key_binding, acted>>
     \/ /\ pos <= Len(key_bindings) /\ Matches(key_bindings[pos])
        /\ pc' = "act"
        /\ key_binding' = key_bindings[pos]
        /\ ActUpon
        /\ UNCHANGED <<syms, handled, pos>>
     \/ /\ pos <= Len(key_bindings) /\ ~Matches(key_bindings[pos])
        /\ ScanNext
        /\ UNCHANGED <<pc, syms, handled, key_binding, acted>>
  /\ UNCHANGED <<rcFile, configVars, reloads, modifiers, stale, sent, endVars,
                 disturbed, fault>>

\* The same, through freed nodes: they match, or end the list, or neither.
ScanFreed ==
  /\ OnMainThread
  /\ pc = "scan"
  /\ stale
  /\ Undefined("stale_scan")
  /\ \/ Return(FALSE) /\ UNCHANGED acted
     \/ pc' = "act" /\ ActUpon /\ UNCHANGED <<syms, handled>>
     \/ UNCHANGED <<pc, syms, handled, acted>>
  /\ UNCHANGED <<rcFile, configVars, reloads, modifiers, pos, key_binding, stale,
                 sent, endVars, disturbed>>

\* What key_binding->action may be read as.
ActionsRead ==
  IF stale THEN SUBSET {"Reconfigure", "Exit"} ELSE {key_binding.actions}

\* The actions of the binding up to ACTION_RECONFIGURE.
Act ==
  /\ OnMainThread
  /\ pc = "act"
  /\ pc' = "exit"
  /\ \E actions \in ActionsRead :
       reloads' = IF "Reconfigure" \in actions
                  THEN <<[by |-> "key", at |-> "deinit"]>> ELSE <<>>
  /\ IF stale THEN Undefined("stale_scan") ELSE UNCHANGED fault
  /\ UNCHANGED <<rcFile, configVars, eventVars, stale, endVars, disturbed>>

\* Mutant: the actions are taken and the client gets the key as well.
ReturnUnhandled == Return(FALSE)

\* handle_keybinding() returns true after the actions.
ReturnAfterActions == Return(TRUE)

\* Mutant: ACTION_EXIT does not end the session.
ExitReadForgotten(actions) == FALSE

\* ACTION_EXIT among the actions read
ExitRead(actions) == "Exit" \in actions

\* ACTION_EXIT, read from the binding that ACTION_RECONFIGURE has freed if the
\* reload met a configuration.
ActExit ==
  /\ OnMainThread
  /\ pc = "exit"
  /\ \E actions \in ActionsRead :
       terminated' = (terminated \/ ExitRead(actions))
  /\ asked' = (asked \/ (~stale /\ "Exit" \in key_binding.actions))
  /\ ReturnAfterActions
  /\ IF stale THEN Undefined("freed_binding") ELSE UNCHANGED fault
  /\ UNCHANGED <<rcFile, configVars, reloads, modifiers, pos, key_binding, stale,
                 sent, acted, disturbed>>

\* keyboard_handle_key() has looked up every keysym, and is left with its locals.
KeyDone ==
  /\ OnMainThread
  /\ pc = "lookup" /\ syms = <<>>
  /\ pc' = "idle"
  /\ sent' = ~handled
  /\ acted' = {}
  /\ modifiers' = {} /\ pos' = 1 /\ stale' = FALSE
  /\ UNCHANGED <<rcFile, configVars, reloads, syms, key_binding, handled, endVars,
                 disturbed, fault>>

----------------------------------------------------------------------------
\* Devices, and the end.

\* new_input_notify(): handle_new_keyboard() asks for a config, and
\* handle_new_pointer() does not.
NewInput(device) ==
  /\ OnMainThread
  /\ pc = "idle"
  /\ ~terminated
  /\ \/ config = "freed" /\ Undefined("freed_config")
     \/ config = "null" /\ device = "pointer" /\ fault' = "null_config"
  /\ UNCHANGED <<rcFile, configVars, reloads, pc, eventVars, stale, endVars,
                 disturbed>>

\* signal_handler(), SIGINT and SIGTERM.
Terminate ==
  /\ Running
  /\ terminated' = TRUE
  /\ asked' = TRUE
  /\ UNCHANGED <<rcFile, configVars, reloads, pc, eventVars, stale, disturbed,
                 fault>>

\* wl_display_run() returns, and wb_terminate() frees the config.
Shutdown ==
  /\ OnMainThread
  /\ pc = "idle"
  /\ terminated
  /\ pc' = "closing"
  /\ DeinitConfig
  /\ UNCHANGED <<rcFile, loaded, key_bindings, reloads, eventVars, stale, endVars,
                 disturbed>>

\* The process ends.
Close ==
  /\ OnMainThread
  /\ pc = "closing"
  /\ pc' = "closed"
  /\ UNCHANGED <<rcFile, configVars, reloads, eventVars, stale, endVars,
                 disturbed, fault>>

MainStep ==
  \/ SwitchVT \/ LookupDefault \/ LookupBegin \/ Scan \/ Act \/ ActExit
  \/ KeyDone \/ Shutdown \/ Close

ReloadStep == ReloadDeinit \/ ReloadInit

Next ==
  \/ MainStep \/ ReloadStep \/ ScanFreed
  \/ \E file \in RcFile \cup {Unreadable} : EditFile(file)
  \/ \E sig \in Signal : RaiseSignal(sig)
  \/ \E event \in KeyEvent : KeyboardHandleKey(event)
  \/ \E device \in {"keyboard", "pointer"} : NewInput(device)
  \/ Terminate

Spec == Init /\ [][Next]_vars

\* A signal handler that was entered returns and a callback goes on, since nothing
\* in them waits; the callback needs strong fairness because handlers interrupt
\* it: signals do not come so fast that nothing runs between them for ever.
FairSpec == Spec /\ SF_vars(MainStep) /\ WF_vars(ReloadStep)

----------------------------------------------------------------------------
\* Properties.

TypeOK ==
  /\ rcFile \in RcFile \cup {Unreadable}
  /\ loaded \in RcFile \cup {Unreadable}
  /\ config \in {"null", "live", "freed"}
  /\ loaded = Unreadable <=> config = "null"
  /\ key_bindings = IF config = "null" THEN <<>> ELSE Linked(loaded)
  /\ reloads \in Seq(Reload)
  /\ pc \in {"idle", "lookup", "scan", "act", "exit", "closing", "closed"}
  /\ syms \in Seq(STRING)
  /\ pc \in {"scan", "act", "exit"} => syms # <<>>
  /\ modifiers \subseteq STRING
  /\ pos \in Nat \ {0}
  /\ stale \in BOOLEAN /\ handled \in BOOLEAN /\ sent \in BOOLEAN
  /\ acted \subseteq Nat /\ terminated \in BOOLEAN /\ asked \in BOOLEAN
  /\ disturbed \in BOOLEAN
  /\ fault \in FaultSite \cup {"none"}

\* Two keybind elements of rc.xml for the same keys: the later one is taken,
\* and from the file as it was when last read, whatever happened to it since.
LastKeybindWins ==
  pc \in {"act", "exit"} /\ ~stale =>
    \E i \in DOMAIN loaded :
      /\ key_binding = Binding(loaded[i])
      /\ Matches(key_binding)
      /\ \A j \in DOMAIN loaded : j > i => ~Matches(Binding(loaded[j]))

\* As long as rc.xml can be read whenever it is reloaded, and no signal comes in
\* the middle of a callback or a reload, only one read of freed memory is left, in
\* any order of keys, signals, new devices and the end of the session: that of a
\* binding to Reconfigure, by the very callback that reloaded for it.
FaultNeedsBadReload ==
  ~disturbed =>
    /\ fault \notin {"freed_config", "stale_scan", "double_free"}
    /\ fault = "freed_binding" => "Reconfigure" \in key_binding.actions

\* keyboard_handle_key(): the client gets a key event if and only if nothing was
\* done for the last of its keysyms, whatever reloads interrupt the event and
\* whatever was done for the others.
LastKeysymDecides ==
  [][pc = "lookup" /\ pc' = "idle" => (sent' <=> 1 \notin acted)]_vars

\* What is left of a key event: the keysyms, what handle_keybinding() has yet to
\* do with the first of them, the calls of a reload, and the bindings to scan.
InKey == pc \in {"lookup", "scan", "act", "exit"}
StepsLeft == [lookup |-> 3, scan |-> 2, act |-> 1, exit |-> 0]
CallsLeft ==
  2 * Len(reloads)
    - (IF reloads # <<>> /\ reloads[Len(reloads)].at = "init" THEN 1 ELSE 0)

\* Less is left of it, in this order.
Closer ==
  \/ Len(syms') < Len(syms)
  \/ UNCHANGED syms /\ StepsLeft[pc'] < StepsLeft[pc]
  \/ UNCHANGED <<syms, pc>> /\ CallsLeft' < CallsLeft
  \/ /\ UNCHANGED <<syms, pc, reloads, key_bindings>>
     /\ pos < pos' /\ pos' <= Len(key_bindings) + 1

\* Each step of a key event and of the reload that it asks for brings its end
\* closer, however long rc.xml is and however often it is edited meanwhile, and
\* nothing but a reload that interrupts it puts the end off.
KeyComesCloser ==
  [][InKey /\ InKey' /\ ~disturbed' =>
       IF MainStep \/ ReloadStep
       THEN Closer
       ELSE UNCHANGED <<syms, pc, reloads, key_bindings, pos>>]_vars

\* Each key event is decided: the scan of the bindings ends, and a reload in the
\* middle of the event by the event's own binding returns to it.
KeyIsDecided ==
  pc # "idle" ~> pc \in {"idle", "closed"} \/ disturbed \/ fault # "none"

\* A binding to Exit and a SIGTERM end the session, whatever keys and reloads
\* come in between.
RequestedExitHappens ==
  asked ~> pc = "closed" \/ disturbed \/ fault # "none"

\* What comments of the code claim, and the code does not keep.

\* seat.c: handle_keybinding() "Returns true if the keybinding is handled, false
\* to send it to the client": a key event is acted upon or sent, and not both.
KeyGoesOneWay ==
  [][pc = "lookup" /\ pc' = "idle" => (sent' <=> acted = {})]_vars

\* seat.c: "Some default key bindings, when the rc.xml file can't be parsed": at
\* each key, the configuration is one that was parsed, or none.
DefaultsWhenUnreadable ==
  pc = "idle" /\ reloads = <<>> /\ fault = "none" => config # "freed"

\* The same comment: the server runs without a configuration.
RunsWithoutConfig == fault # "null_config"

\* rc.xml: the binding of W-c has the action Reconfigure, and no other: a
\* binding ends the session only if Exit is among its actions.
ReconfigureKeepsSession ==
  [][pc = "exit" /\ pc' = "lookup" /\ terminated' /\ ~terminated
       => "Exit" \in key_binding.actions]_vars
=============================================================================
