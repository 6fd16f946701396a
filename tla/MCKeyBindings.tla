---------------------------- MODULE MCKeyBindings ----------------------------
(***************************************************************************)
(* Small instances of KeyBindings for TLC: configuration files like        *)
(* data/rc.xml, with keys bound twice, and the keys that may be pressed.   *)
(***************************************************************************)
EXTENDS KeyBindings

NextWindowFile ==
  <<[key |-> <<"A", "Tab">>, actions |-> {"NextWindow", "Unshade"}],
    [key |-> <<"W", "c">>, actions |-> {"Reconfigure"}],
    [key |-> <<"C", "Escape">>, actions |-> {"Exit"}]>>

TwiceBoundFile ==
  <<[key |-> <<"W", "c">>, actions |-> {"Exit"}],
    [key |-> <<"A", "Tab">>, actions |-> {"Unshade"}],
    [key |-> <<"A", "Tab">>, actions |-> {"NextWindow", "Reconfigure"}]>>

Files == {NextWindowFile, TwiceBoundFile}
OneFile == {NextWindowFile}

Release == [syms |-> << >>, mods |-> {}]

\* A key of a keymap that gives it two keysyms, the first of which is bound.
TwoSymbolKey == {[syms |-> <<"Tab", "c">>, mods |-> {"Alt"}]}

SingleKeys ==
  {Release,
   [syms |-> <<"c">>, mods |-> {"Logo"}],
   [syms |-> <<"Escape">>, mods |-> {"Ctrl"}],
   [syms |-> <<"XF86Switch_VT">>, mods |-> {"Ctrl", "Alt"}]}

Keys == SingleKeys \cup TwoSymbolKey

ReconfigureKey == {[syms |-> <<"c">>, mods |-> {"Logo"}]}

NoSignal == {}
TwoSignals == {"SIGUSR1", "SIGUSR2"}
=============================================================================
