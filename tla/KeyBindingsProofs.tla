---------------------------- MODULE KeyBindingsProofs ----------------------------
(***************************************************************************)
(* Proofs about KeyBindings, for every set of configuration files and of   *)
(* key events: the type invariant, that a key takes the last of the        *)
(* bindings that rc.xml gives it, that a freed configuration is read or    *)
(* freed again only after a failed or an interrupting reload, but for the  *)
(* binding that reloads, and what becomes of a key event.                  *)
(*                                                                         *)
(* None of them is inductive.  The second needs what the scan has passed   *)
(* by, and that no reload goes on under a scan that is not stale; the      *)
(* third, where a freed configuration can be met at all while nothing has  *)
(* gone wrong: between the two halves of a reload, and at the end; the     *)
(* last, what the callback is going to answer for the keysym it is at.     *)
(***************************************************************************)
EXTENDS KeyBindings, TLAPS

\* The calls that read a binding.
Reading == pc \in {"scan", "act", "exit"}

\* What the scan of key_bindings has established.
ScanInv ==
  /\ Reading /\ (\E i \in DOMAIN reloads : reloads[i].at = "init") => stale
  /\ Reading /\ ~stale => config = "live"
  /\ pc = "scan" /\ ~stale =>
       /\ pos <= Len(key_bindings) + 1
       /\ \A i \in 1 .. pos - 1 : ~Matches(key_bindings[i])
  /\ LastKeybindWins

\* Where a freed configuration is, while nothing has gone wrong.
ReloadInv ==
  /\ FaultNeedsBadReload
  /\ ~disturbed =>
       /\ Len(reloads) <= 1
       /\ reloads # <<>> => pc \in {"idle", "exit"}
       /\ config = "freed" =>
            \/ reloads # <<>> /\ reloads[1].at = "init"
            \/ reloads = <<>> /\ pc \in {"closing", "closed"}
       /\ pc \in {"scan", "act"} => ~stale
       /\ pc = "exit" /\ (reloads # <<>> \/ stale) =>
            "Reconfigure" \in key_binding.actions

----------------------------------------------------------------------------
\* The list of bindings is the file backwards.
LEMMA LinkedFacts ==
  ASSUME NEW file \in RcFile
  PROVE  /\ Len(file) \in Nat
         /\ DOMAIN file = 1 .. Len(file)
         /\ Len(Linked(file)) = Len(file)
         /\ DOMAIN Linked(file) = 1 .. Len(file)
         /\ \A i \in 1 .. Len(file) :
              Linked(file)[i] = Binding(file[Len(file) + 1 - i])
<1>1. file \in Seq([key : Seq(STRING), actions : SUBSET STRING])
  BY RcFileAssumption
<1>2. Len(file) \in Nat /\ DOMAIN file = 1 .. Len(file)
  BY <1>1
<1> DEFINE S == {Binding(file[j]) : j \in DOMAIN file}
           B(i) == Binding(file[Len(file) + 1 - i])
<1>3. \A i \in 1 .. Len(file) : B(i) \in S
  <2>1. \A i \in 1 .. Len(file) : Len(file) + 1 - i \in DOMAIN file
    BY <1>2
  <2> QED BY <2>1
<1> HIDE DEF S, B
<1>4. [i \in 1 .. Len(file) |-> B(i)] \in Seq(S)
  BY <1>2, <1>3
<1>5. Len([i \in 1 .. Len(file) |-> B(i)]) = Len(file)
  BY <1>2, <1>4
<1> QED BY <1>2, <1>5 DEF Linked, B

\* What the head of the queue of keysyms leaves.
LEMMA TailType ==
  ASSUME NEW s \in Seq(STRING), s # <<>> PROVE Tail(s) \in Seq(STRING)
OBVIOUS

\* Sequences of any kind of element.
LEMMA SequenceFacts ==
  ASSUME NEW R, NEW s \in Seq(R)
  PROVE  /\ <<>> \in Seq(R)
         /\ s # <<>> => s[Len(s)] \in R
         /\ \A r \in R : <<r>> \in Seq(R)
OBVIOUS

\* One more reload, or one fewer, or one that goes on.
LEMMA ReloadsType ==
  ASSUME NEW s \in Seq(Reload)
  PROVE  /\ \A sig \in {"SIGUSR1", "SIGUSR2"} :
              Append(s, [by |-> sig, at |-> "deinit"]) \in Seq(Reload)
         /\ s # <<>> =>
              /\ SubSeq(s, 1, Len(s) - 1) \in Seq(Reload)
              /\ [s EXCEPT ![Len(s)].at = "init"] \in Seq(Reload)
<1>1. \A sig \in {"SIGUSR1", "SIGUSR2"} : [by |-> sig, at |-> "deinit"] \in Reload
  BY DEF Reload
<1>2. ASSUME s # <<>> PROVE [s[Len(s)] EXCEPT !.at = "init"] \in Reload
  <2>1. s[Len(s)] \in Reload
    BY <1>2, SequenceFacts
  <2> QED BY <2>1 DEF Reload
<1>3. [s EXCEPT ![Len(s)].at = "init"]
        = [s EXCEPT ![Len(s)] = [s[Len(s)] EXCEPT !.at = "init"]]
  OBVIOUS
<1>4. s # <<>> => SubSeq(s, 1, Len(s) - 1) \in Seq(Reload)
  OBVIOUS
<1>5. s # <<>> => [s EXCEPT ![Len(s)].at = "init"] \in Seq(Reload)
  BY <1>2, <1>3
<1> QED BY <1>1, <1>4, <1>5

\* A reload keeps the configuration and its list in step.
LEMMA InitConfigType ==
  ASSUME TypeOK, InitConfig
  PROVE  /\ loaded' \in RcFile \cup {Unreadable}
         /\ config' \in {"null", "live", "freed"}
         /\ loaded' = Unreadable <=> config' = "null"
         /\ key_bindings' = IF config' = "null" THEN <<>> ELSE Linked(loaded')
BY UnreadableAssumption DEF TypeOK, InitConfig, configVars

\* A shutdown keeps them in step as well.
LEMMA DeinitConfigType ==
  ASSUME TypeOK, DeinitConfig, UNCHANGED <<loaded, key_bindings>>
  PROVE  /\ loaded' \in RcFile \cup {Unreadable}
         /\ config' \in {"null", "live", "freed"}
         /\ loaded' = Unreadable <=> config' = "null"
         /\ key_bindings' = IF config' = "null" THEN <<>> ELSE Linked(loaded')
         /\ fault' \in FaultSite \cup {"none"}
BY DEF TypeOK, DeinitConfig, Undefined, FaultSite

\* Every step keeps the types.
LEMMA TypeStep == TypeOK /\ [Next]_vars => TypeOK'
<1> SUFFICES ASSUME TypeOK, [Next]_vars PROVE TypeOK'
  OBVIOUS
<1>a. ActUpon => acted' \subseteq Nat
  <2>1. \A s \in Seq(STRING) : Len(s) \in Nat
    OBVIOUS
  <2>2. Len(syms) \in Nat
    BY <2>1 DEF TypeOK
  <2> QED BY <2>2 DEF ActUpon, TypeOK
<1>1. CASE SwitchVT
  BY <1>1, <1>a, TailType DEF SwitchVT, Return, TypeOK, configVars, endVars
<1>2. CASE LookupDefault
  BY <1>2, <1>a, TailType DEF LookupDefault, Lookup, Return, TypeOK, configVars
<1>3. CASE LookupBegin
  BY <1>3 DEF LookupBegin, Lookup, Undefined, TypeOK, FaultSite, configVars, endVars
<1>4. CASE Scan
  <2>1. pos + 1 \in Nat \ {0}
    BY DEF TypeOK
  <2>2. CASE pos > Len(key_bindings) /\ Return(FALSE)
             /\ UNCHANGED <<pos, key_binding, acted>>
    BY <1>4, <2>2, TailType DEF Scan, Return, TypeOK, configVars, endVars
  <2>3. CASE /\ pc' = "act" /\ ActUpon
             /\ UNCHANGED <<syms, handled, pos>>
    BY <1>4, <1>a, <2>3 DEF Scan, TypeOK, configVars, endVars
  <2>4. CASE ScanNext /\ UNCHANGED <<pc, syms, handled, key_binding, acted>>
    BY <1>4, <2>1, <2>4 DEF Scan, ScanNext, TypeOK, configVars, endVars
  <2> QED BY <1>4, <2>2, <2>3, <2>4 DEF Scan
<1>5. CASE ScanFreed
  <2>1. fault' \in FaultSite \cup {"none"}
    BY <1>5 DEF ScanFreed, Undefined, TypeOK, FaultSite
  <2>2. CASE Return(FALSE) /\ UNCHANGED acted
    BY <1>5, <2>1, <2>2, TailType DEF ScanFreed, Return, TypeOK, configVars, endVars
  <2>3. CASE pc' = "act" /\ ActUpon /\ UNCHANGED <<syms, handled>>
    BY <1>5, <1>a, <2>1, <2>3 DEF ScanFreed, TypeOK, configVars, endVars
  <2>4. CASE UNCHANGED <<pc, syms, handled, acted>>
    BY <1>5, <2>1, <2>4 DEF ScanFreed, TypeOK, configVars, endVars
  <2> QED BY <1>5, <2>2, <2>3, <2>4 DEF ScanFreed
<1>6. CASE Act
  <2>1. reloads' \in Seq(Reload)
    <3>1. \/ reloads' = <<[by |-> "key", at |-> "deinit"]>>
          \/ reloads' = <<>>
      BY <1>6 DEF Act
    <3>2. [by |-> "key", at |-> "deinit"] \in Reload
      BY DEF Reload
    <3>3. reloads \in Seq(Reload)
      BY DEF TypeOK
    <3> QED BY <3>1, <3>2, <3>3, SequenceFacts
  <2> QED BY <1>6, <2>1 DEF Act, Undefined, TypeOK, FaultSite, configVars, eventVars, endVars
<1>7. CASE ActExit
  <2>1. terminated' \in BOOLEAN /\ asked' \in BOOLEAN
    BY <1>7 DEF ActExit, TypeOK
  <2>2. fault' \in FaultSite \cup {"none"}
    BY <1>7 DEF ActExit, Undefined, TypeOK, FaultSite
  <2> QED BY <1>7, <2>1, <2>2, TailType
          DEF ActExit, ReturnAfterActions, Return, TypeOK, configVars
<1>8. CASE KeyDone
  <2>1. modifiers' = {} /\ pos' = 1 /\ acted' = {}
    BY <1>8, Zenon DEF KeyDone
  <2>2. modifiers' \subseteq STRING /\ pos' \in Nat \ {0} /\ acted' \subseteq Nat
    BY <2>1
  <2>3. stale' \in BOOLEAN /\ sent' \in BOOLEAN
    BY <1>8, Zenon DEF KeyDone
  <2> QED BY <1>8, <2>2, <2>3 DEF KeyDone, TypeOK, configVars, endVars
<1>9. CASE Shutdown
  BY <1>9, DeinitConfigType DEF Shutdown, TypeOK, eventVars, endVars
<1>10. CASE Close
  BY <1>10 DEF Close, TypeOK, configVars, eventVars, endVars
<1>11. CASE ReloadDeinit
  BY <1>11, DeinitConfigType, ReloadsType DEF ReloadDeinit, TypeOK, eventVars, endVars
<1>12. CASE ReloadInit
  <2>1. disturbed' \in BOOLEAN
    BY <1>12 DEF ReloadInit, TypeOK
  <2>2. reloads' \in Seq(Reload)
    BY <1>12, ReloadsType DEF ReloadInit, TypeOK
  <2> QED BY <1>12, <2>1, <2>2, InitConfigType DEF ReloadInit, TypeOK, eventVars, endVars
<1>13. ASSUME NEW file \in RcFile \cup {Unreadable}, EditFile(file) PROVE TypeOK'
  BY <1>13 DEF EditFile, TypeOK, configVars, eventVars, endVars
<1>14. ASSUME NEW sig \in Signal, RaiseSignal(sig) PROVE TypeOK'
  <2>1. reloads' \in Seq(Reload)
    BY <1>14, ReloadsType, SignalAssumption DEF RaiseSignal, TypeOK
  <2>2. disturbed' \in BOOLEAN
    BY <1>14 DEF RaiseSignal
  <2> QED BY <1>14, <2>1, <2>2
          DEF RaiseSignal, TypeOK, configVars, eventVars, endVars
<1>15. ASSUME NEW event \in KeyEvent, KeyboardHandleKey(event) PROVE TypeOK'
  BY <1>15, KeyEventAssumption DEF KeyboardHandleKey, TypeOK, configVars, endVars
<1>16. ASSUME NEW device, NewInput(device) PROVE TypeOK'
  BY <1>16 DEF NewInput, Undefined, TypeOK, FaultSite, configVars, eventVars, endVars
<1>17. CASE Terminate
  BY <1>17 DEF Terminate, TypeOK, configVars, eventVars
<1>18. CASE UNCHANGED vars
  BY <1>18 DEF vars, TypeOK, configVars, eventVars, endVars
<1> QED BY <1>1, <1>2, <1>3, <1>4, <1>5, <1>6, <1>7, <1>8, <1>9, <1>10, <1>11,
          <1>12, <1>13, <1>14, <1>15, <1>16, <1>17, <1>18
        DEF Next, MainStep, ReloadStep

\* The configuration, its list and the stack of reloads are what they are meant to
\* be: among others, the list is that of the file that was loaded.
THEOREM TypeCorrect == Spec => []TypeOK
<1>1. Init => TypeOK
  <2> SUFFICES ASSUME Init PROVE TypeOK
    OBVIOUS
  <2>1. /\ rcFile \in RcFile \cup {Unreadable}
        /\ loaded \in RcFile \cup {Unreadable}
        /\ config \in {"null", "live", "freed"}
        /\ loaded = Unreadable <=> config = "null"
    BY DEF Init
  <2>2. key_bindings = IF config = "null" THEN <<>> ELSE Linked(loaded)
    BY DEF Init
  <2>3. reloads \in Seq(Reload)
    BY DEF Init
  <2>4. syms \in Seq(STRING) /\ modifiers \subseteq STRING /\ pos \in Nat \ {0}
    BY DEF Init
  <2> QED BY <2>1, <2>2, <2>3, <2>4 DEF Init, TypeOK
<1> QED BY <1>1, TypeStep, PTL DEF Spec

----------------------------------------------------------------------------
\* The scan meets the bindings of the file from the last to the first.
LEMMA MatchIsLast ==
  ASSUME TypeOK, ScanInv, pc = "scan", ~stale,
         pos <= Len(key_bindings), Matches(key_bindings[pos])
  PROVE  \E i \in DOMAIN loaded :
           /\ key_bindings[pos] = Binding(loaded[i])
           /\ \A j \in DOMAIN loaded : j > i => ~Matches(Binding(loaded[j]))
<1>1. config = "live" /\ loaded \in RcFile /\ key_bindings = Linked(loaded)
  BY DEF ScanInv, Reading, TypeOK
<1> DEFINE n == Len(loaded)
<1>2. /\ n \in Nat /\ Len(key_bindings) = n /\ DOMAIN loaded = 1 .. n
      /\ \A k \in 1 .. n : key_bindings[k] = Binding(loaded[n + 1 - k])
  BY <1>1, LinkedFacts
<1>3. pos \in 1 .. n
  BY <1>2 DEF TypeOK
<1>4. n + 1 - pos \in DOMAIN loaded /\ key_bindings[pos] = Binding(loaded[n + 1 - pos])
  BY <1>2, <1>3
<1>5. ASSUME NEW j \in DOMAIN loaded, j > n + 1 - pos
      PROVE  ~Matches(Binding(loaded[j]))
  <2>1. n + 1 - j \in 1 .. pos - 1 /\ n + 1 - j \in 1 .. n /\ n + 1 - (n + 1 - j) = j
    BY <1>2, <1>3, <1>5
  <2>2. key_bindings[n + 1 - j] = Binding(loaded[j])
    BY <1>2, <2>1
  <2>3. ~Matches(key_bindings[n + 1 - j])
    BY <2>1 DEF ScanInv
  <2> QED BY <2>2, <2>3
<1> QED BY <1>4, <1>5

\* Steps that touch neither the configuration nor what a key event has looked up.
LEMMA ScanStutter ==
  ASSUME ScanInv,
         UNCHANGED <<configVars, reloads, syms, modifiers, pos, key_binding, stale>>,
         Reading' => pc' = pc
  PROVE  ScanInv'
<1>1. \A b : Matches(b)' <=> Matches(b)
  BY DEF Matches
<1> QED BY <1>1 DEF ScanInv, LastKeybindWins, Reading, configVars, Matches

\* Every step keeps what the scan has established.
LEMMA ScanStep == TypeOK /\ ScanInv /\ [Next]_vars => ScanInv'
<1> SUFFICES ASSUME TypeOK, ScanInv, [Next]_vars PROVE ScanInv'
  OBVIOUS
<1>1. ASSUME ~Reading' PROVE ScanInv'
  BY <1>1 DEF ScanInv, LastKeybindWins, Reading
<1>2. CASE LookupBegin
  <2>1. pc' = "scan" /\ pos' = 1 /\ reloads' = <<>> /\ config # "null"
        /\ stale' = (config = "freed") /\ UNCHANGED configVars
    BY <1>2 DEF LookupBegin, Lookup, OnMainThread
  <2>2. config \in {"null", "live", "freed"} /\ Len(key_bindings) \in Nat
    <3>1. config # "null" => loaded \in RcFile /\ key_bindings = Linked(loaded)
      BY DEF TypeOK
    <3> QED BY <2>1, <3>1, LinkedFacts DEF TypeOK
  <2>3. DOMAIN reloads' = {}
    BY <2>1
  <2>4. 1 .. pos' - 1 = {}
    BY <2>1
  <2>5. ~stale' => config' = "live"
    BY <2>1, <2>2 DEF configVars
  <2>6. pos' <= Len(key_bindings') + 1 /\ (\A i \in 1 .. pos' - 1 : ~Matches(key_bindings[i])')
    BY <2>1, <2>2, <2>4 DEF configVars
  <2> QED BY <2>1, <2>3, <2>5, <2>6 DEF ScanInv, LastKeybindWins, Reading
<1>3. CASE Scan
  <2>1. pc = "scan" /\ ~stale /\ reloads = <<>>
        /\ UNCHANGED <<configVars, reloads, modifiers, stale>>
    BY <1>3 DEF Scan, OnMainThread
  <2>2. DOMAIN reloads' = {}
    BY <2>1
  <2>3. CASE Return(FALSE)
    BY <1>1, <2>3 DEF Return, Reading
  <2>4. CASE /\ pos <= Len(key_bindings) /\ Matches(key_bindings[pos])
             /\ pc' = "act" /\ key_binding' = key_bindings[pos]
             /\ UNCHANGED <<syms, handled, pos>>
    <3>1. \A b : Matches(b)' <=> Matches(b)
      BY <2>1, <2>4 DEF Matches
    <3>2. LastKeybindWins'
      BY <2>1, <2>4, <3>1, MatchIsLast DEF LastKeybindWins, configVars, Matches
    <3> QED BY <2>1, <2>2, <2>4, <3>2 DEF ScanInv, Reading, configVars
  <2>5. CASE /\ pos <= Len(key_bindings) /\ ~Matches(key_bindings[pos])
             /\ ScanNext
             /\ UNCHANGED <<pc, syms, handled, key_binding, acted>>
    <3>1. \A b : Matches(b)' <=> Matches(b)
      BY <2>1, <2>5 DEF Matches
    <3>2. config = "live" /\ Len(key_bindings) \in Nat /\ pos \in Nat \ {0}
      BY <2>1, LinkedFacts DEF TypeOK, ScanInv, Reading
    <3>3. pos' <= Len(key_bindings) + 1
      BY <2>5, <3>2 DEF ScanNext
    <3>4. \A i \in 1 .. pos' - 1 : ~Matches(key_bindings[i])
      BY <2>1, <2>5, <3>2 DEF ScanNext, ScanInv
    <3> QED BY <2>1, <2>2, <2>5, <3>1, <3>2, <3>3, <3>4
            DEF ScanInv, LastKeybindWins, Reading, configVars
  <2> QED BY <1>3, <2>3, <2>4, <2>5 DEF Scan
<1>4. CASE ScanFreed
  BY <1>4 DEF ScanFreed, ScanInv, LastKeybindWins, Reading
<1>5. CASE Act
  <2>1. pc = "act" /\ pc' = "exit"
        /\ UNCHANGED <<configVars, syms, modifiers, key_binding, stale>>
    BY <1>5 DEF Act, eventVars
  <2>2. \A i \in DOMAIN reloads' : reloads'[i].at # "init"
    <3>1. \/ reloads' = <<[by |-> "key", at |-> "deinit"]>>
          \/ reloads' = <<>>
      BY <1>5 DEF Act
    <3> QED BY <3>1
  <2>3. LastKeybindWins'
    BY <2>1 DEF ScanInv, LastKeybindWins, configVars, Matches
  <2> QED BY <2>1, <2>2, <2>3 DEF ScanInv, Reading, configVars
<1>6. CASE ReloadDeinit
  <2>1. Reading' => stale'
    BY <1>6 DEF ReloadDeinit, Reading
  <2> QED BY <2>1 DEF ScanInv, LastKeybindWins, Reading
<1>7. CASE ReloadInit
  <2>1. Reading => stale
    BY <1>7 DEF ReloadInit, ScanInv, TypeOK
  <2>2. Reading' => stale'
    BY <1>7, <2>1 DEF ReloadInit, Reading
  <2> QED BY <2>2 DEF ScanInv, LastKeybindWins, Reading
<1>8. ASSUME NEW sig, RaiseSignal(sig) PROVE ScanInv'
  <2>1. UNCHANGED <<configVars, pc, syms, modifiers, pos, key_binding, stale>>
    BY <1>8 DEF RaiseSignal, eventVars
  <2>2. \A i \in DOMAIN reloads' :
          reloads'[i].at = "init" => i \in DOMAIN reloads /\ reloads[i].at = "init"
    BY <1>8 DEF RaiseSignal, TypeOK
  <2>3. \A b : Matches(b)' <=> Matches(b)
    BY <2>1 DEF Matches
  <2> QED BY <2>1, <2>2, <2>3 DEF ScanInv, LastKeybindWins, Reading, configVars
<1>9. CASE SwitchVT \/ LookupDefault \/ ActExit \/ KeyDone \/ Shutdown \/ Close
  BY <1>1, <1>9
  DEF SwitchVT, LookupDefault, ActExit, ReturnAfterActions, KeyDone, Shutdown,
      Close, Return, Reading
<1>10. ASSUME NEW event, KeyboardHandleKey(event) PROVE ScanInv'
  BY <1>1, <1>10 DEF KeyboardHandleKey, Reading
<1>11. ASSUME NEW file, EditFile(file) PROVE ScanInv'
  BY <1>11, ScanStutter DEF EditFile, eventVars
<1>12. ASSUME NEW device, NewInput(device) PROVE ScanInv'
  BY <1>12, ScanStutter DEF NewInput, eventVars
<1>13. CASE Terminate
  BY <1>13, ScanStutter DEF Terminate, eventVars
<1>14. CASE UNCHANGED vars
  BY <1>14, ScanStutter DEF vars, eventVars
<1> QED BY <1>2, <1>3, <1>4, <1>5, <1>6, <1>7, <1>8, <1>9, <1>10, <1>11, <1>12,
          <1>13, <1>14
        DEF Next, MainStep, ReloadStep

\* A key takes the last binding that rc.xml has for it, however long the file and
\* whatever reloads come between and under the key events.
THEOREM LastKeybind == Spec => []LastKeybindWins
<1>1. Init => ScanInv
  BY DEF Init, ScanInv, LastKeybindWins, Reading
<1>2. ScanInv => LastKeybindWins
  BY DEF ScanInv
<1> QED BY <1>1, <1>2, ScanStep, TypeCorrect, PTL DEF Spec

----------------------------------------------------------------------------
\* What the guards of a step that may fault leave, while nothing has gone wrong.
LEMMA ReloadStutter ==
  ASSUME ReloadInv,
         UNCHANGED <<config, reloads, disturbed, fault>>,
         \/ UNCHANGED pc
         \/ reloads = <<>> /\ pc \notin {"closing", "closed"},
         Running \/ UNCHANGED key_binding,
         pc' \in {"scan", "act", "exit"} => UNCHANGED <<pc, stale, key_binding>>
  PROVE  ReloadInv'
BY DEF ReloadInv, FaultNeedsBadReload, Running

\* Every step keeps a freed configuration where it may be.
LEMMA ReloadInvStep == TypeOK /\ ReloadInv /\ [Next]_vars => ReloadInv'
<1> SUFFICES ASSUME TypeOK, ReloadInv, [Next]_vars PROVE ReloadInv'
  OBVIOUS
<1>1. CASE SwitchVT \/ LookupDefault \/ KeyDone
  BY <1>1, ReloadStutter
  DEF SwitchVT, LookupDefault, Lookup, KeyDone, OnMainThread, Running, Return, configVars
<1>2. CASE LookupBegin
  BY <1>2
  DEF LookupBegin, Lookup, OnMainThread, Running, Undefined, configVars, ReloadInv,
      FaultNeedsBadReload, TypeOK
<1>3. CASE Scan
  BY <1>3 DEF Scan, OnMainThread, Running, Return, configVars, ReloadInv, FaultNeedsBadReload
<1>4. CASE ScanFreed
  BY <1>4 DEF ScanFreed, OnMainThread, Running, configVars, ReloadInv, FaultNeedsBadReload
<1>5. CASE Act
  <2>1. reloads' = <<>>
        \/ (reloads' # <<>> /\ Len(reloads') = 1 /\ reloads'[1].at = "deinit")
    BY <1>5 DEF Act
  <2> QED BY <1>5, <2>1
          DEF Act, ActionsRead, OnMainThread, Running, Undefined, configVars, eventVars,
              ReloadInv, FaultNeedsBadReload
<1>6. CASE ActExit
  BY <1>6
  DEF ActExit, ReturnAfterActions, Return, OnMainThread, Running, Undefined,
      configVars, ReloadInv, FaultNeedsBadReload
<1>7. CASE Shutdown
  BY <1>7
  DEF Shutdown, OnMainThread, Running, DeinitConfig, Undefined, ReloadInv, FaultNeedsBadReload
<1>8. CASE Close
  BY <1>8 DEF Close, OnMainThread, Running, configVars, ReloadInv, FaultNeedsBadReload
<1>9. CASE ReloadDeinit
  <2>1. Len(reloads) \in Nat /\ reloads # <<>> /\ Len(reloads') = Len(reloads)
        /\ reloads' # <<>> /\ reloads[Len(reloads)].at = "deinit"
    BY <1>9 DEF ReloadDeinit, TypeOK
  <2>2. Len(reloads) <= 1 => reloads[1].at = "deinit" /\ reloads'[1].at = "init"
    BY <1>9, <2>1 DEF ReloadDeinit, TypeOK, Reload
  <2>3. ~disturbed => config # "freed" /\ pc \in {"idle", "exit"}
    BY <2>1, <2>2 DEF ReloadInv
  <2>4. ~disturbed => UNCHANGED fault
    BY <1>9, <2>3 DEF ReloadDeinit, Running, DeinitConfig, Undefined, ReloadInv, FaultNeedsBadReload
  <2> QED BY <1>9, <2>1, <2>2, <2>3, <2>4
          DEF ReloadDeinit, Running, eventVars, ReloadInv, FaultNeedsBadReload
<1>10. CASE ReloadInit
  <2>1. Len(reloads) <= 1 => reloads' = <<>>
    BY <1>10 DEF ReloadInit, TypeOK
  <2>2. ~disturbed' => ~disturbed /\ (rcFile = Unreadable => config = "null")
    BY <1>10 DEF ReloadInit
  <2>3. ~disturbed' => config' # "freed"
    BY <1>10, <2>2 DEF ReloadInit, InitConfig, configVars
  <2>4. Len(<<>>) = 0
    OBVIOUS
  <2> QED BY <1>10, <2>1, <2>2, <2>3, <2>4
          DEF ReloadInit, Running, eventVars, ReloadInv, FaultNeedsBadReload
<1>11. ASSUME NEW sig, RaiseSignal(sig) PROVE ReloadInv'
  <2>1. ~disturbed' => ~disturbed /\ reloads = <<>> /\ pc = "idle"
    BY <1>11 DEF RaiseSignal
  <2>2. reloads = <<>> => reloads' # <<>> /\ Len(reloads') = 1
    BY <1>11 DEF RaiseSignal
  <2> QED BY <1>11, <2>1, <2>2
          DEF RaiseSignal, Running, ReloadInv, FaultNeedsBadReload, configVars, eventVars
<1>12. ASSUME NEW event, KeyboardHandleKey(event) PROVE ReloadInv'
  BY <1>12, ReloadStutter DEF KeyboardHandleKey, OnMainThread, Running, configVars
<1>13. ASSUME NEW device, NewInput(device) PROVE ReloadInv'
  BY <1>13
  DEF NewInput, OnMainThread, Running, Undefined, configVars, eventVars, ReloadInv, FaultNeedsBadReload
<1>14. ASSUME NEW file, EditFile(file) PROVE ReloadInv'
  BY <1>14, ReloadStutter DEF EditFile, Running, configVars, eventVars
<1>15. CASE Terminate
  BY <1>15, ReloadStutter DEF Terminate, Running, configVars, eventVars
<1>16. CASE UNCHANGED vars
  BY <1>16, ReloadStutter DEF vars, configVars, eventVars
<1> QED BY <1>1, <1>2, <1>3, <1>4, <1>5, <1>6, <1>7, <1>8, <1>9, <1>10, <1>11,
          <1>12, <1>13, <1>14, <1>15, <1>16
        DEF Next, MainStep, ReloadStep

\* It holds always.
LEMMA ReloadInvAlways == Spec => []ReloadInv
<1>1. Init => ReloadInv
  BY DEF Init, ReloadInv, FaultNeedsBadReload
<1> QED BY <1>1, ReloadInvStep, TypeCorrect, PTL DEF Spec

\* No order of keys, signals between callbacks, edits of rc.xml that leave it
\* legible, new devices and the end of the session reads freed memory or frees it
\* again, but for the look of a binding to Reconfigure at its own next action.
THEOREM ReloadSafe == Spec => []FaultNeedsBadReload
<1>1. ReloadInv => FaultNeedsBadReload
  BY DEF ReloadInv
<1> QED BY <1>1, ReloadInvAlways, PTL
----------------------------------------------------------------------------
\* Where a key event is, in terms of what was done about it: the keysyms that were
\* acted upon are ones already looked up, or the one that is being acted upon, and
\* the answer is that of the last.
OneWayInv ==
  /\ pc = "lookup" /\ syms = <<>> => (handled <=> 1 \in acted)
  /\ pc \in {"lookup", "scan"} => \A n \in acted : n > Len(syms)
  /\ pc \in {"act", "exit"} => Len(syms) \in acted /\ \A n \in acted : n >= Len(syms)
  /\ pc = "idle" => acted = {}

\* Lengths of the queue of keysyms.
LEMMA TailLength ==
  ASSUME NEW s \in Seq(STRING), s # <<>>
  PROVE  /\ Len(s) \in Nat \ {0} /\ Len(Tail(s)) = Len(s) - 1
         /\ Tail(s) = <<>> <=> Len(s) = 1
<1>1. Len(s) \in Nat \ {0} /\ Len(Tail(s)) = Len(s) - 1 /\ Tail(s) \in Seq(STRING)
  OBVIOUS
<1>2. \A t \in Seq(STRING) : t = <<>> <=> Len(t) = 0
  OBVIOUS
<1>3. Tail(s) = <<>> <=> Len(Tail(s)) = 0
  BY <1>1, <1>2
<1> QED BY <1>1, <1>3

\* Returning TRUE for a keysym that was acted upon.
LEMMA ReturnActed ==
  ASSUME TypeOK, syms # <<>>, Return(TRUE),
         acted' \subseteq Nat, \A n \in acted' : n >= Len(syms), Len(syms) \in acted'
  PROVE  OneWayInv'
<1>1. /\ Len(syms) \in Nat \ {0} /\ Len(syms') = Len(syms) - 1
      /\ syms' = <<>> <=> Len(syms) = 1
  BY TailLength DEF Return, TypeOK
<1>2. \A n \in acted' : n > Len(syms')
  BY <1>1
<1> QED BY <1>1, <1>2 DEF Return, OneWayInv

\* Returning FALSE for a keysym for which nothing was done.
LEMMA ReturnUnacted ==
  ASSUME TypeOK, syms # <<>>, Return(FALSE), UNCHANGED acted,
         \A n \in acted : n > Len(syms)
  PROVE  OneWayInv'
<1>1. /\ Len(syms) \in Nat \ {0} /\ Len(syms') = Len(syms) - 1
      /\ syms' = <<>> <=> Len(syms) = 1
  BY TailLength DEF Return, TypeOK
<1>2. \A n \in acted' : n > Len(syms')
  BY <1>1 DEF TypeOK
<1>3. Len(syms) = 1 => 1 \notin acted'
  BY <1>1
<1> QED BY <1>1, <1>2, <1>3 DEF Return, OneWayInv

\* Acting upon the first of the keysyms that are left.
LEMMA ActUponFirst ==
  ASSUME TypeOK, syms # <<>>, ActUpon, \A n \in acted : n > Len(syms)
  PROVE  acted' \subseteq Nat /\ Len(syms) \in acted' /\ \A n \in acted' : n >= Len(syms)
<1>1. Len(syms) \in Nat \ {0}
  BY TailLength DEF TypeOK
<1> DEFINE m == Len(syms)
<1>2. acted' = acted \cup {m} /\ acted \subseteq Nat
  BY DEF ActUpon, TypeOK
<1> HIDE DEF m
<1>3. m \in Nat /\ \A n \in acted : n > m
  BY <1>1 DEF m
<1>4. acted' \subseteq Nat /\ m \in acted' /\ \A n \in acted' : n >= m
  BY <1>2, <1>3
<1> QED BY <1>4 DEF m

\* Every step keeps it.
LEMMA OneWayStep ==
  ASSUME TypeOK, OneWayInv, [Next]_vars
  PROVE  OneWayInv'
<1>1. CASE SwitchVT
  <2>1. pc = "lookup" /\ syms # <<>> /\ Return(TRUE) /\ ActUpon
    BY <1>1 DEF SwitchVT
  <2>2. \A n \in acted : n > Len(syms)
    BY <2>1 DEF OneWayInv
  <2> QED BY <2>1, <2>2, ActUponFirst, ReturnActed
<1>2. CASE LookupDefault
  <2>1. PICK actions : /\ Return(actions # {})
                       /\ IF actions # {} THEN ActUpon ELSE UNCHANGED acted
    BY <1>2 DEF LookupDefault
  <2>2. syms # <<>> /\ \A n \in acted : n > Len(syms)
    BY <1>2 DEF LookupDefault, Lookup, OneWayInv
  <2>3. CASE actions # {}
    <3>1. Return(TRUE) /\ ActUpon
      BY <2>1, <2>3
    <3> QED BY <2>2, <3>1, ActUponFirst, ReturnActed
  <2>4. CASE actions = {}
    <3>1. Return(FALSE) /\ UNCHANGED acted
      BY <2>1, <2>4
    <3> QED BY <2>2, <3>1, ReturnUnacted
  <2> QED BY <2>3, <2>4
<1>3. CASE LookupBegin
  BY <1>3 DEF LookupBegin, Lookup, OneWayInv
<1>4. CASE Scan \/ ScanFreed
  <2>1. pc = "scan" /\ syms # <<>> /\ \A n \in acted : n > Len(syms)
    BY <1>4 DEF Scan, ScanFreed, OneWayInv, TypeOK
  <2>2. CASE Return(FALSE) /\ UNCHANGED acted
    BY <2>1, <2>2, ReturnUnacted
  <2>3. CASE pc' = "act" /\ ActUpon /\ UNCHANGED syms
    BY <2>1, <2>3, ActUponFirst DEF OneWayInv
  <2>4. CASE UNCHANGED <<pc, syms, handled, acted>>
    BY <2>4 DEF OneWayInv
  <2> QED BY <1>4, <2>2, <2>3, <2>4 DEF Scan, ScanFreed
<1>5. CASE Act
  BY <1>5 DEF Act, OneWayInv, eventVars
<1>6. CASE ActExit
  <2>1. pc = "exit" /\ syms # <<>> /\ Return(TRUE) /\ UNCHANGED acted
    BY <1>6 DEF ActExit, ReturnAfterActions, TypeOK
  <2>2. Len(syms) \in acted /\ \A n \in acted : n >= Len(syms)
    BY <2>1 DEF OneWayInv
  <2> QED BY <2>1, <2>2, ReturnActed DEF TypeOK
<1>7. CASE KeyDone \/ Shutdown \/ Close
  BY <1>7 DEF KeyDone, Shutdown, Close, OneWayInv
<1>8. ASSUME NEW event \in KeyEvent, KeyboardHandleKey(event) PROVE OneWayInv'
  <2>1. pc' = "lookup" /\ acted' = {} /\ handled' = FALSE
    BY <1>8 DEF KeyboardHandleKey, OneWayInv
  <2> QED BY <2>1 DEF OneWayInv
<1>9. CASE UNCHANGED <<pc, syms, handled, acted>>
  BY <1>9 DEF OneWayInv
<1> QED
  BY <1>1, <1>2, <1>3, <1>4, <1>5, <1>6, <1>7, <1>8, <1>9
  DEF Next, MainStep, ReloadStep, ReloadDeinit, ReloadInit, EditFile, RaiseSignal,
      NewInput, Terminate, vars, eventVars

\* The client gets a key event if and only if nothing was done for the last of its
\* keysyms, for every rc.xml and every keymap, in whatever way reloads interrupt
\* the event.
THEOREM OneWay == Spec => LastKeysymDecides
<1>1. Init => OneWayInv
  BY DEF Init, OneWayInv
<1>2. TypeOK /\ OneWayInv /\ [Next]_vars => OneWayInv'
  BY OneWayStep
<1>3. OneWayInv /\ [Next]_vars
        => [pc = "lookup" /\ pc' = "idle" => (sent' <=> 1 \notin acted)]_vars
  BY DEF OneWayInv, Next, MainStep, ReloadStep, SwitchVT, LookupDefault, LookupBegin,
         Lookup, Scan, ScanFreed, Act, ActExit, ReturnAfterActions, Return, KeyDone,
         Shutdown, Close, ReloadDeinit, ReloadInit, EditFile, RaiseSignal,
         KeyboardHandleKey, NewInput, Terminate
<1> QED BY <1>1, <1>2, <1>3, TypeCorrect, PTL DEF Spec, LastKeysymDecides

----------------------------------------------------------------------------
\* Returning for a keysym leaves fewer.
LEMMA ReturnCloser ==
  ASSUME TypeOK, syms # <<>>, NEW answer, Return(answer)
  PROVE  Closer
<1>1. syms \in Seq(STRING)
  BY DEF TypeOK
<1>2. Len(Tail(syms)) < Len(syms)
  BY <1>1
<1> QED BY <1>2 DEF Return, Closer

\* Each call of a reload leaves fewer to make.
LEMMA ReloadCloser ==
  ASSUME TypeOK, ReloadStep, UNCHANGED <<syms, pc>>
  PROVE  Closer
<1>1. reloads \in Seq(Reload) /\ reloads # <<>>
  BY DEF TypeOK, ReloadStep, ReloadDeinit, ReloadInit
<1> DEFINE n == Len(reloads)
<1>2. n \in Nat \ {0}
  BY <1>1
<1>3. CASE ReloadDeinit
  <2>1. reloads' # <<>> /\ Len(reloads') = n /\ reloads'[n].at = "init"
    BY <1>1, <1>2, <1>3 DEF ReloadDeinit, Reload
  <2>2. CallsLeft = 2 * n /\ CallsLeft' = 2 * n - 1
    BY <1>1, <1>2, <1>3, <2>1 DEF ReloadDeinit, CallsLeft
  <2> QED BY <1>2, <2>2 DEF Closer
<1>4. CASE ReloadInit
  <2>1. Len(reloads') = n - 1
    <3>1. reloads' = SubSeq(reloads, 1, n - 1) /\ n - 1 \in 0 .. Len(reloads)
      BY <1>2, <1>4 DEF ReloadInit
    <3> HIDE DEF n
    <3> QED BY <1>1, <1>2, <3>1
  <2>2. CallsLeft = 2 * n - 1
    BY <1>1, <1>2, <1>4 DEF ReloadInit, CallsLeft
  <2>3. CallsLeft' \in {2 * (n - 1), 2 * (n - 1) - 1}
    BY <1>2, <2>1 DEF CallsLeft
  <2> QED BY <1>2, <2>2, <2>3 DEF Closer
<1> QED BY <1>3, <1>4 DEF ReloadStep

\* Each step of a key event that goes on brings its end closer.
LEMMA MainCloser ==
  ASSUME TypeOK, MainStep, InKey, InKey'
  PROVE  Closer
<1>1. CASE SwitchVT
  BY <1>1, ReturnCloser DEF SwitchVT
<1>2. CASE LookupDefault
  <2>1. syms # <<>> /\ \E answer : Return(answer)
    BY <1>2 DEF LookupDefault, Lookup
  <2> QED BY <2>1, ReturnCloser
<1>3. CASE LookupBegin
  BY <1>3 DEF LookupBegin, Lookup, Closer, StepsLeft
<1>4. CASE Scan
  <2>1. pc = "scan" /\ syms # <<>> /\ UNCHANGED <<reloads, key_bindings>>
    BY <1>4 DEF Scan, TypeOK, configVars
  <2>2. CASE Return(FALSE)
    BY <2>1, <2>2, ReturnCloser
  <2>3. CASE pc' = "act" /\ UNCHANGED syms
    BY <2>1, <2>3 DEF Closer, StepsLeft
  <2>4. CASE pos <= Len(key_bindings) /\ ScanNext /\ UNCHANGED <<pc, syms>>
    <3>1. Len(key_bindings) \in Nat /\ pos \in Nat
      <4>1. key_bindings = <<>> \/ (loaded \in RcFile /\ key_bindings = Linked(loaded))
        BY DEF TypeOK
      <4>2. Len(<<>>) = 0
        OBVIOUS
      <4> QED BY <4>1, <4>2, LinkedFacts DEF TypeOK
    <3> QED BY <2>1, <2>4, <3>1 DEF ScanNext, Closer
  <2> QED BY <1>4, <2>2, <2>3, <2>4 DEF Scan
<1>5. CASE Act
  BY <1>5 DEF Act, Closer, StepsLeft, eventVars
<1>6. CASE ActExit
  <2>1. syms # <<>> /\ Return(TRUE)
    BY <1>6 DEF ActExit, ReturnAfterActions, TypeOK
  <2> QED BY <2>1, ReturnCloser
<1>7. CASE KeyDone \/ Shutdown \/ Close
  BY <1>7 DEF KeyDone, Shutdown, Close, InKey
<1> QED BY <1>1, <1>2, <1>3, <1>4, <1>5, <1>6, <1>7 DEF MainStep

\* Each step of a key event and of its own reload is one of finitely many, for
\* every rc.xml: all that liveness takes, but for the scheduling.
THEOREM KeyCloser == Spec => KeyComesCloser
<1> DEFINE A == InKey /\ InKey' /\ ~disturbed' =>
                  IF MainStep \/ ReloadStep
                  THEN Closer
                  ELSE UNCHANGED <<syms, pc, reloads, key_bindings, pos>>
<1>1. TypeOK /\ ReloadInv /\ [Next]_vars => [A]_vars
  <2> SUFFICES ASSUME TypeOK, ReloadInv, Next, InKey, InKey', ~disturbed'
               PROVE  IF MainStep \/ ReloadStep
                      THEN Closer
                      ELSE UNCHANGED <<syms, pc, reloads, key_bindings, pos>>
    OBVIOUS
  <2>1. CASE MainStep
    BY <2>1, MainCloser
  <2>2. CASE ReloadStep
    BY <2>2, ReloadCloser DEF ReloadStep, ReloadDeinit, ReloadInit, eventVars
  <2>3. CASE ~(MainStep \/ ReloadStep)
    <3>1. ASSUME ScanFreed PROVE FALSE
      <4>1. pc = "scan" /\ stale /\ ~disturbed
        BY <3>1 DEF ScanFreed
      <4> QED BY <4>1 DEF ReloadInv
    <3>2. ASSUME NEW sig, RaiseSignal(sig) PROVE FALSE
      BY <3>2 DEF RaiseSignal, InKey, TypeOK
    <3>3. ASSUME NEW file, EditFile(file) PROVE UNCHANGED <<syms, pc, reloads, key_bindings, pos>>
      BY <3>3 DEF EditFile, configVars, eventVars
    <3>4. CASE Terminate
      BY <2>3, <3>4 DEF Terminate, configVars, eventVars
    <3>5. ASSUME NEW event, KeyboardHandleKey(event) PROVE FALSE
      BY <3>5 DEF KeyboardHandleKey, InKey
    <3>6. ASSUME NEW device, NewInput(device) PROVE FALSE
      BY <3>6 DEF NewInput, InKey
    <3> QED BY <2>3, <3>1, <3>2, <3>3, <3>4, <3>5, <3>6 DEF Next
  <2> QED BY <2>1, <2>2, <2>3
<1> QED BY <1>1, ReloadInvAlways, TypeCorrect, PTL DEF Spec, KeyComesCloser

=============================================================================
