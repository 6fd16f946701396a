--------------------------- MODULE LifecycleProofs ---------------------------
(***************************************************************************)
(* A server that started ends in order, proved for any set of inhibitors.  *)
(*                                                                         *)
(* What main() will do if nothing fails is known from the beginning: Life. *)
(* The steps of it that are done determine which objects are there and     *)
(* which listeners are linked, and each step fits those before it: it      *)
(* makes, links, unlinks and destroys only what it may.                    *)
(***************************************************************************)
EXTENDS Lifecycle, SequenceTheorems, FiniteSetTheorems, TLAPS

Inhibit == INSTANCE IdleInhibitProofs WITH fault <- idleFault

\* All that a server does that starts, runs and ends.
Start == CreateBackend \o StartServer
Life == Start \o Terminate

\* What is left of it.
Rest == IF phase \in {"starting", "running"} THEN todo \o Terminate ELSE todo

StartOperation == {"make", "try", "link", "socket", "start"}
EndOperation == {"unlink", "destroy", "clients"}

\* What a set of steps D makes, links, unlinks and destroys.
OnOf(ops, D) == {s.on : s \in {t \in D : t.op \in ops}}
Made(D) == OnOf({"make", "try"}, D)
Destroyed(D) == UNION {With(x) : x \in OnOf({"destroy"}, D)}
There(D) == Made(D) \ Destroyed(D)
Linked(D) == OnOf({"link"}, D) \ OnOf({"unlink"}, D)

\* The step s may be taken after the steps D.
Fit(s, D) ==
  /\ s.op \in {"make", "try"} => s.on \in Object \ Destroyed(D)
  /\ s.op = "link" =>
       /\ s.on \in Listener \ OnOf({"unlink"}, D)
       /\ Owner[s.on] \in There(D)
  /\ s.op = "start" => DeviceNeeds \cup {"backend"} \subseteq There(D)
  /\ s.op = "unlink" => s.on \in Linked(D) /\ Owner[s.on] \in There(D)
  /\ s.op = "destroy" =>
       /\ s.on \in There(D)
       /\ \A l \in Linked(D) : Owner[l] \notin With(s.on)
       /\ s.on = "backend" => {"scene", "wb_seat"} \subseteq There(D)

\* The program p may be carried out after the steps D.
Before(p, i) == {p[k] : k \in 1 .. i - 1}
Fits(p, D) == \A i \in DOMAIN p : Fit(p[i], D \cup Before(p, i))

----------------------------------------------------------------------------
\* The inductive invariant, in parts.

\* Which operations are left in each phase.  Clients come after the start.
PhaseInv ==
  /\ failed => ~mapped
  /\ phase \in {"starting", "running"} => ~failed
  /\ phase = "starting" => \A s \in Range(todo) : s.op \in StartOperation
  /\ phase = "stopping" => \A s \in Range(todo) : s.op \in EndOperation
  /\ phase \in {"running", "exited"} => todo = <<>>

\* The steps D are done, and the rest fits them.  An rc.xml that cannot be read
\* leaves no configuration.
LifeInv(D) ==
  /\ Fits(Rest, D)
  /\ D \cup Range(Rest) = Range(Life)
  /\ linked = Linked(D)
  /\ live \subseteq There(D) /\ There(D) \ live \subseteq {"config"}
  /\ phase \in {"starting", "running"} => \A s \in D : s.op \in StartOperation
  /\ Step("clients", None) \in D => inhibitors = {} /\ ~mapped

Inv ==
  /\ TypeOK
  /\ PhaseInv
  /\ OrderlyEnd
  /\ Inhibit!InhibitInv
  /\ ~failed => \E D \in SUBSET StepRecord : LifeInv(D)

----------------------------------------------------------------------------
\* Programs.

\* One program after another.
LEMMA RangeConcat ==
  ASSUME NEW S, NEW p \in Seq(S), NEW q \in Seq(S)
  PROVE  p \o q \in Seq(S) /\ Range(p \o q) = Range(p) \cup Range(q)
<1>1. /\ Len(p) \in Nat /\ DOMAIN p = 1 .. Len(p)
      /\ Len(q) \in Nat /\ DOMAIN q = 1 .. Len(q)
  BY LenProperties
<1>2. /\ p \o q \in Seq(S)
      /\ DOMAIN (p \o q) = 1 .. Len(p) + Len(q)
      /\ \A i \in 1 .. Len(p) + Len(q) :
           (p \o q)[i] = IF i <= Len(p) THEN p[i] ELSE q[i - Len(p)]
  BY ConcatProperties, LenProperties
<1>3. ASSUME NEW i \in DOMAIN (p \o q) PROVE (p \o q)[i] \in Range(p) \cup Range(q)
  <2>1. CASE i <= Len(p)
    BY <2>1, <1>1, <1>2 DEF Range
  <2>2. CASE i > Len(p)
    <3>1. i - Len(p) \in DOMAIN q /\ (p \o q)[i] = q[i - Len(p)]
      BY <2>2, <1>1, <1>2
    <3> QED BY <3>1 DEF Range
  <2> QED BY <2>1, <2>2, <1>1, <1>2
<1>4. ASSUME NEW i \in DOMAIN p PROVE p[i] \in Range(p \o q)
  <2>1. i \in DOMAIN (p \o q) /\ (p \o q)[i] = p[i]
    BY <1>1, <1>2
  <2> QED BY <2>1 DEF Range
<1>5. ASSUME NEW i \in DOMAIN q PROVE q[i] \in Range(p \o q)
  <2>1. i + Len(p) \in DOMAIN (p \o q) /\ (p \o q)[i + Len(p)] = q[i]
    BY <1>1, <1>2
  <2> QED BY <2>1 DEF Range
<1> QED BY <1>2, <1>3, <1>4, <1>5 DEF Range

\* A program that fits may be followed by one that fits what it leaves.
LEMMA FitsConcat ==
  ASSUME NEW p \in Seq(StepRecord), NEW q \in Seq(StepRecord), NEW D,
         Fits(p, D), Fits(q, D \cup Range(p))
  PROVE  Fits(p \o q, D)
<1> DEFINE r == p \o q
           n == Len(p)
<1>1. /\ n \in Nat /\ DOMAIN p = 1 .. n
      /\ Len(q) \in Nat /\ DOMAIN q = 1 .. Len(q)
      /\ DOMAIN r = 1 .. n + Len(q)
      /\ \A i \in 1 .. n + Len(q) : r[i] = IF i <= n THEN p[i] ELSE q[i - n]
  BY ConcatProperties, LenProperties
<1>2. SUFFICES ASSUME NEW i \in DOMAIN r PROVE Fit(r[i], D \cup Before(r, i))
  BY DEF Fits
<1> HIDE DEF r, n
<1>3. CASE i <= n
  <2>1. r[i] = p[i] /\ i \in DOMAIN p
    BY <1>1, <1>3
  <2>2. Before(r, i) = Before(p, i)
    <3>1. \A k \in 1 .. i - 1 : r[k] = p[k]
      BY <1>1, <1>3
    <3> QED BY <3>1 DEF Before
  <2> QED BY <2>1, <2>2 DEF Fits
<1>4. CASE i > n
  <2> DEFINE j == i - n
  <2>1. r[i] = q[j] /\ j \in DOMAIN q
    BY <1>1, <1>4
  <2>2. Before(r, i) = Range(p) \cup Before(q, j)
    <3>1. ASSUME NEW k \in 1 .. i - 1 PROVE r[k] \in Range(p) \cup Before(q, j)
      <4>1. CASE k <= n
        BY <4>1, <1>1 DEF Range
      <4>2. CASE k > n
        <5>1. k - n \in 1 .. j - 1 /\ r[k] = q[k - n]
          BY <4>2, <1>1
        <5> QED BY <5>1 DEF Before
      <4> QED BY <4>1, <4>2, <1>1
    <3>2. ASSUME NEW k \in DOMAIN p PROVE p[k] \in Before(r, i)
      <4>1. k \in 1 .. i - 1 /\ r[k] = p[k]
        BY <1>1, <1>4
      <4> QED BY <4>1 DEF Before
    <3>3. ASSUME NEW k \in 1 .. j - 1 PROVE q[k] \in Before(r, i)
      <4>1. k + n \in 1 .. i - 1 /\ r[k + n] = q[k]
        BY <1>1, <1>4
      <4>2. \A m \in 1 .. i - 1 : r[m] \in Before(r, i)
        BY ONLY DEF Before
      <4> QED BY ONLY <4>1, <4>2
    <3>4. Before(r, i) \subseteq Range(p) \cup Before(q, j)
      BY ONLY <3>1 DEF Before
    <3>5. Range(p) \subseteq Before(r, i)
      BY ONLY <3>2 DEF Range
    <3>6. Before(q, j) \subseteq Before(r, i)
      BY ONLY <3>3 DEF Before
    <3> QED BY ONLY <3>4, <3>5, <3>6
  <2>3. Fit(q[j], (D \cup Range(p)) \cup Before(q, j))
    BY <2>1 DEF Fits
  <2>4. D \cup Before(r, i) = (D \cup Range(p)) \cup Before(q, j)
    BY <2>2
  <2> QED BY <2>1, <2>3, <2>4
<1> QED BY <1>1, <1>3, <1>4

\* The first step of a program that fits may be taken, and the others fit then.
LEMMA FitsTail ==
  ASSUME NEW p \in Seq(StepRecord), p # <<>>, NEW D, Fits(p, D)
  PROVE  /\ Head(p) \in StepRecord /\ Tail(p) \in Seq(StepRecord)
         /\ Fit(Head(p), D)
         /\ Fits(Tail(p), D \cup {Head(p)})
         /\ Range(p) = {Head(p)} \cup Range(Tail(p))
<1>1. /\ Len(p) \in Nat /\ Len(p) > 0 /\ DOMAIN p = 1 .. Len(p)
      /\ Head(p) = p[1] /\ Head(p) \in StepRecord
  BY LenProperties, HeadTailProperties, EmptySeq
<1>2. /\ Tail(p) \in Seq(StepRecord)
      /\ DOMAIN Tail(p) = 1 .. Len(p) - 1
      /\ \A i \in 1 .. Len(p) - 1 : Tail(p)[i] = p[i + 1]
  BY HeadTailProperties, LenProperties
<1>3. Fit(Head(p), D)
  <2>1. Before(p, 1) = {}
    BY DEF Before
  <2>2. Fit(p[1], D \cup Before(p, 1))
    BY <1>1 DEF Fits
  <2> QED BY <1>1, <2>1, <2>2
<1>4. ASSUME NEW i \in DOMAIN Tail(p)
      PROVE  Fit(Tail(p)[i], (D \cup {Head(p)}) \cup Before(Tail(p), i))
  <2>1. i + 1 \in DOMAIN p /\ Tail(p)[i] = p[i + 1]
    BY <1>1, <1>2
  <2>2. Before(p, i + 1) = {Head(p)} \cup Before(Tail(p), i)
    <3>1. ASSUME NEW k \in 1 .. i PROVE p[k] \in {Head(p)} \cup Before(Tail(p), i)
      <4>1. CASE k = 1
        BY <4>1, <1>1
      <4>2. CASE k > 1
        <5>1. k - 1 \in 1 .. i - 1 /\ Tail(p)[k - 1] = p[k]
          BY <4>2, <1>1, <1>2
        <5> QED BY <5>1 DEF Before
      <4> QED BY <4>1, <4>2
    <3>2. ASSUME NEW k \in 1 .. i - 1 PROVE Tail(p)[k] \in Before(p, i + 1)
      <4>1. k + 1 \in 1 .. i /\ Tail(p)[k] = p[k + 1]
        BY <1>1, <1>2
      <4> QED BY <4>1 DEF Before
    <3>3. p[1] \in Before(p, i + 1)
      BY <1>1, <1>2 DEF Before
    <3>4. i + 1 - 1 = i
      BY <1>1, <1>2
    <3>5. Before(p, i + 1) \subseteq {Head(p)} \cup Before(Tail(p), i)
      <4>1. Before(p, i + 1) = {p[k] : k \in 1 .. i}
        BY ONLY <3>4 DEF Before
      <4> QED BY ONLY <3>1, <4>1
    <3>6. Before(Tail(p), i) \subseteq Before(p, i + 1)
      BY ONLY <3>2 DEF Before
    <3> QED BY ONLY <3>3, <3>5, <3>6, <1>1
  <2>3. Fit(p[i + 1], D \cup Before(p, i + 1))
    <3>1. \A j \in DOMAIN p : Fit(p[j], D \cup Before(p, j))
      BY DEF Fits
    <3> QED BY ONLY <2>1, <3>1
  <2>4. D \cup Before(p, i + 1) = (D \cup {Head(p)}) \cup Before(Tail(p), i)
    BY <2>2
  <2> QED BY <2>1, <2>3, <2>4
<1>5. Range(p) = {Head(p)} \cup Range(Tail(p))
  <2>1. ASSUME NEW i \in DOMAIN p PROVE p[i] \in {Head(p)} \cup Range(Tail(p))
    <3>1. CASE i = 1
      BY <3>1, <1>1
    <3>2. CASE i > 1
      <4>1. i - 1 \in DOMAIN Tail(p) /\ Tail(p)[i - 1] = p[i]
        BY <3>2, <1>1, <1>2
      <4> QED BY <4>1 DEF Range
    <3> QED BY <3>1, <3>2, <1>1
  <2>2. ASSUME NEW i \in DOMAIN Tail(p) PROVE Tail(p)[i] \in Range(p)
    <3>1. i + 1 \in DOMAIN p /\ Tail(p)[i] = p[i + 1]
      BY <1>1, <1>2
    <3> QED BY <3>1 DEF Range
  <2>3. Head(p) \in Range(p)
    <3>1. 1 \in DOMAIN p
      BY <1>1
    <3> QED BY <3>1, <1>1 DEF Range
  <2>4. Range(p) = {p[i] : i \in DOMAIN p}
    BY DEF Range
  <2>5. Range(Tail(p)) = {Tail(p)[i] : i \in DOMAIN Tail(p)}
    BY DEF Range
  <2> QED BY <2>1, <2>2, <2>3, <2>4, <2>5
<1> QED BY <1>1, <1>2, <1>3, <1>4, <1>5 DEF Fits

\* The steps of one kind.
LEMMA StepsAreProgram ==
  ASSUME NEW op \in Operation,
         NEW xs \in Seq(Object \cup Listener \cup {None})
  PROVE  /\ Steps(op, xs) \in Seq(StepRecord)
         /\ DOMAIN Steps(op, xs) = DOMAIN xs
         /\ \A i \in DOMAIN xs : Steps(op, xs)[i] = Step(op, xs[i])
         /\ Range(Steps(op, xs)) = {Step(op, x) : x \in Range(xs)}
<1>1. Len(xs) \in Nat /\ DOMAIN xs = 1 .. Len(xs)
  BY LenProperties
<1>2. \A i \in 1 .. Len(xs) : Step(op, xs[i]) \in StepRecord
  BY <1>1, ElementOfSeq DEF Step, StepRecord
<1>3. [i \in 1 .. Len(xs) |-> Step(op, xs[i])] \in Seq(StepRecord)
  <2>1. [i \in 1 .. Len(xs) |-> Step(op, xs[i])] \in [1 .. Len(xs) -> StepRecord]
    BY <1>2
  <2> QED BY <2>1, <1>1, SeqDef
<1> QED BY <1>1, <1>3 DEF Steps, Range

----------------------------------------------------------------------------
\* The start.

\* Nothing is unlinked or destroyed yet.
Clean(D) == OnOf({"unlink"}, D) = {} /\ Destroyed(D) = {}

\* The program p may be carried out after the steps D, makes the objects M and
\* links the listeners K.
Builds(p, D, M, K) ==
  /\ p \in Seq(StepRecord) /\ Fits(p, D)
  /\ \A s \in Range(p) : s.op \in StartOperation
  /\ Clean(D \cup Range(p))
  /\ Made(D \cup Range(p)) = Made(D) \cup M
  /\ OnOf({"link"}, D \cup Range(p)) = OnOf({"link"}, D) \cup K

\* What two sets of steps do, they do together.
LEMMA OnOfUnion ==
  \A D, E :
    /\ OnOf({"link"}, D \cup E) = OnOf({"link"}, D) \cup OnOf({"link"}, E)
    /\ OnOf({"unlink"}, D \cup E) = OnOf({"unlink"}, D) \cup OnOf({"unlink"}, E)
    /\ Made(D \cup E) = Made(D) \cup Made(E)
    /\ Destroyed(D \cup E) = Destroyed(D) \cup Destroyed(E)
    /\ Clean(D) /\ Clean(E) => Clean(D \cup E)
<1> TAKE D, E
<1>1. \A ops : OnOf(ops, D \cup E) = OnOf(ops, D) \cup OnOf(ops, E)
  BY DEF OnOf
<1>2. Destroyed(D \cup E) = Destroyed(D) \cup Destroyed(E)
  BY <1>1 DEF Destroyed
<1> QED BY <1>1, <1>2 DEF Made, Clean

\* What the steps of one kind are carried out on.
LEMMA OnOfSteps ==
  ASSUME NEW op \in Operation,
         NEW xs \in Seq(Object \cup Listener \cup {None})
  PROVE  \A ops : OnOf(ops, Range(Steps(op, xs))) = IF op \in ops THEN Range(xs) ELSE {}
<1>1. Range(Steps(op, xs)) = {Step(op, x) : x \in Range(xs)}
  BY StepsAreProgram
<1>2. \A x : Step(op, x).op = op /\ Step(op, x).on = x
  BY DEF Step
<1> QED BY <1>1, <1>2 DEF OnOf

\* Of the steps of a program, some come before another.
LEMMA BeforeInRange ==
  ASSUME NEW S, NEW p \in Seq(S), NEW i \in DOMAIN p
  PROVE  Before(p, i) \subseteq Range(p)
<1>1. \A k \in 1 .. i - 1 : k \in DOMAIN p
  BY LenProperties
<1> QED BY <1>1 DEF Before, Range

\* The empty program.
LEMMA BuildsNothing ==
  ASSUME NEW D, Clean(D)
  PROVE  Builds(<<>>, D, {}, {})
<1>1. <<>> \in Seq(StepRecord) /\ Range(<<>>) = {} /\ D \cup {} = D
  BY DEF Range
<1> QED BY <1>1 DEF Builds, Fits

\* One program after another.
LEMMA BuildsBoth ==
  ASSUME NEW p, NEW q, NEW D, NEW M, NEW N, NEW K, NEW L,
         Builds(p, D, M, K), Builds(q, D \cup Range(p), N, L)
  PROVE  Builds(p \o q, D, M \cup N, K \cup L)
<1>1. /\ p \o q \in Seq(StepRecord)
      /\ Range(p \o q) = Range(p) \cup Range(q)
      /\ D \cup Range(p \o q) = (D \cup Range(p)) \cup Range(q)
  BY RangeConcat DEF Builds
<1>2. Fits(p \o q, D)
  BY FitsConcat DEF Builds
<1> QED BY <1>1, <1>2 DEF Builds

\* Steps that make or try to make objects.
LEMMA BuildsMake ==
  ASSUME NEW op \in {"make", "try"}, NEW xs \in Seq(Object), NEW D, Clean(D)
  PROVE  Builds(Steps(op, xs), D, Range(xs), {})
<1> DEFINE p == Steps(op, xs)
<1>0. xs \in Seq(Object \cup Listener \cup {None}) /\ op \in Operation
  BY SeqMonotonic DEF Operation
<1>1. /\ p \in Seq(StepRecord) /\ DOMAIN p = DOMAIN xs
      /\ \A i \in DOMAIN xs : p[i] = Step(op, xs[i])
  BY <1>0, StepsAreProgram
<1>2. \A ops : OnOf(ops, Range(p)) = IF op \in ops THEN Range(xs) ELSE {}
  BY <1>0, OnOfSteps
<1> HIDE DEF p
<1>3. Made(Range(p)) = Range(xs) /\ OnOf({"link"}, Range(p)) = {} /\ Clean(Range(p))
  BY <1>2 DEF Made, Clean, Destroyed
<1>4. ASSUME NEW i \in DOMAIN p PROVE Fit(p[i], D \cup Before(p, i))
  <2>1. p[i].op = op /\ p[i].on \in Object
    BY <1>1, LenProperties DEF Step
  <2>2. Destroyed(D \cup Before(p, i)) = {}
    BY <1>1, <1>3, BeforeInRange DEF Clean, Destroyed, OnOf
  <2> QED BY <2>1, <2>2 DEF Fit
<1>5. \A s \in Range(p) : s.op \in StartOperation
  BY <1>1 DEF Range, Step, StartOperation
<1>6. Fits(p, D)
  BY <1>4 DEF Fits
<1>7. /\ Made(D \cup Range(p)) = Made(D) \cup Made(Range(p))
      /\ OnOf({"link"}, D \cup Range(p)) = OnOf({"link"}, D) \cup OnOf({"link"}, Range(p))
  BY OnOfUnion
<1>8. Clean(D \cup Range(p))
  BY <1>3, OnOfUnion
<1>9. Builds(p, D, Range(xs), {})
  BY <1>1, <1>3, <1>5, <1>6, <1>7, <1>8 DEF Builds
<1> QED BY <1>9 DEF p

\* Steps that link listeners, whose owners are made.
LEMMA BuildsLink ==
  ASSUME NEW ls \in Seq(Listener), NEW D, Clean(D),
         \A l \in Range(ls) : Owner[l] \in Made(D)
  PROVE  Builds(Link(ls), D, {}, Range(ls))
<1> DEFINE p == Link(ls)
<1>0. ls \in Seq(Object \cup Listener \cup {None}) /\ "link" \in Operation
  BY SeqMonotonic DEF Operation
<1>1. /\ p \in Seq(StepRecord) /\ DOMAIN p = DOMAIN ls
      /\ \A i \in DOMAIN ls : p[i] = Step("link", ls[i])
  BY <1>0, StepsAreProgram DEF Link
<1>2. \A ops : OnOf(ops, Range(p)) = IF "link" \in ops THEN Range(ls) ELSE {}
  BY <1>0, OnOfSteps DEF Link
<1> HIDE DEF p
<1>3. Made(Range(p)) = {} /\ OnOf({"link"}, Range(p)) = Range(ls) /\ Clean(Range(p))
  BY <1>2 DEF Made, Clean, Destroyed
<1>4. ASSUME NEW i \in DOMAIN p PROVE Fit(p[i], D \cup Before(p, i))
  <2>1. p[i].op = "link" /\ p[i].on \in Listener /\ p[i].on \in Range(ls)
    BY <1>1, LenProperties DEF Step, Range
  <2>2. Clean(D \cup Before(p, i))
    <3>1. Clean(Before(p, i))
      BY <1>1, <1>3, BeforeInRange DEF Clean, Destroyed, OnOf
    <3> QED BY <3>1, OnOfUnion
  <2>3. Made(D \cup Before(p, i)) = Made(D) \cup Made(Before(p, i))
    BY OnOfUnion
  <2>4. Owner[p[i].on] \in There(D \cup Before(p, i))
    BY <2>1, <2>2, <2>3 DEF There, Clean
  <2> QED BY <2>1, <2>2, <2>4 DEF Fit, Clean
<1>5. \A s \in Range(p) : s.op \in StartOperation
  BY <1>1 DEF Range, Step, StartOperation
<1>6. Fits(p, D)
  BY <1>4 DEF Fits
<1>7. /\ Made(D \cup Range(p)) = Made(D) \cup Made(Range(p))
      /\ OnOf({"link"}, D \cup Range(p)) = OnOf({"link"}, D) \cup OnOf({"link"}, Range(p))
  BY OnOfUnion
<1>8. Clean(D \cup Range(p))
  BY <1>3, OnOfUnion
<1>9. Builds(p, D, {}, Range(ls))
  BY <1>1, <1>3, <1>5, <1>6, <1>7, <1>8 DEF Builds
<1> QED BY <1>9 DEF p

\* A program, and objects that are made after it.
LEMMA ThenMake ==
  ASSUME NEW p, NEW D, NEW M, NEW N, NEW K, Builds(p, D, M, K),
         NEW op \in {"make", "try"}, NEW xs \in Seq(Object), N = M \cup Range(xs)
  PROVE  Builds(p \o Steps(op, xs), D, N, K)
<1>1. Clean(D \cup Range(p))
  BY DEF Builds
<1>2. Builds(Steps(op, xs), D \cup Range(p), Range(xs), {})
  BY <1>1, BuildsMake
<1> DEFINE q == Steps(op, xs)
<1> HIDE DEF q
<1>3. Builds(p \o q, D, M \cup Range(xs), K \cup {})
  BY <1>2, BuildsBoth DEF q
<1>4. N = M \cup Range(xs) /\ K = K \cup {}
  OBVIOUS
<1> QED BY <1>3, <1>4 DEF q

\* A program, and listeners that are linked after it.
LEMMA ThenLink ==
  ASSUME NEW p, NEW D, NEW M, NEW K, NEW L, Builds(p, D, M, K),
         NEW ls \in Seq(Listener), L = K \cup Range(ls),
         \A l \in Range(ls) : Owner[l] \in Made(D) \cup M
  PROVE  Builds(p \o Link(ls), D, M, L)
<1>1. Clean(D \cup Range(p)) /\ \A l \in Range(ls) : Owner[l] \in Made(D \cup Range(p))
  BY DEF Builds
<1>2. Builds(Link(ls), D \cup Range(p), {}, Range(ls))
  BY <1>1, BuildsLink
<1> DEFINE q == Link(ls)
<1> HIDE DEF q
<1>3. Builds(p \o q, D, M \cup {}, K \cup Range(ls))
  BY <1>2, BuildsBoth DEF q
<1>4. L = K \cup Range(ls) /\ M = M \cup {}
  OBVIOUS
<1> QED BY <1>3, <1>4 DEF q

\* An object and the listeners that are linked when it is made.
LEMMA BuildsConstruct ==
  ASSUME NEW D, Clean(D), NEW x \in Object, NEW ls \in Seq(Listener),
         NEW K, K = Range(ls),
         \A l \in K : Owner[l] \in Made(D) \cup {x}
  PROVE  Builds(Make(<<x>>) \o Link(ls), D, {x}, K)
<1>1. <<x>> \in Seq(Object) /\ Range(<<x>>) = {x}
  BY DEF Range
<1>2. Builds(Make(<<x>>), D, {x}, {})
  BY <1>1, BuildsMake DEF Make
<1>3. K = {} \cup Range(ls)
  OBVIOUS
<1> QED BY <1>2, <1>3, ThenLink

\* An object and its listeners, after the steps before them.
LEMMA ThenConstruct ==
  ASSUME NEW p, NEW D, NEW M, NEW N, NEW K, NEW L, Builds(p, D, M, K),
         NEW x \in Object, NEW ls \in Seq(Listener),
         N = M \cup {x}, L = K \cup Range(ls),
         \A l \in Range(ls) : Owner[l] \in Made(D) \cup N
  PROVE  Builds(p \o Make(<<x>>) \o Link(ls), D, N, L)
<1>1. <<x>> \in Seq(Object) /\ N = M \cup Range(<<x>>)
  BY DEF Range
<1>2. Builds(p \o Make(<<x>>), D, N, K)
  BY <1>1, ThenMake DEF Make
<1> QED BY <1>2, ThenLink

\* wb_seat_create() links what it may.
LEMMA SeatCreateBuilds ==
  ASSUME NEW D, Clean(D), "backend" \in Made(D)
  PROVE  Builds(SeatCreate, D, {"wb_seat", "seat"}, {"new_input", "selection_requests"})
<1> DEFINE p == Make(<<"wb_seat">>) \o Link(<<"new_input">>)
<1>1. Builds(p, D, {"wb_seat"}, {"new_input"})
  <2>1. /\ "wb_seat" \in Object
        /\ <<"new_input">> \in Seq(Listener) /\ {"new_input"} = Range(<<"new_input">>)
        /\ Owner["new_input"] = "backend"
    BY DEF Object, Listener, Owner, Range
  <2> QED BY <2>1, BuildsConstruct
<1>2. /\ "seat" \in Object /\ <<"selection_requests">> \in Seq(Listener)
      /\ {"wb_seat", "seat"} = {"wb_seat"} \cup {"seat"}
      /\ {"new_input", "selection_requests"}
           = {"new_input"} \cup Range(<<"selection_requests">>)
      /\ \A l \in Range(<<"selection_requests">>) : Owner[l] = "seat"
  BY DEF Object, Globals, Listener, Owner, Range
<1> HIDE DEF p
<1>3. Builds(p \o Make(<<"seat">>) \o Link(<<"selection_requests">>), D,
             {"wb_seat", "seat"}, {"new_input", "selection_requests"})
  BY <1>1, <1>2, ThenConstruct
<1> QED BY <1>3 DEF SeatCreate, p

\* wb_cursor_create() does, after wb_seat_create().
LEMMA CursorCreateBuilds ==
  ASSUME NEW D, Clean(D), "seat" \in Made(D)
  PROVE  Builds(CursorCreate, D, {"cursor"}, {"cursor_events", "pointer_requests"})
<1> DEFINE ls == <<"cursor_events", "pointer_requests">>
<1>1. /\ "cursor" \in Object /\ ls \in Seq(Listener)
      /\ {"cursor_events", "pointer_requests"} = Range(ls)
      /\ Owner["cursor_events"] = "cursor" /\ Owner["pointer_requests"] = "seat"
  BY DEF Object, Listener, Owner, Range
<1> HIDE DEF ls
<1>2. Builds(Make(<<"cursor">>) \o Link(ls), D, {"cursor"},
             {"cursor_events", "pointer_requests"})
  BY <1>1, BuildsConstruct
<1> QED BY <1>2 DEF CursorCreate, ls

\* init_output() does, after wb_create_backend().
LEMMA InitOutputBuilds ==
  ASSUME NEW D, Clean(D), "backend" \in Made(D)
  PROVE  Builds(InitOutput, D, {"output_manager"}, {"new_output", "output_configuration"})
<1> DEFINE p == Link(<<"new_output">>)
<1>1. Builds(p, D, {}, {"new_output"})
  <2>1. /\ <<"new_output">> \in Seq(Listener) /\ Range(<<"new_output">>) = {"new_output"}
        /\ Owner["new_output"] = "backend"
    BY DEF Listener, Owner, Range
  <2>2. Builds(p, D, {}, Range(<<"new_output">>))
    BY <2>1, BuildsLink
  <2> QED BY <2>1, <2>2
<1>2. /\ "output_manager" \in Object /\ <<"output_configuration">> \in Seq(Listener)
      /\ {"output_manager"} = {} \cup {"output_manager"}
      /\ {"new_output", "output_configuration"}
           = {"new_output"} \cup Range(<<"output_configuration">>)
      /\ \A l \in Range(<<"output_configuration">>) : Owner[l] = "output_manager"
  BY DEF Object, Globals, Listener, Owner, Range
<1> HIDE DEF p
<1>3. Builds(p \o Make(<<"output_manager">>) \o Link(<<"output_configuration">>), D,
             {"output_manager"}, {"new_output", "output_configuration"})
  BY <1>1, <1>2, ThenConstruct
<1> QED BY <1>3 DEF InitOutput, p

\* create_idle_manager() does.
LEMMA CreateIdleManagerBuilds ==
  ASSUME NEW D, Clean(D)
  PROVE  Builds(CreateIdleManager, D, {"inhibit_manager"},
                {"new_inhibitor", "destroy_inhibit_manager"})
<1> DEFINE ls == <<"new_inhibitor", "destroy_inhibit_manager">>
<1>1. /\ "inhibit_manager" \in Object /\ ls \in Seq(Listener)
      /\ {"new_inhibitor", "destroy_inhibit_manager"} = Range(ls)
      /\ Owner["new_inhibitor"] = "inhibit_manager"
      /\ Owner["destroy_inhibit_manager"] = "inhibit_manager"
  BY DEF Object, Globals, Listener, Owner, Range
<1> HIDE DEF ls
<1>2. Builds(Make(<<"inhibit_manager">>) \o Link(ls), D, {"inhibit_manager"},
             {"new_inhibitor", "destroy_inhibit_manager"})
  BY <1>1, BuildsConstruct
<1> QED BY <1>2 DEF CreateIdleManager, ls

\* init_xdg_decoration(), init_layer_shell() and init_xdg_shell() do.
LEMMA InitShellsBuilds ==
  ASSUME NEW D, Clean(D)
  PROVE  Builds(InitShells, D, {"decoration_manager", "layer_shell", "xdg_shell"},
                {"new_xdg_decoration", "new_layer_surface", "new_xdg_toplevel",
                 "new_xdg_popup"})
<1> DEFINE p1 == Make(<<"decoration_manager">>) \o Link(<<"new_xdg_decoration">>)
           p2 == p1 \o Make(<<"layer_shell">>) \o Link(<<"new_layer_surface">>)
           ls == <<"new_xdg_toplevel", "new_xdg_popup">>
<1>1. Builds(p1, D, {"decoration_manager"}, {"new_xdg_decoration"})
  <2>1. /\ "decoration_manager" \in Object /\ <<"new_xdg_decoration">> \in Seq(Listener)
        /\ {"new_xdg_decoration"} = Range(<<"new_xdg_decoration">>)
        /\ Owner["new_xdg_decoration"] = "decoration_manager"
    BY DEF Object, Globals, Listener, Owner, Range
  <2> QED BY <2>1, BuildsConstruct
<1> HIDE DEF p1
<1>2. Builds(p2, D, {"decoration_manager", "layer_shell"},
             {"new_xdg_decoration", "new_layer_surface"})
  <2>1. /\ "layer_shell" \in Object /\ <<"new_layer_surface">> \in Seq(Listener)
        /\ {"decoration_manager", "layer_shell"} = {"decoration_manager"} \cup {"layer_shell"}
        /\ {"new_xdg_decoration", "new_layer_surface"}
             = {"new_xdg_decoration"} \cup Range(<<"new_layer_surface">>)
        /\ \A l \in Range(<<"new_layer_surface">>) : Owner[l] = "layer_shell"
    BY DEF Object, Globals, Listener, Owner, Range
  <2> QED BY <1>1, <2>1, ThenConstruct
<1>3. /\ "xdg_shell" \in Object /\ ls \in Seq(Listener)
      /\ {"decoration_manager", "layer_shell", "xdg_shell"}
           = {"decoration_manager", "layer_shell"} \cup {"xdg_shell"}
      /\ {"new_xdg_decoration", "new_layer_surface", "new_xdg_toplevel", "new_xdg_popup"}
           = {"new_xdg_decoration", "new_layer_surface"} \cup Range(ls)
      /\ \A l \in Range(ls) : Owner[l] = "xdg_shell"
  BY DEF Object, Globals, Listener, Owner, Range
<1> HIDE DEF p2, ls
<1>4. Builds(p2 \o Make(<<"xdg_shell">>) \o Link(ls), D,
             {"decoration_manager", "layer_shell", "xdg_shell"},
             {"new_xdg_decoration", "new_layer_surface", "new_xdg_toplevel",
              "new_xdg_popup"})
  BY <1>2, <1>3, ThenConstruct
<1> QED BY <1>4 DEF InitShells, p1, p2, ls

\* wb_create_backend() makes what the seat and the cursor need before them.
LEMMA CreateBackendBuilds ==
  Builds(CreateBackend, {},
         {"display", "backend", "renderer", "allocator", "layout", "wb_seat", "seat",
          "cursor"},
         {"new_input", "selection_requests", "cursor_events", "pointer_requests"})
<1> DEFINE xs == <<"display", "backend", "renderer", "allocator">>
           p1 == Try(xs)
           p2 == p1 \o Make(<<"layout">>)
           p3 == p2 \o SeatCreate
           M1 == {"display", "backend", "renderer", "allocator"}
           M2 == M1 \cup {"layout"}
           M3 == M2 \cup {"wb_seat", "seat"}
           K3 == {"new_input", "selection_requests"}
<1>0. Clean({}) /\ Made({}) = {}
  BY DEF Clean, Made, Destroyed, OnOf
<1>1. Builds(p1, {}, M1, {})
  <2>1. xs \in Seq(Object) /\ Range(xs) = M1
    BY DEF Object, Range
  <2>2. Builds(p1, {}, Range(xs), {})
    BY <1>0, <2>1, BuildsMake DEF Try
  <2> QED BY <2>1, <2>2
<1> HIDE DEF p1, xs
<1>2. Builds(p2, {}, M2, {})
  <2>1. <<"layout">> \in Seq(Object) /\ Range(<<"layout">>) = {"layout"}
    BY DEF Object, Range
  <2> QED BY <1>1, <2>1, ThenMake DEF Make
<1> HIDE DEF p2
<1>3. Builds(p3, {}, M3, {} \cup K3)
  <2>1. Clean({} \cup Range(p2)) /\ "backend" \in Made({} \cup Range(p2))
    BY <1>2 DEF Builds
  <2>2. Builds(SeatCreate, {} \cup Range(p2), {"wb_seat", "seat"}, K3)
    BY <2>1, SeatCreateBuilds
  <2> QED BY <1>2, <2>2, BuildsBoth
<1> HIDE DEF p3
<1>4. Builds(p3 \o CursorCreate, {}, M3 \cup {"cursor"},
             ({} \cup K3) \cup {"cursor_events", "pointer_requests"})
  <2>1. Clean({} \cup Range(p3)) /\ "seat" \in Made({} \cup Range(p3))
    BY <1>3 DEF Builds
  <2> QED BY <1>3, <2>1, CursorCreateBuilds, BuildsBoth
<1>5. /\ M3 \cup {"cursor"}
           = {"display", "backend", "renderer", "allocator", "layout", "wb_seat", "seat",
              "cursor"}
      /\ ({} \cup K3) \cup {"cursor_events", "pointer_requests"}
           = {"new_input", "selection_requests", "cursor_events", "pointer_requests"}
  OBVIOUS
<1> HIDE DEF M3, K3
<1> QED BY <1>4, <1>5 DEF CreateBackend, p3, p2, p1, xs

\* The socket is opened and the backend started when all that new devices use is
\* there.
LEMMA OpenAndStartBuilds ==
  ASSUME NEW D, Clean(D), DeviceNeeds \cup {"backend"} \subseteq Made(D)
  PROVE  Builds(<<Step("socket", None), Step("start", None)>>, D, {}, {})
<1> DEFINE p == <<Step("socket", None), Step("start", None)>>
<1>1. /\ p \in Seq(StepRecord) /\ DOMAIN p = {1, 2}
      /\ p[1] = Step("socket", None) /\ p[2] = Step("start", None)
  BY DEF StepRecord, Step, Operation
<1>2. /\ Step("socket", None).op = "socket" /\ Step("start", None).op = "start"
      /\ Range(p) = {Step("socket", None), Step("start", None)}
  BY DEF Step, Range
<1> HIDE DEF p
<1>3. /\ \A s \in Range(p) : s.op \in {"socket", "start"}
      /\ \A ops : ops \cap {"socket", "start"} = {} => OnOf(ops, Range(p)) = {}
  BY <1>2 DEF OnOf
<1>4. Made(Range(p)) = {} /\ OnOf({"link"}, Range(p)) = {} /\ Clean(Range(p))
  BY <1>3 DEF Made, Clean, Destroyed
<1>5. /\ Made(D \cup Range(p)) = Made(D)
      /\ OnOf({"link"}, D \cup Range(p)) = OnOf({"link"}, D)
      /\ Clean(D \cup Range(p))
  <2>1. /\ Made(D \cup Range(p)) = Made(D) \cup Made(Range(p))
        /\ OnOf({"link"}, D \cup Range(p))
             = OnOf({"link"}, D) \cup OnOf({"link"}, Range(p))
    BY OnOfUnion
  <2>2. Clean(D \cup Range(p))
    BY <1>4, OnOfUnion
  <2> QED BY <1>4, <2>1, <2>2
<1>6. Fit(p[1], D \cup Before(p, 1))
  BY <1>1, <1>2 DEF Fit
<1>7. Fit(p[2], D \cup Before(p, 2))
  <2>1. Clean(Before(p, 2))
    BY <1>1, <1>4, BeforeInRange DEF Clean, Destroyed, OnOf
  <2>2. Clean(D \cup Before(p, 2))
    BY <2>1, OnOfUnion
  <2>3. Made(D \cup Before(p, 2)) = Made(D) \cup Made(Before(p, 2))
    BY OnOfUnion
  <2>4. DeviceNeeds \cup {"backend"} \subseteq There(D \cup Before(p, 2))
    BY <2>2, <2>3 DEF There, Clean
  <2> QED BY <1>1, <1>2, <2>4 DEF Fit
<1>8. Fits(p, D)
  BY <1>1, <1>6, <1>7 DEF Fits
<1>9. Builds(p, D, {}, {})
  BY <1>1, <1>3, <1>5, <1>8 DEF Builds, StartOperation
<1> QED BY <1>9 DEF p

\* wb_start_server() does, after wb_create_backend().
LEMMA StartServerBuilds ==
  ASSUME NEW D, Clean(D), {"backend", "layout", "wb_seat", "seat"} \subseteq Made(D)
  PROVE  Builds(StartServer, D,
                {"config", "output_manager", "scene", "gamma_manager", "inhibit_manager",
                 "decoration_manager", "layer_shell", "xdg_shell"},
                {"new_output", "output_configuration", "gamma_control_set_gamma",
                 "new_inhibitor", "destroy_inhibit_manager", "new_xdg_decoration",
                 "new_layer_surface", "new_xdg_toplevel", "new_xdg_popup"})
<1> DEFINE p1 == Try(<<"config">>)
           p2 == p1 \o InitOutput
           p3 == p2 \o Make(<<"scene">>)
           p4 == p3 \o <<Step("socket", None), Step("start", None)>>
           p5 == p4 \o Make(<<"gamma_manager">>) \o Link(<<"gamma_control_set_gamma">>)
           p6 == p5 \o CreateIdleManager
           M2 == {"config", "output_manager"}
           M3 == M2 \cup {"scene"}
           M5 == M3 \cup {"gamma_manager"}
           M6 == M5 \cup {"inhibit_manager"}
           K2 == {"new_output", "output_configuration"}
           K5 == K2 \cup {"gamma_control_set_gamma"}
           K6 == K5 \cup {"new_inhibitor", "destroy_inhibit_manager"}
<1>1. Builds(p1, D, {"config"}, {})
  <2>1. <<"config">> \in Seq(Object) /\ Range(<<"config">>) = {"config"}
    BY DEF Object, Range
  <2>2. Builds(p1, D, Range(<<"config">>), {})
    BY <2>1, BuildsMake DEF Try
  <2> QED BY <2>1, <2>2
<1> HIDE DEF p1
<1>2. Builds(p2, D, M2, K2)
  <2>1. Clean(D \cup Range(p1)) /\ "backend" \in Made(D \cup Range(p1))
    BY <1>1 DEF Builds
  <2>2. Builds(InitOutput, D \cup Range(p1), {"output_manager"}, K2)
    BY <2>1, InitOutputBuilds
  <2>3. Builds(p2, D, {"config"} \cup {"output_manager"}, {} \cup K2)
    BY <1>1, <2>2, BuildsBoth
  <2>4. {"config"} \cup {"output_manager"} = M2 /\ {} \cup K2 = K2
    OBVIOUS
  <2> QED BY <2>3, <2>4
<1> HIDE DEF p2
<1>3. Builds(p3, D, M3, K2)
  <2>1. <<"scene">> \in Seq(Object) /\ Range(<<"scene">>) = {"scene"}
    BY DEF Object, Range
  <2> QED BY <1>2, <2>1, ThenMake DEF Make
<1> HIDE DEF p3
<1>4. Builds(p4, D, M3, K2)
  <2> DEFINE q == <<Step("socket", None), Step("start", None)>>
             E == D \cup Range(p3)
  <2>1. Clean(E) /\ Made(E) = Made(D) \cup M3
    BY <1>3 DEF Builds
  <2>2. DeviceNeeds \cup {"backend"} \subseteq Made(E)
    BY <2>1 DEF DeviceNeeds
  <2>3. Builds(q, E, {}, {})
    BY <2>1, <2>2, OpenAndStartBuilds
  <2> HIDE DEF q, M3, K2
  <2>4. Builds(p3 \o q, D, M3 \cup {}, K2 \cup {})
    BY <1>3, <2>3, BuildsBoth
  <2>5. M3 \cup {} = M3 /\ K2 \cup {} = K2
    OBVIOUS
  <2> QED BY <2>4, <2>5 DEF q
<1> HIDE DEF p4
<1>5. Builds(p5, D, M5, K5)
  <2>1. /\ "gamma_manager" \in Object /\ <<"gamma_control_set_gamma">> \in Seq(Listener)
        /\ K5 = K2 \cup Range(<<"gamma_control_set_gamma">>)
        /\ \A l \in Range(<<"gamma_control_set_gamma">>) : Owner[l] = "gamma_manager"
    BY DEF Object, Globals, Listener, Owner, Range
  <2>2. \A l \in Range(<<"gamma_control_set_gamma">>) : Owner[l] \in Made(D) \cup M5
    BY <2>1
  <2> HIDE DEF K2, K5
  <2>3. M5 = M3 \cup {"gamma_manager"}
    OBVIOUS
  <2> HIDE DEF M3, M5
  <2> QED BY <1>4, <2>1, <2>2, <2>3, ThenConstruct
<1> HIDE DEF p5
<1>6. Builds(p6, D, M6, K6)
  <2>1. Clean(D \cup Range(p5))
    BY <1>5 DEF Builds
  <2> HIDE DEF M5, K5
  <2> QED BY <1>5, <2>1, CreateIdleManagerBuilds, BuildsBoth
<1> HIDE DEF p6
<1>7. Builds(p6 \o InitShells, D,
             M6 \cup {"decoration_manager", "layer_shell", "xdg_shell"},
             K6 \cup {"new_xdg_decoration", "new_layer_surface", "new_xdg_toplevel",
                      "new_xdg_popup"})
  <2>1. Clean(D \cup Range(p6))
    BY <1>6 DEF Builds
  <2> HIDE DEF M6, K6
  <2> QED BY <1>6, <2>1, InitShellsBuilds, BuildsBoth
<1>8. /\ M6 \cup {"decoration_manager", "layer_shell", "xdg_shell"}
           = {"config", "output_manager", "scene", "gamma_manager", "inhibit_manager",
              "decoration_manager", "layer_shell", "xdg_shell"}
      /\ K6 \cup {"new_xdg_decoration", "new_layer_surface", "new_xdg_toplevel",
                  "new_xdg_popup"}
           = {"new_output", "output_configuration", "gamma_control_set_gamma",
              "new_inhibitor", "destroy_inhibit_manager", "new_xdg_decoration",
              "new_layer_surface", "new_xdg_toplevel", "new_xdg_popup"}
  OBVIOUS
<1> HIDE DEF M6, K6
<1> QED BY <1>7, <1>8 DEF StartServer, p6, p5, p4, p3, p2, p1

\* The whole start may be carried out from nothing, and makes and links all there
\* is.
LEMMA StartBuilds == Builds(Start, {}, Object, Listener)
<1> DEFINE M1 == {"display", "backend", "renderer", "allocator", "layout", "wb_seat",
                  "seat", "cursor"}
           K1 == {"new_input", "selection_requests", "cursor_events",
                  "pointer_requests"}
           M2 == {"config", "output_manager", "scene", "gamma_manager",
                  "inhibit_manager", "decoration_manager", "layer_shell", "xdg_shell"}
           K2 == {"new_output", "output_configuration", "gamma_control_set_gamma",
                  "new_inhibitor", "destroy_inhibit_manager", "new_xdg_decoration",
                  "new_layer_surface", "new_xdg_toplevel", "new_xdg_popup"}
           E == {} \cup Range(CreateBackend)
<1>1. Builds(CreateBackend, {}, M1, K1)
  BY CreateBackendBuilds
<1>2. Clean(E) /\ {"backend", "layout", "wb_seat", "seat"} \subseteq Made(E)
  BY <1>1 DEF Builds
<1>3. Builds(StartServer, E, M2, K2)
  BY <1>2, StartServerBuilds
<1>4. M1 \cup M2 = Object
  BY DEF Object, Globals
<1>5. K1 \cup K2 = Listener
  BY DEF Listener, Owner
<1> HIDE DEF M1, M2, K1, K2
<1>6. Builds(CreateBackend \o StartServer, {}, M1 \cup M2, K1 \cup K2)
  BY <1>1, <1>3, BuildsBoth
<1> QED BY <1>4, <1>5, <1>6 DEF Start

----------------------------------------------------------------------------
\* The end.

\* All there is has been made and linked.
Built(D) == Made(D) = Object /\ OnOf({"link"}, D) = Listener

\* The program p may be carried out after the steps D, and all in all U is
\* unlinked and X is destroyed then.
Ends(p, D, U, X) ==
  /\ p \in Seq(StepRecord) /\ Fits(p, D)
  /\ \A s \in Range(p) : s.op \in EndOperation
  /\ Built(D \cup Range(p))
  /\ OnOf({"unlink"}, D \cup Range(p)) = U
  /\ Destroyed(D \cup Range(p)) = X

\* The steps of one kind before the i-th.
LEMMA OnOfBefore ==
  ASSUME NEW op \in Operation,
         NEW xs \in Seq(Object \cup Listener \cup {None}), NEW i \in DOMAIN xs
  PROVE  \A ops : OnOf(ops, Before(Steps(op, xs), i))
                    = IF op \in ops THEN {xs[k] : k \in 1 .. i - 1} ELSE {}
<1>1. \A k \in 1 .. i - 1 : Steps(op, xs)[k] = Step(op, xs[k])
  BY StepsAreProgram, LenProperties
<1>2. Before(Steps(op, xs), i) = {Step(op, xs[k]) : k \in 1 .. i - 1}
  BY <1>1 DEF Before
<1>3. \A x : Step(op, x).op = op /\ Step(op, x).on = x
  BY DEF Step
<1> QED BY <1>2, <1>3 DEF OnOf

\* The effects of the steps D, and of the steps E after them.
Add(D, E) ==
  /\ Made(D \cup E) = Made(D) \cup Made(E)
  /\ OnOf({"link"}, D \cup E) = OnOf({"link"}, D) \cup OnOf({"link"}, E)
  /\ OnOf({"unlink"}, D \cup E) = OnOf({"unlink"}, D) \cup OnOf({"unlink"}, E)
  /\ Destroyed(D \cup E) = Destroyed(D) \cup Destroyed(E)

\* Steps add up, whatever they are.
LEMMA EffectsAdd == \A D, E : Add(D, E)
BY OnOfUnion DEF Add

\* A program, and one more.
LEMMA EndsBoth ==
  ASSUME NEW p, NEW D, NEW U, NEW X, Ends(p, D, U, X),
         NEW q, NEW V, NEW Y, Ends(q, D \cup Range(p), V, Y)
  PROVE  Ends(p \o q, D, V, Y)
<1>1. /\ p \o q \in Seq(StepRecord)
      /\ Range(p \o q) = Range(p) \cup Range(q)
      /\ D \cup Range(p \o q) = (D \cup Range(p)) \cup Range(q)
  BY RangeConcat DEF Ends
<1>2. Fits(p \o q, D)
  BY FitsConcat DEF Ends
<1> QED BY <1>1, <1>2 DEF Ends

\* A program, and listeners that are unlinked after it.
LEMMA ThenUnlink ==
  ASSUME NEW p, NEW D, NEW U, NEW V, NEW X, Ends(p, D, U, X),
         NEW ls \in Seq(Listener), V = U \cup Range(ls),
         \A i, k \in DOMAIN ls : ls[i] = ls[k] => i = k,
         \A l \in Range(ls) : l \notin U /\ Owner[l] \notin X
  PROVE  Ends(p \o Unlink(ls), D, V, X)
<1> DEFINE q == Unlink(ls)
           E == D \cup Range(p)
<1>0. ls \in Seq(Object \cup Listener \cup {None}) /\ "unlink" \in Operation
  BY SeqMonotonic DEF Operation
<1>1. /\ q \in Seq(StepRecord) /\ DOMAIN q = DOMAIN ls
      /\ \A i \in DOMAIN ls : q[i] = Step("unlink", ls[i])
  BY <1>0, StepsAreProgram DEF Unlink
<1>2. \A ops : OnOf(ops, Range(q)) = IF "unlink" \in ops THEN Range(ls) ELSE {}
  BY <1>0, OnOfSteps DEF Unlink
<1>3. \A i \in DOMAIN ls : \A ops :
        OnOf(ops, Before(q, i)) = IF "unlink" \in ops THEN {ls[k] : k \in 1 .. i - 1} ELSE {}
  BY <1>0, OnOfBefore DEF Unlink
<1>4. Built(E) /\ OnOf({"unlink"}, E) = U /\ Destroyed(E) = X
  BY DEF Ends
<1> HIDE DEF q, E
<1>5. ASSUME NEW i \in DOMAIN q PROVE Fit(q[i], E \cup Before(q, i))
  <2> DEFINE F == E \cup Before(q, i)
  <2>1. q[i].op = "unlink" /\ q[i].on = ls[i] /\ ls[i] \in Listener /\ ls[i] \in Range(ls)
    BY <1>1, LenProperties DEF Step, Range
  <2>0. Add(E, Before(q, i)) /\ F = E \cup Before(q, i)
    BY EffectsAdd
  <2> HIDE DEF F
  <2>2. OnOf({"unlink"}, F) = U \cup {ls[k] : k \in 1 .. i - 1}
    <3>1. OnOf({"unlink"}, Before(q, i)) = {ls[k] : k \in 1 .. i - 1}
      BY <1>1, <1>3
    <3> QED BY <3>1, <2>0, <1>4 DEF Add
  <2>3. Made(F) = Object /\ OnOf({"link"}, F) = Listener
    <3>1. Made(Before(q, i)) = {} /\ OnOf({"link"}, Before(q, i)) = {}
      BY <1>1, <1>3 DEF Made
    <3> QED BY <3>1, <2>0, <1>4 DEF Add, Built
  <2>4. Destroyed(F) = X
    <3>1. Destroyed(Before(q, i)) = {}
      BY <1>1, <1>3 DEF Destroyed
    <3> QED BY <3>1, <2>0, <1>4 DEF Add
  <2>5. ls[i] \notin {ls[k] : k \in 1 .. i - 1}
    <3>1. \A k \in 1 .. i - 1 : k \in DOMAIN ls /\ k # i
      BY <1>1, LenProperties
    <3> QED BY <3>1, <1>1
  <2>6. Owner[ls[i]] \in Object
    BY <2>1 DEF Listener, Owner, Object, Globals
  <2> HIDE DEF F
  <2> QED BY <2>1, <2>2, <2>3, <2>4, <2>5, <2>6 DEF Fit, Linked, There, F
<1>6. Fits(q, E)
  BY <1>5 DEF Fits
<1>7. Made(E \cup Range(q)) = Object /\ OnOf({"link"}, E \cup Range(q)) = Listener
  <2>1. Made(Range(q)) = {} /\ OnOf({"link"}, Range(q)) = {}
    BY <1>2 DEF Made
  <2>2. Add(E, Range(q))
    BY EffectsAdd
  <2> QED BY <2>1, <2>2, <1>4 DEF Add, Built
<1>8. OnOf({"unlink"}, E \cup Range(q)) = V /\ Destroyed(E \cup Range(q)) = X
  <2>1. OnOf({"unlink"}, Range(q)) = Range(ls) /\ Destroyed(Range(q)) = {}
    BY <1>2 DEF Destroyed
  <2>2. Add(E, Range(q))
    BY EffectsAdd
  <2> QED BY <2>1, <2>2, <1>4 DEF Add
<1>9. \A s \in Range(q) : s.op \in EndOperation
  BY <1>1 DEF Range, Step, EndOperation
<1>10. Ends(q, E, V, X)
  BY <1>1, <1>6, <1>7, <1>8, <1>9 DEF Ends, Built
<1> QED BY <1>10, EndsBoth DEF q, E

\* A program, and objects that are destroyed after it.
LEMMA ThenDestroy ==
  ASSUME NEW p, NEW D, NEW U, NEW X, NEW Y, Ends(p, D, U, X),
         NEW xs \in Seq(Object), Y = X \cup UNION {With(x) : x \in Range(xs)},
         \A i, k \in DOMAIN xs : k < i => xs[i] \notin With(xs[k]),
         \A x \in Range(xs) : x \notin X,
         \A x \in Range(xs) : \A l \in Listener \ U : Owner[l] \notin With(x),
         "backend" \in Range(xs) => {"scene", "wb_seat"} \cap Y = {}
  PROVE  Ends(p \o Destroy(xs), D, U, Y)
<1> DEFINE q == Destroy(xs)
           E == D \cup Range(p)
<1>0. xs \in Seq(Object \cup Listener \cup {None}) /\ "destroy" \in Operation
  BY SeqMonotonic DEF Operation
<1>1. /\ q \in Seq(StepRecord) /\ DOMAIN q = DOMAIN xs
      /\ \A i \in DOMAIN xs : q[i] = Step("destroy", xs[i])
  BY <1>0, StepsAreProgram DEF Destroy
<1>2. \A ops : OnOf(ops, Range(q)) = IF "destroy" \in ops THEN Range(xs) ELSE {}
  BY <1>0, OnOfSteps DEF Destroy
<1>3. \A i \in DOMAIN xs : \A ops :
        OnOf(ops, Before(q, i)) = IF "destroy" \in ops THEN {xs[k] : k \in 1 .. i - 1} ELSE {}
  BY <1>0, OnOfBefore DEF Destroy
<1>4. Built(E) /\ OnOf({"unlink"}, E) = U /\ Destroyed(E) = X
  BY DEF Ends
<1> HIDE DEF q, E
<1>5. ASSUME NEW i \in DOMAIN q PROVE Fit(q[i], E \cup Before(q, i))
  <2> DEFINE F == E \cup Before(q, i)
             B == {xs[k] : k \in 1 .. i - 1}
  <2>1. q[i].op = "destroy" /\ q[i].on = xs[i] /\ xs[i] \in Object /\ xs[i] \in Range(xs)
    BY <1>1, LenProperties DEF Step, Range
  <2>0. Add(E, Before(q, i)) /\ F = E \cup Before(q, i)
    BY EffectsAdd
  <2> HIDE DEF F
  <2>2. Made(F) = Object /\ OnOf({"link"}, F) = Listener /\ OnOf({"unlink"}, F) = U
    <3>1. /\ Made(Before(q, i)) = {} /\ OnOf({"link"}, Before(q, i)) = {}
          /\ OnOf({"unlink"}, Before(q, i)) = {}
      BY <1>1, <1>3 DEF Made
    <3> QED BY <3>1, <2>0, <1>4 DEF Add, Built
  <2>3. Destroyed(F) = X \cup UNION {With(x) : x \in B}
    <3>1. Destroyed(Before(q, i)) = UNION {With(x) : x \in B}
      BY <1>1, <1>3 DEF Destroyed
    <3> QED BY <3>1, <2>0, <1>4 DEF Add
  <2>4. xs[i] \notin UNION {With(x) : x \in B}
    <3>1. \A k \in 1 .. i - 1 : k \in DOMAIN xs /\ k < i
      BY <1>1, LenProperties
    <3>2. \A k \in 1 .. i - 1 : xs[i] \notin With(xs[k])
      BY <3>1, <1>1
    <3> QED BY <3>2
  <2>5. B \subseteq Range(xs)
    <3>1. \A k \in 1 .. i - 1 : k \in DOMAIN xs
      BY <1>1, LenProperties
    <3> QED BY <3>1 DEF Range
  <2>6. Destroyed(F) \subseteq Y
    BY <2>3, <2>5
  <2>7. xs[i] \in There(F)
    BY <2>1, <2>2, <2>3, <2>4 DEF There
  <2>8. \A l \in Linked(F) : Owner[l] \notin With(xs[i])
    BY <2>1, <2>2 DEF Linked
  <2>9. xs[i] = "backend" => {"scene", "wb_seat"} \subseteq There(F)
    <3>1. {"scene", "wb_seat"} \subseteq Object
      BY DEF Object
    <3> QED BY <3>1, <2>1, <2>2, <2>6 DEF There
  <2> HIDE DEF F
  <2> QED BY <2>1, <2>7, <2>8, <2>9 DEF Fit, F
<1>6. Fits(q, E)
  BY <1>5 DEF Fits
<1>7. /\ Made(E \cup Range(q)) = Object /\ OnOf({"link"}, E \cup Range(q)) = Listener
      /\ OnOf({"unlink"}, E \cup Range(q)) = U
  <2>1. /\ Made(Range(q)) = {} /\ OnOf({"link"}, Range(q)) = {}
        /\ OnOf({"unlink"}, Range(q)) = {}
    BY <1>2 DEF Made
  <2>2. Add(E, Range(q))
    BY EffectsAdd
  <2> QED BY <2>1, <2>2, <1>4 DEF Add, Built
<1>8. Destroyed(E \cup Range(q)) = Y
  <2>1. Destroyed(Range(q)) = UNION {With(x) : x \in Range(xs)}
    BY <1>2 DEF Destroyed
  <2>2. Add(E, Range(q))
    BY EffectsAdd
  <2> QED BY <2>1, <2>2, <1>4 DEF Add
<1>9. \A s \in Range(q) : s.op \in EndOperation
  BY <1>1 DEF Range, Step, EndOperation
<1>10. Ends(q, E, U, Y)
  BY <1>1, <1>6, <1>7, <1>8, <1>9 DEF Ends, Built
<1> QED BY <1>10, EndsBoth DEF q, E

\* The first steps of an end.
LEMMA EndsNothing ==
  ASSUME NEW D, Built(D)
  PROVE  Ends(<<>>, D, OnOf({"unlink"}, D), Destroyed(D))
<1>1. <<>> \in Seq(StepRecord) /\ Range(<<>>) = {} /\ D \cup Range(<<>>) = D
  BY DEF Range
<1>2. Fits(<<>>, D)
  BY DEF Fits
<1> QED BY <1>1, <1>2 DEF Ends

\* Unlinking alone.
LEMMA EndsUnlink ==
  ASSUME NEW D, NEW U, NEW V, NEW X,
         Built(D), OnOf({"unlink"}, D) = U, Destroyed(D) = X,
         NEW ls \in Seq(Listener), V = U \cup Range(ls),
         \A i, k \in DOMAIN ls : ls[i] = ls[k] => i = k,
         \A l \in Range(ls) : l \notin U /\ Owner[l] \notin X
  PROVE  Ends(Unlink(ls), D, V, X)
<1>1. Ends(<<>>, D, U, X)
  BY EndsNothing
<1>2. Ends(<<>> \o Unlink(ls), D, V, X)
  BY <1>1, ThenUnlink
<1>3. Unlink(ls) \in Seq(StepRecord)
  <2>1. ls \in Seq(Object \cup Listener \cup {None}) /\ "unlink" \in Operation
    BY SeqMonotonic DEF Operation
  <2> QED BY <2>1, StepsAreProgram DEF Unlink
<1> QED BY <1>2, <1>3, ConcatEmptySeq

\* Destroying alone.
LEMMA EndsDestroy ==
  ASSUME NEW D, NEW U, NEW X, NEW Y,
         Built(D), OnOf({"unlink"}, D) = U, Destroyed(D) = X,
         NEW x \in Object, Y = X \cup With(x), x \notin X,
         \A l \in Listener \ U : Owner[l] \notin With(x),
         x = "backend" => {"scene", "wb_seat"} \cap Y = {}
  PROVE  Ends(Destroy(<<x>>), D, U, Y)
<1> DEFINE xs == <<x>>
<1>1. Ends(<<>>, D, U, X)
  BY EndsNothing
<1>2. /\ xs \in Seq(Object) /\ Range(xs) = {x}
      /\ \A i, k \in DOMAIN xs : ~(k < i)
  BY DEF Range
<1> HIDE DEF xs
<1>3. Ends(<<>> \o Destroy(xs), D, U, Y)
  <2>1. Y = X \cup UNION {With(y) : y \in Range(xs)}
    BY <1>2
  <2>2. \A y \in Range(xs) : y = x
    BY <1>2
  <2>3. "backend" \in Range(xs) => {"scene", "wb_seat"} \cap Y = {}
    BY <2>2
  <2>4. /\ \A y \in Range(xs) : y \notin X
        /\ \A y \in Range(xs) : \A l \in Listener \ U : Owner[l] \notin With(y)
    BY <2>2
  <2>5. \A i, k \in DOMAIN xs : k < i => xs[i] \notin With(xs[k])
    BY <1>2
  <2> QED BY <1>1, <1>2, <2>1, <2>3, <2>4, <2>5, ThenDestroy
<1>4. Destroy(xs) \in Seq(StepRecord)
  <2>1. xs \in Seq(Object \cup Listener \cup {None}) /\ "destroy" \in Operation
    BY <1>2, SeqMonotonic DEF Operation
  <2> QED BY <2>1, StepsAreProgram DEF Destroy
<1> QED BY <1>3, <1>4, ConcatEmptySeq DEF xs

\* A program, and one object that is destroyed after it.
LEMMA ThenDestroyOne ==
  ASSUME NEW p, NEW D, NEW U, NEW X, NEW Y, Ends(p, D, U, X),
         NEW x \in Object, Y = X \cup With(x), x \notin X,
         \A l \in Listener \ U : Owner[l] \notin With(x),
         x = "backend" => {"scene", "wb_seat"} \cap Y = {}
  PROVE  Ends(p \o Destroy(<<x>>), D, U, Y)
<1> DEFINE E == D \cup Range(p)
<1>1. Built(E) /\ OnOf({"unlink"}, E) = U /\ Destroyed(E) = X
  BY DEF Ends
<1> HIDE DEF E
<1>2. Ends(Destroy(<<x>>), E, U, Y)
  BY <1>1, EndsDestroy
<1> QED BY <1>2, EndsBoth DEF E

\* A program, and the clients that are destroyed after it.
LEMMA ThenClients ==
  ASSUME NEW p, NEW D, NEW U, NEW X, Ends(p, D, U, X)
  PROVE  Ends(p \o <<Step("clients", None)>>, D, U, X)
<1> DEFINE q == <<Step("clients", None)>>
           E == D \cup Range(p)
<1>1. /\ q \in Seq(StepRecord) /\ DOMAIN q = {1} /\ q[1].op = "clients"
      /\ Range(q) = {Step("clients", None)} /\ Step("clients", None).op = "clients"
  BY DEF StepRecord, Step, Operation, Range
<1>2. Built(E) /\ OnOf({"unlink"}, E) = U /\ Destroyed(E) = X
  BY DEF Ends
<1> HIDE DEF q, E
<1>3. \A ops : "clients" \notin ops => OnOf(ops, Range(q)) = {}
  BY <1>1 DEF OnOf
<1>4. /\ Made(Range(q)) = {} /\ OnOf({"link"}, Range(q)) = {}
      /\ OnOf({"unlink"}, Range(q)) = {} /\ Destroyed(Range(q)) = {}
  BY <1>3 DEF Made, Destroyed
<1>5. /\ Built(E \cup Range(q)) /\ OnOf({"unlink"}, E \cup Range(q)) = U
      /\ Destroyed(E \cup Range(q)) = X
  <2>1. Add(E, Range(q))
    BY EffectsAdd
  <2> QED BY <2>1, <1>2, <1>4 DEF Add, Built
<1>6. Fits(q, E)
  BY <1>1 DEF Fits, Fit
<1>7. Ends(q, E, U, X)
  BY <1>1, <1>5, <1>6 DEF Ends, EndOperation
<1> QED BY <1>7, EndsBoth DEF q, E

\* wb_terminate(), up to the destruction of the display's objects, unlinks and
\* destroys what it may.
LEMMA EndClientsEnds ==
  ASSUME NEW D, Built(D), Clean(D)
  PROVE  Ends(EndClients, D, {"pointer_requests", "cursor_events", "new_xdg_decoration"},
              {"cursor", "config", "layout", "allocator", "renderer"})
<1> DEFINE ls == <<"pointer_requests", "cursor_events">>
           xs == <<"layout", "allocator", "renderer">>
           p1 == Unlink(ls)
           p2 == p1 \o Destroy(<<"cursor">>)
           p3 == p2 \o Unlink(<<"new_xdg_decoration">>)
           p4 == p3 \o Destroy(<<"config">>)
           p5 == p4 \o <<Step("clients", None)>>
           U1 == {"pointer_requests", "cursor_events"}
           U3 == {"pointer_requests", "cursor_events", "new_xdg_decoration"}
           X6 == {"cursor", "config", "layout", "allocator", "renderer"}
<1>0. \A x : x # "display" => With(x) = {x}
  BY DEF With
<1>1. Ends(p1, D, U1, {})
  <2>1. /\ ls \in Seq(Listener) /\ U1 = {} \cup Range(ls)
        /\ \A i, k \in DOMAIN ls : ls[i] = ls[k] => i = k
    BY DEF Listener, Owner, Range
  <2> HIDE DEF ls, U1
  <2> QED BY <2>1, EndsUnlink DEF Clean
<1> HIDE DEF p1, ls
<1>2. Ends(p2, D, U1, {"cursor"})
  <2>1. \A l \in Listener \ U1 : Owner[l] # "cursor"
    BY DEF Listener, Owner
  <2>2. "cursor" \in Object /\ {"cursor"} = {} \cup With("cursor")
    BY <1>0 DEF Object
  <2> HIDE DEF U1
  <2> QED BY <1>0, <1>1, <2>1, <2>2, ThenDestroyOne
<1> HIDE DEF p2
<1>3. Ends(p3, D, U3, {"cursor"})
  <2> DEFINE ms == <<"new_xdg_decoration">>
  <2>1. /\ ms \in Seq(Listener) /\ U3 = U1 \cup Range(ms)
        /\ \A i, k \in DOMAIN ms : ms[i] = ms[k] => i = k
        /\ \A l \in Range(ms) : l \notin U1 /\ Owner[l] \notin {"cursor"}
    BY DEF Listener, Owner, Range
  <2> HIDE DEF ms, U1, U3
  <2>2. Ends(p2 \o Unlink(ms), D, U3, {"cursor"})
    BY <1>2, <2>1, ThenUnlink
  <2> QED BY <2>2 DEF ms
<1> HIDE DEF p3
<1>4. Ends(p4, D, U3, {"cursor", "config"})
  <2>1. \A l \in Listener \ U3 : Owner[l] # "config"
    BY DEF Listener, Owner
  <2>2. "config" \in Object /\ {"cursor", "config"} = {"cursor"} \cup With("config")
    BY <1>0 DEF Object
  <2> HIDE DEF U3
  <2> QED BY <1>0, <1>3, <2>1, <2>2, ThenDestroyOne
<1> HIDE DEF p4
<1>5. Ends(p5, D, U3, {"cursor", "config"})
  BY <1>4, ThenClients
<1> HIDE DEF p5
<1>6. Ends(p5 \o Destroy(xs), D, U3, X6)
  <2>1. /\ xs \in Seq(Object) /\ Range(xs) = {"layout", "allocator", "renderer"}
        /\ \A i, k \in DOMAIN xs : xs[i] = xs[k] => i = k
    BY DEF Object, Range
  <2>2. \A x \in Range(xs) : With(x) = {x}
    BY <1>0, <2>1
  <2>3. UNION {With(x) : x \in Range(xs)} = Range(xs)
    BY <2>2
  <2>4. X6 = {"cursor", "config"} \cup UNION {With(x) : x \in Range(xs)}
    BY <2>1, <2>3
  <2>5. \A i \in DOMAIN xs : xs[i] \in Range(xs)
    BY DEF Range
  <2>6. \A i, k \in DOMAIN xs : k < i => xs[i] \notin With(xs[k])
    <3>1. DOMAIN xs \subseteq Int
      BY <2>1, LenProperties
    <3> HIDE DEF xs
    <3> QED BY <2>1, <2>2, <2>5, <3>1
  <2>7. \A x \in Range(xs) : \A l \in Listener : Owner[l] \notin With(x)
    <3>1. \A x \in Range(xs) : \A l \in Listener : Owner[l] # x
      BY <2>1 DEF Listener, Owner
    <3> QED BY <2>2, <3>1
  <2>8. \A x \in Range(xs) : x \notin {"cursor", "config"}
    BY <2>1
  <2>9. "backend" \notin Range(xs)
    BY <2>1
  <2> HIDE DEF xs, U3, X6
  <2> QED BY <1>5, <2>1, <2>4, <2>6, <2>7, <2>8, <2>9, ThenDestroy
<1> QED BY <1>6 DEF EndClients, CursorDestroy, p5, p4, p3, p2, p1, ls

\* The listeners of the server are unlinked while what they are linked in is there.
LEMMA UnlinkServerEnds ==
  ASSUME NEW p, NEW D,
         Ends(p, D, {"pointer_requests", "cursor_events", "new_xdg_decoration"},
              {"cursor", "config", "layout", "allocator", "renderer"})
  PROVE  Ends(p \o UnlinkServer, D, Listener \ {"selection_requests"},
              {"cursor", "config", "layout", "allocator", "renderer"})
<1> DEFINE ls == <<"new_input", "new_output", "output_configuration", "new_inhibitor",
                   "destroy_inhibit_manager", "gamma_control_set_gamma",
                   "new_layer_surface", "new_xdg_toplevel", "new_xdg_popup">>
           U == {"pointer_requests", "cursor_events", "new_xdg_decoration"}
           V == Listener \ {"selection_requests"}
           X == {"cursor", "config", "layout", "allocator", "renderer"}
<1>1. ls \in Seq(Listener)
  BY DEF Listener, Owner
<1>2. Range(ls) = {"new_input", "new_output", "output_configuration", "new_inhibitor",
                   "destroy_inhibit_manager", "gamma_control_set_gamma",
                   "new_layer_surface", "new_xdg_toplevel", "new_xdg_popup"}
  BY DEF Range
<1>3. \A i, k \in DOMAIN ls : ls[i] = ls[k] => i = k
  OBVIOUS
<1> HIDE DEF ls
<1>4. V = U \cup Range(ls)
  BY <1>2 DEF Listener, Owner
<1>5. \A l \in Range(ls) : l \notin U /\ Owner[l] \notin X
  BY <1>2 DEF Owner
<1> HIDE DEF U, V, X
<1>6. Ends(p, D, U, X)
  BY DEF U, X
<1>7. Ends(p \o Unlink(ls), D, V, X)
  BY <1>1, <1>3, <1>4, <1>5, <1>6, ThenUnlink
<1> QED BY <1>7 DEF UnlinkServer, ls, V, X

\* wb_seat_destroy() unlinks what is left, before the display goes with the seat.
LEMMA SeatDestroyEnds ==
  ASSUME NEW D, Built(D), OnOf({"unlink"}, D) = Listener \ {"selection_requests"},
         NEW X, Destroyed(D) = X, "seat" \notin X, "wb_seat" \notin X
  PROVE  Ends(SeatDestroy, D, Listener, X \cup {"wb_seat"})
<1> DEFINE ls == <<"selection_requests">>
           p == Unlink(ls)
<1>1. /\ ls \in Seq(Listener) /\ Listener = (Listener \ {"selection_requests"}) \cup Range(ls)
      /\ \A i, k \in DOMAIN ls : ls[i] = ls[k] => i = k
      /\ \A l \in Range(ls) : l = "selection_requests" /\ Owner[l] = "seat"
  BY DEF Listener, Owner, Range
<1> HIDE DEF ls
<1>2. Ends(p, D, Listener, X)
  BY <1>1, EndsUnlink
<1> HIDE DEF p
<1>3. Ends(p \o Destroy(<<"wb_seat">>), D, Listener, X \cup {"wb_seat"})
  <2>1. "wb_seat" \in Object /\ With("wb_seat") = {"wb_seat"}
    BY DEF Object, With
  <2> QED BY <1>2, <2>1, ThenDestroyOne
<1> QED BY <1>3 DEF SeatDestroy, p, ls

\* The backend goes while the scene and the seat are there, and the display with
\* all that belongs to it.
LEMMA EndServerEnds ==
  ASSUME NEW D, Built(D), OnOf({"unlink"}, D) = Listener \ {"selection_requests"},
         Destroyed(D) = {"cursor", "config", "layout", "allocator", "renderer"}
  PROVE  Ends(EndServer, D, Listener, Object)
<1> DEFINE U == Listener \ {"selection_requests"}
           X0 == {"cursor", "config", "layout", "allocator", "renderer"}
           X1 == X0 \cup {"backend"}
           X2 == X1 \cup {"wb_seat"}
           p1 == Destroy(<<"backend">>)
           p2 == p1 \o SeatDestroy
           xs == <<"display", "scene">>
<1>1. Ends(p1, D, U, X1)
  <2>1. \A l \in Listener \ U : Owner[l] # "backend"
    BY DEF Owner
  <2>2. /\ "backend" \in Object /\ With("backend") = {"backend"} /\ "backend" \notin X0
        /\ {"scene", "wb_seat"} \cap X1 = {} /\ Destroyed(D) = X0
    BY DEF Object, With
  <2> HIDE DEF U, X0
  <2>3. OnOf({"unlink"}, D) = U
    BY DEF U
  <2> QED BY <2>1, <2>2, <2>3, EndsDestroy
<1> HIDE DEF p1
<1>2. Ends(p2, D, Listener, X2)
  <2> DEFINE E == D \cup Range(p1)
  <2>1. Built(E) /\ OnOf({"unlink"}, E) = U /\ Destroyed(E) = X1
    BY <1>1 DEF Ends
  <2>2. "seat" \notin X1 /\ "wb_seat" \notin X1
    OBVIOUS
  <2> HIDE DEF E, X1
  <2>3. Ends(SeatDestroy, E, Listener, X2)
    BY <2>1, <2>2, SeatDestroyEnds
  <2> QED BY <1>1, <2>3, EndsBoth DEF E
<1> HIDE DEF p2
<1>3. Ends(p2 \o Destroy(xs), D, Listener, Object)
  <2>1. xs \in Seq(Object) /\ Range(xs) = {"display", "scene"}
    BY DEF Object, Range
  <2>2. With("display") = {"display"} \cup Globals /\ With("scene") = {"scene"}
    BY DEF With
  <2>3. UNION {With(x) : x \in Range(xs)} = {"display", "scene"} \cup Globals
    BY <2>1, <2>2
  <2>4. Object = X2 \cup UNION {With(x) : x \in Range(xs)}
    BY <2>3 DEF Object
  <2>5. \A i, k \in DOMAIN xs : k < i => xs[i] \notin With(xs[k])
    <3>1. "scene" \notin With("display")
      BY <2>2 DEF Globals
    <3> QED BY <3>1
  <2>6. \A x \in Range(xs) : x \notin X2
    BY <2>1
  <2>7. "backend" \notin Range(xs)
    BY <2>1
  <2> HIDE DEF xs, X2
  <2> QED BY <1>2, <2>1, <2>4, <2>5, <2>6, <2>7, ThenDestroy
<1> QED BY <1>3 DEF EndServer, p2, p1, xs

\* wb_terminate() may be carried out after the start, and leaves nothing.
LEMMA TerminateEnds == Ends(Terminate, Range(Start), Listener, Object)
<1> DEFINE D == Range(Start)
           p == EndClients \o UnlinkServer
           E == D \cup Range(p)
<1>1. Built(D) /\ Clean(D)
  <2>1. /\ Clean({} \cup D) /\ Made({} \cup D) = Made({}) \cup Object
        /\ OnOf({"link"}, {} \cup D) = OnOf({"link"}, {}) \cup Listener
    BY StartBuilds DEF Builds
  <2>2. Made({}) = {} /\ OnOf({"link"}, {}) = {} /\ {} \cup D = D
    BY DEF Made, OnOf
  <2> QED BY <2>1, <2>2 DEF Built
<1> HIDE DEF D
<1>2. Ends(p, D, Listener \ {"selection_requests"},
           {"cursor", "config", "layout", "allocator", "renderer"})
  BY <1>1, EndClientsEnds, UnlinkServerEnds
<1> HIDE DEF p
<1>3. /\ Built(E) /\ OnOf({"unlink"}, E) = Listener \ {"selection_requests"}
      /\ Destroyed(E) = {"cursor", "config", "layout", "allocator", "renderer"}
  BY <1>2 DEF Ends
<1> HIDE DEF E
<1>4. Ends(EndServer, E, Listener, Object)
  BY <1>3, EndServerEnds
<1>5. Ends(p \o EndServer, D, Listener, Object)
  BY <1>2, <1>4, EndsBoth DEF E
<1> QED BY <1>5 DEF Terminate, p, D

----------------------------------------------------------------------------
\* The life of a server.

\* The clients are destroyed at the end.
LEMMA ClientsAreDestroyed == Step("clients", None) \in Range(Terminate)
<1> DEFINE c == <<Step("clients", None)>>
           a == CursorDestroy \o Unlink(<<"new_xdg_decoration">>) \o Destroy(<<"config">>)
           b == Destroy(<<"layout", "allocator", "renderer">>)
<1>1. c \in Seq(StepRecord) /\ Step("clients", None) \in Range(c)
  BY DEF StepRecord, Step, Operation, Range
<1>2. /\ Unlink(<<"pointer_requests", "cursor_events">>) \in Seq(StepRecord)
      /\ Unlink(<<"new_xdg_decoration">>) \in Seq(StepRecord)
  <2>1. /\ <<"pointer_requests", "cursor_events">> \in Seq(Object \cup Listener \cup {None})
        /\ <<"new_xdg_decoration">> \in Seq(Object \cup Listener \cup {None})
        /\ "unlink" \in Operation
    BY DEF Listener, Owner, Operation
  <2> QED BY <2>1, StepsAreProgram DEF Unlink
<1>3. /\ Destroy(<<"cursor">>) \in Seq(StepRecord) /\ Destroy(<<"config">>) \in Seq(StepRecord)
      /\ b \in Seq(StepRecord)
  <2>1. /\ <<"cursor">> \in Seq(Object \cup Listener \cup {None})
        /\ <<"config">> \in Seq(Object \cup Listener \cup {None})
        /\ <<"layout", "allocator", "renderer">> \in Seq(Object \cup Listener \cup {None})
        /\ "destroy" \in Operation
    BY DEF Object, Operation
  <2> QED BY <2>1, StepsAreProgram DEF Destroy
<1>4. a \in Seq(StepRecord)
  BY <1>2, <1>3, RangeConcat DEF CursorDestroy
<1> HIDE DEF a, b, c
<1> DEFINE ac == a \o c
<1>5. ac \in Seq(StepRecord) /\ Range(ac) = Range(a) \cup Range(c)
  BY <1>1, <1>4, RangeConcat
<1> HIDE DEF ac
<1>6. ac \o b \in Seq(StepRecord) /\ Range(ac \o b) = Range(ac) \cup Range(b)
  BY <1>3, <1>5, RangeConcat
<1>7. EndClients = ac \o b
  BY DEF EndClients, ac, a, b, c
<1>8. UnlinkServer \in Seq(StepRecord)
  <2> DEFINE ls == <<"new_input", "new_output", "output_configuration", "new_inhibitor",
                     "destroy_inhibit_manager", "gamma_control_set_gamma",
                     "new_layer_surface", "new_xdg_toplevel", "new_xdg_popup">>
  <2>1. ls \in Seq(Object \cup Listener \cup {None}) /\ "unlink" \in Operation
    BY DEF Listener, Owner, Operation
  <2> HIDE DEF ls
  <2>2. Unlink(ls) \in Seq(StepRecord)
    BY <2>1, StepsAreProgram DEF Unlink
  <2> QED BY <2>2 DEF UnlinkServer, ls
<1>9. EndServer \in Seq(StepRecord)
  <2>1. /\ <<"backend">> \in Seq(Object \cup Listener \cup {None})
        /\ <<"wb_seat">> \in Seq(Object \cup Listener \cup {None})
        /\ <<"display", "scene">> \in Seq(Object \cup Listener \cup {None})
        /\ <<"selection_requests">> \in Seq(Object \cup Listener \cup {None})
        /\ "destroy" \in Operation /\ "unlink" \in Operation
    BY DEF Object, Listener, Owner, Operation
  <2>2. /\ Destroy(<<"backend">>) \in Seq(StepRecord) /\ Destroy(<<"wb_seat">>) \in Seq(StepRecord)
        /\ Destroy(<<"display", "scene">>) \in Seq(StepRecord)
        /\ Unlink(<<"selection_requests">>) \in Seq(StepRecord)
    BY <2>1, StepsAreProgram DEF Destroy, Unlink
  <2> QED BY <2>2, RangeConcat DEF EndServer, SeatDestroy
<1>10. EndClients \in Seq(StepRecord) /\ Step("clients", None) \in Range(EndClients)
  BY <1>1, <1>5, <1>6, <1>7
<1> DEFINE eu == EndClients \o UnlinkServer
<1>11. eu \in Seq(StepRecord) /\ Range(eu) = Range(EndClients) \cup Range(UnlinkServer)
  BY <1>8, <1>10, RangeConcat
<1> HIDE DEF eu
<1>12. Range(eu \o EndServer) = Range(eu) \cup Range(EndServer)
  BY <1>9, <1>11, RangeConcat
<1> QED BY <1>10, <1>11, <1>12 DEF Terminate, eu

\* All that a server does fits together, and nothing is left of it.
LEMMA LifeFits ==
  /\ Start \in Seq(StepRecord) /\ Terminate \in Seq(StepRecord)
  /\ Life \in Seq(StepRecord) /\ Fits(Life, {})
  /\ Range(Life) = Range(Start) \cup Range(Terminate)
  /\ \A s \in Range(Start) : s.op \in StartOperation
  /\ \A s \in Range(Terminate) : s.op \in EndOperation
  /\ Step("clients", None) \in Range(Life)
  /\ "backend" \in There(Range(Start))
  /\ There(Range(Life)) = {} /\ Linked(Range(Life)) = {}
<1>1. {} \cup Range(Start) = Range(Start)
  OBVIOUS
<1>2. /\ Start \in Seq(StepRecord) /\ Fits(Start, {})
      /\ \A s \in Range(Start) : s.op \in StartOperation
      /\ Clean(Range(Start)) /\ Made({} \cup Range(Start)) = Made({}) \cup Object
  BY <1>1, StartBuilds DEF Builds
<1>3. /\ Terminate \in Seq(StepRecord) /\ Fits(Terminate, Range(Start))
      /\ \A s \in Range(Terminate) : s.op \in EndOperation
      /\ Built(Range(Start) \cup Range(Terminate))
      /\ OnOf({"unlink"}, Range(Start) \cup Range(Terminate)) = Listener
      /\ Destroyed(Range(Start) \cup Range(Terminate)) = Object
  BY TerminateEnds DEF Ends
<1>4. Life \in Seq(StepRecord) /\ Range(Life) = Range(Start) \cup Range(Terminate)
  BY <1>2, <1>3, RangeConcat DEF Life
<1>5. Fits(Life, {})
  BY <1>1, <1>2, <1>3, FitsConcat DEF Life
<1>6. "backend" \in There(Range(Start))
  <2>1. "backend" \in Made(Range(Start))
    BY <1>1, <1>2 DEF Object
  <2> QED BY <2>1, <1>2 DEF There, Clean
<1>7. There(Range(Life)) = {} /\ Linked(Range(Life)) = {}
  BY <1>3, <1>4 DEF There, Linked, Built
<1> QED BY <1>2, <1>3, <1>4, <1>5, <1>6, <1>7, ClientsAreDestroyed

\* The first step of a program followed by another is its own.
LEMMA TailConcat ==
  ASSUME NEW S, NEW p \in Seq(S), NEW q \in Seq(S), p # <<>>
  PROVE  p \o q # <<>> /\ Head(p \o q) = Head(p) /\ Tail(p \o q) = Tail(p) \o q
<1>1. Len(p) \in Nat /\ Len(p) > 0 /\ Len(q) \in Nat
  BY LenProperties, EmptySeq
<1>2. /\ p \o q \in Seq(S) /\ Len(p \o q) = Len(p) + Len(q)
      /\ \A i \in 1 .. Len(p) + Len(q) :
           (p \o q)[i] = IF i <= Len(p) THEN p[i] ELSE q[i - Len(p)]
  BY ConcatProperties
<1>3. p \o q # <<>>
  BY <1>1, <1>2, EmptySeq
<1>4. /\ Tail(p) \in Seq(S) /\ Len(Tail(p)) = Len(p) - 1
      /\ \A i \in 1 .. Len(p) - 1 : Tail(p)[i] = p[i + 1]
      /\ Head(p) = p[1]
  BY HeadTailProperties
<1>5. /\ Tail(p \o q) \in Seq(S) /\ Len(Tail(p \o q)) = Len(p) + Len(q) - 1
      /\ \A i \in 1 .. Len(p) + Len(q) - 1 : Tail(p \o q)[i] = (p \o q)[i + 1]
      /\ Head(p \o q) = (p \o q)[1]
  BY <1>2, <1>3, HeadTailProperties
<1>6. /\ Tail(p) \o q \in Seq(S) /\ Len(Tail(p) \o q) = Len(p) + Len(q) - 1
      /\ \A i \in 1 .. Len(p) + Len(q) - 1 :
           (Tail(p) \o q)[i] = IF i <= Len(p) - 1 THEN Tail(p)[i] ELSE q[i - (Len(p) - 1)]
  <2>1. Len(Tail(p)) + Len(q) = Len(p) + Len(q) - 1
    BY <1>1, <1>4
  <2> QED BY <2>1, <1>4, ConcatProperties
<1>7. Head(p \o q) = Head(p)
  BY <1>1, <1>2, <1>4, <1>5
<1>8. ASSUME NEW i \in 1 .. Len(p) + Len(q) - 1
      PROVE  Tail(p \o q)[i] = (Tail(p) \o q)[i]
  <2>1. /\ i + 1 \in 1 .. Len(p) + Len(q) /\ i - (Len(p) - 1) = (i + 1) - Len(p)
        /\ i <= Len(p) - 1 => i \in 1 .. Len(p) - 1
    BY <1>1
  <2>2. CASE i <= Len(p) - 1
    BY <2>1, <2>2, <1>1, <1>2, <1>4, <1>5, <1>6
  <2>3. CASE ~(i <= Len(p) - 1)
    BY <2>1, <2>3, <1>1, <1>2, <1>5, <1>6
  <2> QED BY <2>2, <2>3
<1>9. Tail(p \o q) = Tail(p) \o q
  BY <1>5, <1>6, <1>8, SeqEqual
<1> QED BY <1>3, <1>7, <1>9

----------------------------------------------------------------------------
\* One step.

\* What one more step does.
LEMMA OneMore ==
  ASSUME NEW D, NEW s
  PROVE  LET E == D \cup {s} IN
         /\ s.op \in {"make", "try"} /\ s.on \notin Destroyed(D) =>
              There(E) = There(D) \cup {s.on} /\ Linked(E) = Linked(D)
         /\ s.op = "link" /\ s.on \notin OnOf({"unlink"}, D) =>
              There(E) = There(D) /\ Linked(E) = Linked(D) \cup {s.on}
         /\ s.op = "unlink" =>
              There(E) = There(D) /\ Linked(E) = Linked(D) \ {s.on}
         /\ s.op = "destroy" =>
              There(E) = There(D) \ With(s.on) /\ Linked(E) = Linked(D)
         /\ s.op \in {"socket", "start", "clients"} =>
              There(E) = There(D) /\ Linked(E) = Linked(D)
<1> DEFINE E == D \cup {s}
<1>1. Add(D, {s}) /\ E = D \cup {s}
  BY EffectsAdd
<1>2. \A ops : OnOf(ops, {s}) = IF s.op \in ops THEN {s.on} ELSE {}
  BY DEF OnOf
<1>3. /\ Made({s}) = IF s.op \in {"make", "try"} THEN {s.on} ELSE {}
      /\ OnOf({"link"}, {s}) = IF s.op = "link" THEN {s.on} ELSE {}
      /\ OnOf({"unlink"}, {s}) = IF s.op = "unlink" THEN {s.on} ELSE {}
  BY <1>2 DEF Made
<1>4. Destroyed({s}) = IF s.op = "destroy" THEN With(s.on) ELSE {}
  <2>1. OnOf({"destroy"}, {s}) = IF s.op = "destroy" THEN {s.on} ELSE {}
    BY <1>2
  <2> QED BY <2>1 DEF Destroyed
<1> HIDE DEF E
<1>5. /\ Made(E) = Made(D) \cup Made({s})
      /\ OnOf({"link"}, E) = OnOf({"link"}, D) \cup OnOf({"link"}, {s})
      /\ OnOf({"unlink"}, E) = OnOf({"unlink"}, D) \cup OnOf({"unlink"}, {s})
      /\ Destroyed(E) = Destroyed(D) \cup Destroyed({s})
  BY <1>1 DEF Add
<1>6. /\ There(E) = (Made(D) \cup Made({s})) \ (Destroyed(D) \cup Destroyed({s}))
      /\ Linked(E) = (OnOf({"link"}, D) \cup OnOf({"link"}, {s}))
                       \ (OnOf({"unlink"}, D) \cup OnOf({"unlink"}, {s}))
  BY <1>5 DEF There, Linked
<1> QED BY <1>3, <1>4, <1>6 DEF There, Linked, E

\* The case of wl_list_remove().
LEMMA OneUnlinked ==
  ASSUME NEW D, NEW s, s.op = "unlink"
  PROVE  There(D \cup {s}) = There(D) /\ Linked(D \cup {s}) = Linked(D) \ {s.on}
BY OneMore

\* The step that is next is one of the program's, and of the phase's.
LEMMA HeadOfTodo ==
  ASSUME TypeOK, PhaseInv, todo # <<>>
  PROVE  /\ Head(todo) \in StepRecord /\ Head(todo) \in Range(todo)
         /\ Tail(todo) \in Seq(StepRecord) /\ Range(Tail(todo)) \subseteq Range(todo)
         /\ Head(todo).op \in StartOperation => phase = "starting" /\ ~failed
         /\ Head(todo).op \in EndOperation => phase = "stopping"
<1>1. todo \in Seq(StepRecord)
  BY DEF TypeOK
<1>2. /\ Head(todo) = todo[1] /\ Head(todo) \in StepRecord /\ 1 \in DOMAIN todo
      /\ Tail(todo) \in Seq(StepRecord)
      /\ DOMAIN todo = 1 .. Len(todo) /\ Len(todo) \in Nat
      /\ DOMAIN Tail(todo) = 1 .. Len(todo) - 1
      /\ \A i \in 1 .. Len(todo) - 1 : Tail(todo)[i] = todo[i + 1]
  BY <1>1, LenProperties, HeadTailProperties, EmptySeq
<1>3. Range(Tail(todo)) \subseteq Range(todo)
  <2>1. \A i \in DOMAIN Tail(todo) : i + 1 \in DOMAIN todo /\ Tail(todo)[i] = todo[i + 1]
    BY <1>2
  <2> QED BY <2>1 DEF Range
<1>4. Head(todo) \in Range(todo)
  BY <1>2 DEF Range
<1> QED BY <1>2, <1>3, <1>4 DEF TypeOK, PhaseInv, StartOperation, EndOperation

\* Where the rest fits the steps D, its first step does, and the others fit then.
LEMMA RestOfLife ==
  ASSUME TypeOK, PhaseInv, todo # <<>>, NEW D \in SUBSET StepRecord, LifeInv(D),
         todo' = Tail(todo), phase' = phase
  PROVE  /\ Fit(Head(todo), D)
         /\ Fits(Rest', D \cup {Head(todo)})
         /\ (D \cup {Head(todo)}) \cup Range(Rest') = Range(Life)
<1>1. todo \in Seq(StepRecord) /\ Terminate \in Seq(StepRecord)
  BY LifeFits DEF TypeOK
<1>2. Rest \in Seq(StepRecord) /\ Rest # <<>> /\ Head(Rest) = Head(todo) /\ Rest' = Tail(Rest)
  <2>1. CASE phase \in {"starting", "running"}
    <3>1. todo \o Terminate \in Seq(StepRecord)
      BY <1>1, RangeConcat
    <3>2. /\ todo \o Terminate # <<>> /\ Head(todo \o Terminate) = Head(todo)
          /\ Tail(todo \o Terminate) = Tail(todo) \o Terminate
      BY <1>1, TailConcat
    <3>3. Terminate' = Terminate
      OBVIOUS
    <3>4. Rest = todo \o Terminate /\ Rest' = Tail(todo) \o Terminate
      BY <2>1, <3>3 DEF Rest
    <3> QED BY <3>1, <3>2, <3>4
  <2>2. CASE phase \notin {"starting", "running"}
    BY <2>2, <1>1 DEF Rest
  <2> QED BY <2>1, <2>2
<1>3. Fits(Rest, D) /\ D \cup Range(Rest) = Range(Life)
  BY DEF LifeInv
<1> HIDE DEF Rest
<1>4. /\ Fit(Head(Rest), D) /\ Fits(Tail(Rest), D \cup {Head(Rest)})
      /\ Range(Rest) = {Head(Rest)} \cup Range(Tail(Rest))
  BY <1>2, <1>3, FitsTail
<1> QED BY <1>2, <1>3, <1>4

\* A step of the program that does to the state what it does keeps the life in
\* order.
LEMMA LifeStep ==
  ASSUME TypeOK, PhaseInv, todo # <<>>, todo' = Tail(todo), phase' = phase,
         NEW D \in SUBSET StepRecord, LifeInv(D),
         NEW s, s = Head(todo),
         linked' = Linked(D \cup {s}),
         live' \subseteq There(D \cup {s}), There(D \cup {s}) \ live' \subseteq {"config"},
         Step("clients", None) \in D \cup {s} => inhibitors' = {} /\ ~mapped'
  PROVE  \E E \in SUBSET StepRecord : LifeInv(E)'
<1>1. D \cup {s} \in SUBSET StepRecord /\ s \in Range(todo)
  BY HeadOfTodo
<1>2. Fits(Rest', D \cup {s}) /\ (D \cup {s}) \cup Range(Rest') = Range(Life)
  BY RestOfLife
<1>3. phase' \in {"starting", "running"} => \A t \in D \cup {s} : t.op \in StartOperation
  BY <1>1, HeadOfTodo DEF LifeInv, PhaseInv, TypeOK
<1>4. LifeInv(D \cup {s})'
  BY <1>2, <1>3 DEF LifeInv
<1> QED BY <1>1, <1>4

\* The phase's operations stay the phase's.
LEMMA PhaseStep ==
  ASSUME TypeOK, PhaseInv, todo # <<>>, todo' = Tail(todo), phase' = phase,
         failed' = failed, mapped' => mapped
  PROVE  PhaseInv'
BY HeadOfTodo DEF PhaseInv, TypeOK

----------------------------------------------------------------------------
\* The inhibitors.

\* Whatever main() and the clients do, the inhibitors come and go as idle.c says.
LEMMA IdleStep == [Next]_vars => [Idle!Next]_idleVars
<1> SUFFICES ASSUME [Next]_vars PROVE [Idle!Next]_idleVars
  OBVIOUS
<1>1. ASSUME ClientsComeAndGo PROVE [Idle!Next]_idleVars
  BY <1>1 DEF ClientsComeAndGo, ClientsWhile
<1>2. ASSUME DestroyClients PROVE [Idle!Next]_idleVars
  BY <1>2 DEF DestroyClients, Idle!Next
<1>3. ASSUME Main, ~DestroyClients PROVE UNCHANGED idleVars
  BY <1>3 DEF Main, MakeObject, TryFails, LinkListener, OpenSocket, StartBackend, Run,
              UnlinkListener, DestroyObject, Exit, clientVars
<1>4. ASSUME StopRunning \/ UNCHANGED vars PROVE UNCHANGED idleVars
  BY <1>4 DEF StopRunning, vars, clientVars
<1> QED BY <1>1, <1>2, <1>3, <1>4 DEF Next

\* So their invariant is kept.
LEMMA InhibitKept == Inhibit!InhibitInv /\ [Next]_vars => Inhibit!InhibitInv'
<1>1. [Idle!Next]_idleVars => [Inhibit!Next]_(Inhibit!vars)
  <2>1. \A S : Inhibit!Cardinality(S) = Idle!Cardinality(S)
    BY DEF Inhibit!Cardinality, Idle!Cardinality
  <2> QED
    BY <2>1
    DEF Idle!Next, Idle!New, Idle!Destroy, Idle!DestroyUnarmed, Idle!Running,
        Idle!AnyOtherInhibitor, Idle!Disarm, idleVars,
        Inhibit!Next, Inhibit!New, Inhibit!Destroy, Inhibit!DestroyUnarmed,
        Inhibit!Running, Inhibit!AnyOtherInhibitor, Inhibit!Disarm, Inhibit!vars
<1> QED BY <1>1, IdleStep, Inhibit!InhibitStep, NoneIsNoInhibitor

\* What it says in Lifecycle's words.
LEMMA InhibitInvMeans ==
  Inhibit!InhibitInv => Idle!TypeOK
BY DEF Inhibit!InhibitInv, Inhibit!TypeOK, Idle!TypeOK

----------------------------------------------------------------------------
\* Start.

\* What each case below starts from.
StepInv == Inv /\ Inhibit!InhibitInv' /\ Idle!TypeOK'

\* Making an object.
LEMMA MakeStep == StepInv /\ MakeObject => Inv'
<1> SUFFICES ASSUME StepInv, MakeObject PROVE Inv'
  OBVIOUS
<1> DEFINE s == Head(todo)
<1>1. TypeOK /\ PhaseInv /\ todo # <<>> /\ todo' = Tail(todo) /\ phase' = phase
  BY DEF StepInv, Inv, MakeObject, Now, Go
<1>2. s.op \in {"make", "try"} /\ phase = "starting" /\ ~failed
  BY <1>1, HeadOfTodo DEF MakeObject, Now, StartOperation
<1>3. PICK D \in SUBSET StepRecord : LifeInv(D)
  BY <1>2 DEF StepInv, Inv
<1>4. s.on \in Object \ Destroyed(D)
  BY <1>1, <1>2, <1>3, RestOfLife DEF Fit
<1>5. There(D \cup {s}) = There(D) \cup {s.on} /\ Linked(D \cup {s}) = Linked(D)
  BY <1>2, <1>4, OneMore
<1>6. live' = live \cup {s.on} /\ UNCHANGED <<linked, failed, mapped, plugged, inhibitors, fault>>
  BY DEF MakeObject, On, clientVars, idleVars
<1>7. Step("clients", None) \in D \cup {s} => inhibitors' = {} /\ ~mapped'
  BY <1>2, <1>3, <1>6 DEF LifeInv, Step
<1>8. /\ linked' = Linked(D \cup {s})
      /\ live' \subseteq There(D \cup {s}) /\ There(D \cup {s}) \ live' \subseteq {"config"}
  BY <1>3, <1>5, <1>6 DEF LifeInv
<1>9. \E E \in SUBSET StepRecord : LifeInv(E)'
  BY <1>1, <1>3, <1>7, <1>8, LifeStep
<1>10. PhaseInv'
  BY <1>1, <1>6, PhaseStep
<1>11. TypeOK'
  BY <1>1, <1>4, <1>6, HeadOfTodo DEF TypeOK, StepInv
<1> QED BY <1>6, <1>9, <1>10, <1>11 DEF Inv, OrderlyEnd, StepInv

\* Failing to make one.
LEMMA TryFailsStep == StepInv /\ TryFails => Inv'
<1> SUFFICES ASSUME StepInv, TryFails PROVE Inv'
  OBVIOUS
<1> DEFINE s == Head(todo)
<1>1. TypeOK /\ PhaseInv /\ todo # <<>> /\ s.op = "try"
  BY DEF StepInv, Inv, TryFails, Now
<1>2. phase = "starting" /\ ~failed
  BY <1>1, HeadOfTodo DEF StartOperation
<1>3. UNCHANGED <<live, linked, mapped, plugged, inhibitors, fault>>
  BY DEF TryFails, clientVars, idleVars
<1>4. CASE s.on = "config"
  <2>1. todo' = Tail(todo) /\ phase' = phase /\ failed' = failed
    BY <1>1, <1>4 DEF TryFails, On, Go, TypeOK
  <2>2. PICK D \in SUBSET StepRecord : LifeInv(D)
    BY <1>2 DEF StepInv, Inv
  <2>3. s.on \in Object \ Destroyed(D)
    BY <1>1, <2>1, <2>2, RestOfLife DEF Fit
  <2>4. There(D \cup {s}) = There(D) \cup {s.on} /\ Linked(D \cup {s}) = Linked(D)
    BY <1>1, <2>3, OneMore
  <2>5. Step("clients", None) \in D \cup {s} => inhibitors' = {} /\ ~mapped'
    BY <1>1, <1>3, <2>2 DEF LifeInv, Step
  <2>6. /\ linked' = Linked(D \cup {s})
        /\ live' \subseteq There(D \cup {s}) /\ There(D \cup {s}) \ live' \subseteq {"config"}
    BY <1>3, <1>4, <2>2, <2>4 DEF LifeInv
  <2>7. \E E \in SUBSET StepRecord : LifeInv(E)'
    BY <1>1, <2>1, <2>2, <2>5, <2>6, LifeStep
  <2>8. PhaseInv'
    BY <1>1, <1>3, <2>1, PhaseStep
  <2>9. TypeOK'
    BY <1>1, <1>3, <2>1, HeadOfTodo DEF TypeOK, StepInv
  <2> QED BY <1>3, <2>1, <2>7, <2>8, <2>9 DEF Inv, OrderlyEnd, StepInv
<1>5. CASE s.on # "config"
  <2>1. todo' = <<>> /\ phase' = "exited" /\ failed'
    BY <1>5 DEF TryFails, On
  <2>2. TypeOK'
    BY <1>1, <1>2, <1>3, <2>1 DEF TypeOK, StepInv
  <2>3. PhaseInv'
    BY <1>1, <1>2, <1>3, <2>1 DEF PhaseInv, TypeOK
  <2> QED BY <2>1, <2>2, <2>3 DEF Inv, OrderlyEnd, StepInv
<1> QED BY <1>4, <1>5

\* Linking a listener: its owner is there.
LEMMA LinkStep == StepInv /\ LinkListener => Inv'
<1> SUFFICES ASSUME StepInv, LinkListener PROVE Inv'
  OBVIOUS
<1> DEFINE s == Head(todo)
<1>1. TypeOK /\ PhaseInv /\ todo # <<>> /\ todo' = Tail(todo) /\ phase' = phase
  BY DEF StepInv, Inv, LinkListener, Now, Go
<1>2. s.op = "link" /\ phase = "starting" /\ ~failed
  BY <1>1, HeadOfTodo DEF LinkListener, Now, StartOperation
<1>3. PICK D \in SUBSET StepRecord : LifeInv(D)
  BY <1>2 DEF StepInv, Inv
<1>4. s.on \in Listener \ OnOf({"unlink"}, D) /\ Owner[s.on] \in There(D)
  BY <1>1, <1>2, <1>3, RestOfLife DEF Fit
<1>5. There(D \cup {s}) = There(D) /\ Linked(D \cup {s}) = Linked(D) \cup {s.on}
  BY <1>2, <1>4, OneMore
<1>6. Owner[s.on] # "config"
  BY <1>4 DEF Owner, Listener
<1>7. Owner[s.on] \in live
  BY <1>3, <1>4, <1>6 DEF LifeInv
<1>8. /\ linked' = linked \cup {s.on}
      /\ UNCHANGED <<live, failed, mapped, plugged, inhibitors, fault>>
  BY <1>7 DEF LinkListener, On, clientVars, idleVars
<1>9. Step("clients", None) \in D \cup {s} => inhibitors' = {} /\ ~mapped'
  BY <1>2, <1>3, <1>8 DEF LifeInv, Step
<1>10. /\ linked' = Linked(D \cup {s})
       /\ live' \subseteq There(D \cup {s}) /\ There(D \cup {s}) \ live' \subseteq {"config"}
  BY <1>3, <1>5, <1>8 DEF LifeInv
<1>11. \E E \in SUBSET StepRecord : LifeInv(E)'
  BY <1>1, <1>3, <1>9, <1>10, LifeStep
<1>12. PhaseInv'
  BY <1>1, <1>8, PhaseStep
<1>13. TypeOK'
  BY <1>1, <1>4, <1>8, HeadOfTodo DEF TypeOK, StepInv
<1> QED BY <1>8, <1>11, <1>12, <1>13 DEF Inv, OrderlyEnd, StepInv

\* The ends of a start that failed.
LEMMA FailedEnds ==
  ASSUME NEW xs \in Seq(Object)
  PROVE  /\ Destroy(xs) \o Terminate \in Seq(StepRecord)
         /\ \A s \in Range(Destroy(xs) \o Terminate) : s.op \in EndOperation
<1> DEFINE p == Destroy(xs)
<1>1. p \in Seq(StepRecord) /\ Range(p) = {Step("destroy", x) : x \in Range(xs)}
  <2>1. xs \in Seq(Object \cup Listener \cup {None}) /\ "destroy" \in Operation
    BY SeqMonotonic DEF Operation
  <2> QED BY <2>1, StepsAreProgram DEF Destroy
<1>2. \A s \in Range(p) : s.op \in EndOperation
  BY <1>1 DEF Step, EndOperation
<1> HIDE DEF p
<1>3. p \o Terminate \in Seq(StepRecord) /\ Range(p \o Terminate) = Range(p) \cup Range(Terminate)
  BY <1>1, LifeFits, RangeConcat
<1> QED BY <1>2, <1>3, LifeFits DEF p

\* Opening the socket.
LEMMA SocketStep == StepInv /\ OpenSocket => Inv'
<1> SUFFICES ASSUME StepInv, OpenSocket PROVE Inv'
  OBVIOUS
<1> DEFINE s == Head(todo)
<1>1. TypeOK /\ PhaseInv /\ todo # <<>> /\ s.op = "socket"
  BY DEF StepInv, Inv, OpenSocket, Now
<1>2. phase = "starting" /\ ~failed
  BY <1>1, HeadOfTodo DEF StartOperation
<1>3. UNCHANGED <<live, linked, mapped, plugged, inhibitors, fault>>
  BY DEF OpenSocket, clientVars, idleVars
<1>4. CASE todo' = Tail(todo) /\ UNCHANGED <<phase, failed>>
  <2>1. PICK D \in SUBSET StepRecord : LifeInv(D)
    BY <1>2 DEF StepInv, Inv
  <2>2. There(D \cup {s}) = There(D) /\ Linked(D \cup {s}) = Linked(D)
    BY <1>1, OneMore
  <2>3. Step("clients", None) \in D \cup {s} => inhibitors' = {} /\ ~mapped'
    BY <1>1, <1>3, <2>1 DEF LifeInv, Step
  <2>4. /\ linked' = Linked(D \cup {s})
        /\ live' \subseteq There(D \cup {s}) /\ There(D \cup {s}) \ live' \subseteq {"config"}
    BY <1>3, <2>1, <2>2 DEF LifeInv
  <2>5. \E E \in SUBSET StepRecord : LifeInv(E)'
    BY <1>1, <1>4, <2>1, <2>3, <2>4, LifeStep
  <2>6. PhaseInv'
    BY <1>1, <1>3, <1>4, PhaseStep
  <2>7. TypeOK'
    BY <1>1, <1>3, <1>4, HeadOfTodo DEF TypeOK, StepInv
  <2> QED BY <1>3, <1>4, <2>5, <2>6, <2>7 DEF Inv, OrderlyEnd, StepInv
<1>5. CASE todo' = Destroy(<<"backend">>) \o Terminate /\ phase' = "stopping" /\ failed' = TRUE
  <2>1. /\ todo' \in Seq(StepRecord)
        /\ \A t \in Range(todo') : t.op \in EndOperation
    <3>1. <<"backend">> \in Seq(Object)
      BY DEF Object
    <3> QED BY <1>5, <3>1, FailedEnds
  <2>2. TypeOK'
    BY <1>1, <1>3, <1>5, <2>1 DEF TypeOK, StepInv
  <2>3. PhaseInv'
    BY <1>1, <1>2, <1>3, <1>5, <2>1 DEF PhaseInv, TypeOK
  <2> QED BY <1>5, <2>2, <2>3 DEF Inv, OrderlyEnd, StepInv
<1> QED BY <1>4, <1>5 DEF OpenSocket, Go

\* Starting the backend: what new devices use is there.
LEMMA StartStep == StepInv /\ StartBackend => Inv'
<1> SUFFICES ASSUME StepInv, StartBackend PROVE Inv'
  OBVIOUS
<1> DEFINE s == Head(todo)
<1>1. TypeOK /\ PhaseInv /\ todo # <<>> /\ s.op = "start"
  BY DEF StepInv, Inv, StartBackend, Now
<1>2. phase = "starting" /\ ~failed
  BY <1>1, HeadOfTodo DEF StartOperation
<1>3. UNCHANGED <<live, linked, mapped, inhibitors>>
  BY DEF StartBackend, idleVars
<1>4. CASE todo' = Tail(todo) /\ UNCHANGED <<phase, failed>>
  <2>1. PICK D \in SUBSET StepRecord : LifeInv(D)
    BY <1>2 DEF StepInv, Inv
  <2>2. There(D \cup {s}) = There(D) /\ Linked(D \cup {s}) = Linked(D)
    BY <1>1, OneMore
  <2>3. DeviceNeeds \cup {"backend"} \subseteq live
    <3>1. DeviceNeeds \cup {"backend"} \subseteq There(D)
      BY <1>1, <1>4, <2>1, RestOfLife DEF Fit
    <3>2. "config" \notin DeviceNeeds \cup {"backend"}
      BY DEF DeviceNeeds
    <3> QED BY <3>1, <3>2, <2>1 DEF LifeInv
  <2>4. fault' = fault /\ plugged' \in BOOLEAN
    <3>1. phase' # "stopping"
      BY <1>2, <1>4
    <3> QED BY <2>3, <3>1 DEF StartBackend
  <2>5. Step("clients", None) \in D \cup {s} => inhibitors' = {} /\ ~mapped'
    BY <1>1, <1>3, <2>1 DEF LifeInv, Step
  <2>6. /\ linked' = Linked(D \cup {s})
        /\ live' \subseteq There(D \cup {s}) /\ There(D \cup {s}) \ live' \subseteq {"config"}
    BY <1>3, <2>1, <2>2 DEF LifeInv
  <2>7. \E E \in SUBSET StepRecord : LifeInv(E)'
    BY <1>1, <1>4, <2>1, <2>5, <2>6, LifeStep
  <2>8. PhaseInv'
    BY <1>1, <1>3, <1>4, PhaseStep
  <2>9. TypeOK'
    BY <1>1, <1>3, <1>4, <2>3, <2>4, HeadOfTodo DEF TypeOK, StepInv
  <2> QED BY <1>4, <2>4, <2>7, <2>8, <2>9 DEF Inv, OrderlyEnd, StepInv
<1>5. CASE /\ todo' = Destroy(<<"backend", "display">>) \o Terminate
           /\ phase' = "stopping" /\ failed' = TRUE /\ UNCHANGED <<plugged, fault>>
  <2>1. /\ todo' \in Seq(StepRecord)
        /\ \A t \in Range(todo') : t.op \in EndOperation
    <3>1. <<"backend", "display">> \in Seq(Object)
      BY DEF Object
    <3> QED BY <1>5, <3>1, FailedEnds
  <2>2. TypeOK'
    BY <1>1, <1>3, <1>5, <2>1 DEF TypeOK, StepInv
  <2>3. PhaseInv'
    BY <1>1, <1>2, <1>3, <1>5, <2>1 DEF PhaseInv, TypeOK
  <2> QED BY <1>5, <2>2, <2>3 DEF Inv, OrderlyEnd, StepInv
<1> QED BY <1>4, <1>5 DEF StartBackend, Go

----------------------------------------------------------------------------
\* While it runs.

\* While it runs, the whole start is done and none of the end.
LEMMA Started ==
  ASSUME TypeOK, PhaseInv, NEW D \in SUBSET StepRecord, LifeInv(D),
         phase \in {"starting", "running"}, todo = <<>>
  PROVE  Rest = Terminate /\ "backend" \in live /\ Step("clients", None) \notin D
<1>1. Rest = Terminate
  BY LifeFits, ConcatEmptySeq DEF Rest
<1>2. \A s \in D : s.op \in StartOperation
  BY DEF LifeInv
<1>3. Range(Start) \subseteq D
  <2>1. D \cup Range(Terminate) = Range(Start) \cup Range(Terminate)
    BY <1>1, LifeFits DEF LifeInv
  <2>2. \A s \in Range(Start) : s.op \notin EndOperation
    BY LifeFits DEF StartOperation, EndOperation
  <2> QED BY <2>1, <2>2, LifeFits
<1>4. "backend" \in There(D)
  <2>1. "backend" \in Made(D)
    BY <1>3, LifeFits DEF There, Made, OnOf
  <2>2. Destroyed(D) = {}
    <3>1. OnOf({"destroy"}, D) = {}
      BY <1>2 DEF OnOf, StartOperation
    <3> QED BY <3>1 DEF Destroyed
  <2> QED BY <2>1, <2>2 DEF There
<1>5. "backend" \in live
  BY <1>4 DEF LifeInv
<1>6. Step("clients", None) \notin D
  BY <1>2 DEF Step, StartOperation
<1> QED BY <1>1, <1>5, <1>6

\* The end of the start, and of the running.
LEMMA RunStep == StepInv /\ (Run \/ StopRunning) => Inv'
<1> SUFFICES ASSUME StepInv, Run \/ StopRunning PROVE Inv'
  OBVIOUS
<1>1. TypeOK /\ PhaseInv /\ phase \in {"starting", "running"} /\ ~failed
  BY DEF StepInv, Inv, Run, StopRunning, PhaseInv
<1>2. PICK D \in SUBSET StepRecord : LifeInv(D)
  BY <1>1 DEF StepInv, Inv
<1>3. /\ UNCHANGED <<live, linked, failed, mapped, plugged, inhibitors, fault>>
      /\ todo = <<>>
  BY <1>1 DEF Run, StopRunning, clientVars, idleVars, PhaseInv
<1>4. Rest = Terminate /\ Step("clients", None) \notin D
  BY <1>1, <1>2, <1>3, Started
<1>5. Rest' = Terminate
  <2>1. CASE Run
    BY <2>1, LifeFits, ConcatEmptySeq DEF Run, Rest
  <2>2. CASE StopRunning
    BY <2>2 DEF StopRunning, Rest
  <2> QED BY <2>1, <2>2
<1>6. LifeInv(D)'
  BY <1>1, <1>2, <1>3, <1>4, <1>5 DEF LifeInv
<1>7. TypeOK'
  BY <1>1, <1>3, LifeFits DEF TypeOK, StepInv, Run, StopRunning
<1>8. PhaseInv'
  BY <1>1, LifeFits DEF PhaseInv, Run, StopRunning
<1> QED BY <1>2, <1>3, <1>6, <1>7, <1>8 DEF Inv, OrderlyEnd, StepInv

\* What clients and devices do meanwhile.
LEMMA ClientsStep == StepInv /\ ClientsComeAndGo => Inv'
<1> SUFFICES ASSUME StepInv, ClientsComeAndGo PROVE Inv'
  OBVIOUS
<1>1. TypeOK /\ PhaseInv /\ phase = "running" /\ todo = <<>> /\ ~failed
  BY DEF StepInv, Inv, ClientsComeAndGo, ClientsWhile, PhaseInv
<1>2. PICK D \in SUBSET StepRecord : LifeInv(D)
  BY <1>1 DEF StepInv, Inv
<1>3. "backend" \in live /\ Step("clients", None) \notin D
  BY <1>1, <1>2, Started
<1>4. /\ UNCHANGED <<phase, todo, live, linked, failed, fault>>
      /\ mapped' \in BOOLEAN /\ plugged' \in BOOLEAN
  BY <1>1 DEF ClientsComeAndGo, ClientsWhile, TypeOK
<1>5. LifeInv(D)'
  BY <1>2, <1>3, <1>4 DEF LifeInv, Rest
<1>6. TypeOK'
  BY <1>1, <1>3, <1>4 DEF TypeOK, StepInv
<1>7. PhaseInv'
  BY <1>1, <1>4 DEF PhaseInv
<1> QED BY <1>2, <1>4, <1>5, <1>6, <1>7 DEF Inv, OrderlyEnd, StepInv

----------------------------------------------------------------------------
\* End.

\* Unlinking a listener: it is linked, and its owner is there.
LEMMA UnlinkStep == StepInv /\ UnlinkListener => Inv'
<1> SUFFICES ASSUME StepInv, UnlinkListener PROVE Inv'
  OBVIOUS
<1> DEFINE s == Head(todo)
<1>1. TypeOK /\ PhaseInv /\ todo # <<>> /\ todo' = Tail(todo) /\ phase' = phase
  BY DEF StepInv, Inv, UnlinkListener, Now, Go
<1>2. s.op = "unlink" /\ phase = "stopping"
  BY <1>1, HeadOfTodo DEF UnlinkListener, Now, EndOperation
<1>3. /\ linked' = linked \ {s.on} /\ fault' \in FaultSite \cup {"none"}
      /\ UNCHANGED <<live, failed, mapped, plugged, inhibitors>>
  BY <1>1 DEF UnlinkListener, On, clientVars, idleVars, Undefined, FaultSite, TypeOK
<1>4. PhaseInv'
  BY <1>1, <1>3, PhaseStep
<1>5. TypeOK'
  BY <1>1, <1>3, HeadOfTodo DEF TypeOK, StepInv
<1>6. CASE failed
  BY <1>3, <1>4, <1>5, <1>6 DEF Inv, OrderlyEnd, StepInv
<1>7. CASE ~failed
  <2>1. PICK D \in SUBSET StepRecord : LifeInv(D)
    BY <1>7 DEF StepInv, Inv
  <2>2. s.on \in Linked(D) /\ Owner[s.on] \in There(D)
    BY <1>1, <1>2, <2>1, RestOfLife DEF Fit
  <2>3. There(D \cup {s}) = There(D) /\ Linked(D \cup {s}) = Linked(D) \ {s.on}
    <3> HIDE DEF s
    <3> QED BY <1>2, OneUnlinked
  <2>4. s.on \in linked
    BY <2>1, <2>2 DEF LifeInv
  <2>5. Owner[s.on] \in live
    <3>1. s.on \in Listener
      BY <1>1, <2>4 DEF TypeOK
    <3>2. Owner[s.on] # "config"
      BY <3>1 DEF Owner, Listener
    <3> QED BY <2>1, <2>2, <3>2 DEF LifeInv
  <2>6. fault' = fault
    BY <2>4, <2>5 DEF UnlinkListener, On
  <2>7. Step("clients", None) \in D \cup {s} => inhibitors' = {} /\ ~mapped'
    BY <1>2, <1>3, <2>1 DEF LifeInv, Step
  <2>8. /\ linked' = Linked(D \cup {s})
        /\ live' \subseteq There(D \cup {s}) /\ There(D \cup {s}) \ live' \subseteq {"config"}
    BY <1>3, <2>1, <2>3 DEF LifeInv
  <2>9. \E E \in SUBSET StepRecord : LifeInv(E)'
    BY <1>1, <2>1, <2>7, <2>8, LifeStep
  <2> QED BY <1>3, <1>4, <1>5, <2>6, <2>9 DEF Inv, OrderlyEnd, StepInv
<1> QED BY <1>6, <1>7

\* Destroying an object: it is there, nothing is linked in it, and the devices
\* that go with the backend find what they use.
LEMMA DestroyStep == StepInv /\ DestroyObject => Inv'
<1> SUFFICES ASSUME StepInv, DestroyObject PROVE Inv'
  OBVIOUS
<1> DEFINE s == Head(todo)
<1>1. TypeOK /\ PhaseInv /\ todo # <<>> /\ todo' = Tail(todo) /\ phase' = phase
  BY DEF StepInv, Inv, DestroyObject, Now, Go
<1>2. s.op = "destroy" /\ phase = "stopping"
  BY <1>1, HeadOfTodo DEF DestroyObject, Now, EndOperation
<1>3. /\ live' = live \ With(s.on) /\ fault' \in FaultSite \cup {"none"}
      /\ plugged' = (plugged /\ s.on # "backend")
      /\ UNCHANGED <<linked, failed, mapped, inhibitors>>
  BY <1>1 DEF DestroyObject, On, idleVars, Undefined, FaultSite, TypeOK
<1>4. PhaseInv'
  BY <1>1, <1>3, PhaseStep
<1>5. TypeOK'
  <2>1. s.on # "backend" => "backend" \notin With(s.on)
    BY DEF With, Globals
  <2>2. plugged' \in BOOLEAN /\ (plugged' => "backend" \in live')
    BY <1>1, <1>3, <2>1 DEF TypeOK
  <2> QED BY <1>1, <1>3, <2>2, HeadOfTodo DEF TypeOK, StepInv
<1>6. CASE failed
  BY <1>3, <1>4, <1>5, <1>6 DEF Inv, OrderlyEnd, StepInv
<1>7. CASE ~failed
  <2>1. PICK D \in SUBSET StepRecord : LifeInv(D)
    BY <1>7 DEF StepInv, Inv
  <2>2. /\ s.on \in There(D)
        /\ \A l \in Linked(D) : Owner[l] \notin With(s.on)
        /\ s.on = "backend" => {"scene", "wb_seat"} \subseteq There(D)
    BY <1>1, <1>2, <2>1, RestOfLife DEF Fit
  <2>3. There(D \cup {s}) = There(D) \ With(s.on) /\ Linked(D \cup {s}) = Linked(D)
    BY <1>2, OneMore
  <2>4. s.on \in live \/ s.on = "config"
    BY <2>1, <2>2 DEF LifeInv
  <2>5. \A l \in linked : Owner[l] \notin With(s.on)
    BY <2>1, <2>2 DEF LifeInv
  <2>6. s.on = "backend" => {"scene", "wb_seat"} \subseteq live
    BY <2>1, <2>2 DEF LifeInv
  <2>7. fault' = fault
    BY <2>4, <2>5, <2>6 DEF DestroyObject, On
  <2>8. Step("clients", None) \in D \cup {s} => inhibitors' = {} /\ ~mapped'
    BY <1>2, <1>3, <2>1 DEF LifeInv, Step
  <2>9. /\ linked' = Linked(D \cup {s})
        /\ live' \subseteq There(D \cup {s}) /\ There(D \cup {s}) \ live' \subseteq {"config"}
    BY <1>3, <2>1, <2>3 DEF LifeInv
  <2>10. \E E \in SUBSET StepRecord : LifeInv(E)'
    BY <1>1, <2>1, <2>8, <2>9, LifeStep
  <2> QED BY <1>3, <1>4, <1>5, <2>7, <2>10 DEF Inv, OrderlyEnd, StepInv
<1> QED BY <1>6, <1>7

\* The clients are destroyed one after the other, and then the program goes on.
LEMMA DestroyClientsStep == StepInv /\ DestroyClients => Inv'
<1> SUFFICES ASSUME StepInv, DestroyClients PROVE Inv'
  OBVIOUS
<1> DEFINE s == Head(todo)
<1>1. TypeOK /\ PhaseInv /\ todo # <<>> /\ phase' = phase
  BY DEF StepInv, Inv, DestroyClients, Now
<1>2. s.op = "clients" /\ phase = "stopping"
  BY <1>1, HeadOfTodo DEF DestroyClients, Now, EndOperation
<1>3. UNCHANGED <<live, linked, failed, plugged>>
  BY DEF DestroyClients
<1>4. CASE /\ ~mapped /\ inhibitors = {} /\ todo' = Tail(todo)
           /\ UNCHANGED <<mapped, inhibitors, fault>>
  <2>1. PhaseInv'
    BY <1>1, <1>3, <1>4, PhaseStep
  <2>2. TypeOK'
    BY <1>1, <1>3, <1>4, HeadOfTodo DEF TypeOK, StepInv
  <2>3. CASE failed
    BY <1>3, <1>4, <2>1, <2>2, <2>3 DEF Inv, OrderlyEnd, StepInv
  <2>4. CASE ~failed
    <3>1. PICK D \in SUBSET StepRecord : LifeInv(D)
      BY <2>4 DEF StepInv, Inv
    <3>2. There(D \cup {s}) = There(D) /\ Linked(D \cup {s}) = Linked(D)
      BY <1>2, OneMore
    <3>3. /\ linked' = Linked(D \cup {s})
          /\ live' \subseteq There(D \cup {s}) /\ There(D \cup {s}) \ live' \subseteq {"config"}
      BY <1>3, <3>1, <3>2 DEF LifeInv
    <3>4. \E E \in SUBSET StepRecord : LifeInv(E)'
      BY <1>1, <1>4, <3>1, <3>3, LifeStep
    <3> QED BY <1>3, <1>4, <2>1, <2>2, <3>4 DEF Inv, OrderlyEnd, StepInv
  <2> QED BY <2>3, <2>4
<1>5. CASE /\ UNCHANGED todo /\ (mapped' => mapped) /\ mapped' \in BOOLEAN
           /\ inhibitors' \subseteq inhibitors
           /\ fault' \in {fault, "none", "cursor_freed"}
  <2>1. PhaseInv'
    BY <1>1, <1>3, <1>5 DEF PhaseInv
  <2>2. TypeOK'
    BY <1>1, <1>2, <1>3, <1>5 DEF TypeOK, StepInv, FaultSite
  <2>3. OrderlyEnd'
    BY <1>3, <1>5 DEF OrderlyEnd, StepInv, Inv
  <2>4. ~failed => \E D \in SUBSET StepRecord : LifeInv(D)'
    <3>1. ASSUME ~failed PROVE \E D \in SUBSET StepRecord : LifeInv(D)
      BY <3>1 DEF StepInv, Inv
    <3>2. ASSUME NEW D \in SUBSET StepRecord, LifeInv(D) PROVE LifeInv(D)'
      <4>1. Rest' = Rest
        BY <1>1, <1>5 DEF Rest
      <4> QED BY <1>1, <1>3, <1>5, <3>2, <4>1 DEF LifeInv
    <3> QED BY <3>1, <3>2
  <2> QED BY <1>3, <2>1, <2>2, <2>3, <2>4 DEF Inv, StepInv
<1>6. mapped' \in BOOLEAN
  BY <1>1 DEF DestroyClients, TypeOK
<1> QED
  BY <1>1, <1>4, <1>5, <1>6
  DEF DestroyClients, Go, Idle!Destroy, Idle!DestroyUnarmed, idleVars, Undefined, TypeOK

\* main() returns.
LEMMA ExitStep == StepInv /\ Exit => Inv'
<1> SUFFICES ASSUME StepInv, Exit PROVE Inv'
  OBVIOUS
<1>1. /\ TypeOK /\ PhaseInv /\ phase = "stopping" /\ todo = <<>> /\ phase' = "exited"
      /\ UNCHANGED <<todo, live, linked, failed, mapped, plugged, inhibitors, fault>>
  BY DEF StepInv, Inv, Exit, clientVars, idleVars
<1>2. Rest' = Rest /\ PhaseInv'
  BY <1>1 DEF Rest, PhaseInv
<1>3. ASSUME NEW D \in SUBSET StepRecord, LifeInv(D)
      PROVE  LifeInv(D)' /\ ~mapped
  <2>1. Rest = <<>> /\ Range(Rest) = {}
    BY <1>1 DEF Rest, Range
  <2>2. Step("clients", None) \in D
    BY <1>3, <2>1, LifeFits DEF LifeInv
  <2> QED BY <1>1, <1>2, <1>3, <2>2 DEF LifeInv
<1>4. ~mapped /\ (~failed => \E D \in SUBSET StepRecord : LifeInv(D)')
  BY <1>1, <1>3 DEF StepInv, Inv, PhaseInv
<1>5. TypeOK' /\ OrderlyEnd'
  BY <1>1, <1>4 DEF TypeOK, StepInv, Inv, OrderlyEnd
<1> QED BY <1>1, <1>2, <1>4, <1>5 DEF Inv, StepInv

----------------------------------------------------------------------------
\* Every state.

\* main() begins with its whole life before it.
LEMMA InitInv == Init => Inv
<1> SUFFICES ASSUME Init PROVE Inv
  OBVIOUS
<1>1. /\ phase = "starting" /\ todo = Start /\ ~failed /\ ~mapped
      /\ live = {} /\ linked = {} /\ fault = "none"
  BY DEF Init, Start
<1>2. Inhibit!InhibitInv
  <2>1. Inhibit!Init
    BY DEF Init, Idle!Init, Inhibit!Init
  <2> QED BY <2>1, Inhibit!InhibitInit, NoneIsNoInhibitor
<1>3. TypeOK
  BY <1>1, <1>2, InhibitInvMeans, LifeFits DEF TypeOK, Init
<1>4. PhaseInv /\ OrderlyEnd
  BY <1>1, LifeFits DEF PhaseInv, OrderlyEnd
<1>5. LifeInv({})
  <2>1. Rest = Life
    BY <1>1 DEF Rest, Life
  <2>2. Linked({}) = {} /\ There({}) = {}
    BY DEF Linked, There, Made, OnOf
  <2> QED BY <1>1, <2>1, <2>2, LifeFits DEF LifeInv
<1> QED BY <1>2, <1>3, <1>4, <1>5 DEF Inv

\* Every step of main() and of the clients keeps it.
LEMMA NextInv == Inv /\ [Next]_vars => Inv'
<1> SUFFICES ASSUME Inv, [Next]_vars PROVE Inv'
  OBVIOUS
<1>1. StepInv
  <2>1. Inhibit!InhibitInv'
    BY InhibitKept DEF Inv
  <2>2. Idle!TypeOK'
    BY <2>1, InhibitInvMeans, PTL
  <2> QED BY <2>1, <2>2 DEF StepInv
<1>2. CASE Main
  BY <1>1, <1>2, MakeStep, TryFailsStep, LinkStep, SocketStep, StartStep, RunStep,
     UnlinkStep, DestroyStep, DestroyClientsStep, ExitStep DEF Main
<1>3. CASE ClientsComeAndGo \/ StopRunning
  BY <1>1, <1>3, ClientsStep, RunStep
<1>4. CASE UNCHANGED vars
  <2>1. UNCHANGED <<phase, todo, live, linked, failed, mapped, plugged, inhibitors, fault>>
    BY <1>4 DEF vars, clientVars, idleVars
  <2>2. Rest' = Rest
    BY <2>1 DEF Rest
  <2>3. \A D \in SUBSET StepRecord : LifeInv(D) => LifeInv(D)'
    BY <2>1, <2>2 DEF LifeInv
  <2>4. TypeOK' /\ PhaseInv' /\ OrderlyEnd'
    BY <1>1, <2>1 DEF StepInv, Inv, TypeOK, PhaseInv, OrderlyEnd
  <2> QED BY <1>1, <2>1, <2>3, <2>4 DEF StepInv, Inv
<1> QED BY <1>2, <1>3, <1>4 DEF Next

\* It holds always.
LEMMA Always == Spec => []Inv
BY InitInv, NextInv, PTL DEF Spec

\* Where main() has returned from a server that started, all its life is done.
LEMMA InvMeans == Inv => TypeOK /\ OrderlyEnd /\ NothingIsLeft
<1> SUFFICES ASSUME Inv PROVE TypeOK /\ OrderlyEnd /\ NothingIsLeft
  OBVIOUS
<1>2. ASSUME phase = "exited", ~failed
      PROVE  live = {} /\ linked = {} /\ inhibitors = {}
  <2>1. PICK D \in SUBSET StepRecord : LifeInv(D)
    BY <1>2 DEF Inv
  <2>2. Range(Rest) = {}
    BY <1>2 DEF Inv, PhaseInv, Rest, Range
  <2>3. D = Range(Life)
    BY <2>1, <2>2 DEF LifeInv
  <2> QED BY <2>1, <2>3, LifeFits DEF LifeInv
<1> QED BY <1>2 DEF Inv, NothingIsLeft

----------------------------------------------------------------------------
\* The theorems.

\* Types: clients have windows only while it runs or ends, and devices are
\* plugged only into a backend that is there.
THEOREM LifecycleTypeCorrect == Spec => []TypeOK
BY Always, InvMeans, PTL

\* A server that started does nothing twice or too late when it ends: what
\* wb_terminate() unlinks is linked, what it destroys is there with nothing
\* linked in it, and the devices that go with the backend find what they use.
THEOREM EndsInOrder == Spec => []OrderlyEnd
BY Always, InvMeans, PTL

\* wb_terminate() takes back all that wb_create_backend() and wb_start_server()
\* made and linked, and the clients are gone with it.
THEOREM LeavesNothing == Spec => []NothingIsLeft
BY Always, InvMeans, PTL

\* Whatever main() does, the inhibitors of its clients behave as idle.c says: with
\* InhibitCorrect, the screen may blank exactly when no client inhibits it, up to
\* the destruction of the clients at the end.
THEOREM ImplementsIdleInhibit == Spec => Idle!Spec
<1>1. Init => Idle!Init
  BY DEF Init
<1> QED BY <1>1, IdleStep, PTL DEF Spec, Idle!Spec, Idle!vars, idleVars

----------------------------------------------------------------------------
\* The end of the end.

\* There are finitely many inhibitors.
LEMMA InhibitorsFinite == Inv => IsFiniteSet(inhibitors)
<1>1. \A S : Inhibit!IsFiniteSet(S) <=> IsFiniteSet(S)
  BY DEF Inhibit!IsFiniteSet, IsFiniteSet
<1> QED BY <1>1 DEF Inv, Inhibit!InhibitInv

\* Destroying one of the clients' objects.
LEMMA DestroyClientsCloser ==
  ASSUME Inv, DestroyClients, phase = "stopping", Running'
  PROVE  Left' < Left
<1> DEFINE n == Len(todo)
           c == Cardinality(inhibitors)
<1>1. /\ todo \in Seq(StepRecord) /\ mapped \in BOOLEAN /\ phase' = phase
      /\ todo # <<>>
  BY DEF Inv, TypeOK, DestroyClients, Now
<1>2. n \in Nat /\ c \in Nat /\ IsFiniteSet(inhibitors)
  BY <1>1, InhibitorsFinite, FS_CardinalityType
<1>3. CASE mapped /\ mapped' = FALSE /\ UNCHANGED <<todo, inhibitors>>
  BY <1>1, <1>2, <1>3 DEF Left
<1>4. ASSUME NEW i \in Inhibitor, Idle!Destroy(i), UNCHANGED <<todo, mapped>>
      PROVE  Left' < Left
  <2>1. inhibitors' = inhibitors \ {i} /\ i \in inhibitors
    BY <1>4 DEF Idle!Destroy
  <2>2. Cardinality(inhibitors') = c - 1
    BY <1>2, <2>1, FS_RemoveElement
  <2> HIDE DEF n, c
  <2>3. Left' = Len(todo) + (c - 1) + (IF mapped THEN 1 ELSE 0) + 1
    BY <1>1, <1>4, <2>2 DEF Left
  <2>4. Left = Len(todo) + c + (IF mapped THEN 1 ELSE 0) + 1
    BY <1>1 DEF Left, c
  <2>5. Len(todo) \in Nat
    BY <1>2 DEF n
  <2> QED BY <1>2, <2>3, <2>4, <2>5
<1>5. ASSUME NEW i \in Inhibitor, Idle!DestroyUnarmed(i) PROVE FALSE
  BY <1>5 DEF Idle!DestroyUnarmed, Running
<1>6. CASE todo' = Tail(todo) /\ UNCHANGED <<mapped, inhibitors>>
  BY <1>1, <1>2, <1>6 DEF Left
<1> QED BY <1>3, <1>4, <1>5, <1>6 DEF DestroyClients, Go, idleVars

\* Nothing puts the end of main() off: each step of wb_terminate() and each
\* window and inhibitor that goes with the clients is one of finitely many.
THEOREM EndCloser == Spec => EndComesCloser
<1>1. Inv /\ [Next]_vars => [phase = "stopping" /\ Running' => Left' < Left]_vars
  <2> SUFFICES ASSUME Inv, Next, phase = "stopping", Running'
               PROVE  Left' < Left
    OBVIOUS
  <2> DEFINE n == Len(todo)
             c == Cardinality(inhibitors)
  <2>1. todo \in Seq(StepRecord) /\ mapped \in BOOLEAN
    BY DEF Inv, TypeOK
  <2>2. n \in Nat /\ c \in Nat
    BY <2>1, InhibitorsFinite, FS_CardinalityType
  <2>3. todo # <<>> => Head(todo).op \in EndOperation
    BY HeadOfTodo DEF Inv, TypeOK, PhaseInv, StartOperation, EndOperation, StepRecord, Operation
  <2>4. CASE UnlinkListener \/ DestroyObject
    <3>1. todo # <<>> /\ todo' = Tail(todo) /\ UNCHANGED <<phase, mapped, inhibitors>>
      BY <2>4 DEF UnlinkListener, DestroyObject, Now, Go, clientVars, idleVars
    <3> QED BY <2>1, <2>2, <3>1 DEF Left
  <2>5. CASE DestroyClients
    BY <2>5, DestroyClientsCloser
  <2>6. CASE Exit
    <3>1. phase' = "exited" /\ UNCHANGED <<todo, mapped, inhibitors>>
      BY <2>6 DEF Exit, clientVars, idleVars
    <3> QED BY <2>1, <2>2, <3>1 DEF Left
  <2>7. CASE MakeObject \/ TryFails \/ LinkListener \/ OpenSocket \/ StartBackend
    BY <2>3, <2>7
    DEF MakeObject, TryFails, LinkListener, OpenSocket, StartBackend, Now, EndOperation
  <2>8. CASE Run \/ ClientsComeAndGo \/ StopRunning
    BY <2>8 DEF Run, ClientsComeAndGo, ClientsWhile, StopRunning
  <2> QED BY <2>4, <2>5, <2>6, <2>7, <2>8 DEF Next, Main
<1> QED BY <1>1, Always, PTL DEF Spec, EndComesCloser

=============================================================================
