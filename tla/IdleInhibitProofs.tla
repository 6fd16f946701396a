--------------------------- MODULE IdleInhibitProofs ---------------------------
(***************************************************************************)
(* With any number of inhibitors, the screen may blank exactly when none   *)
(* is left.                                                                *)
(***************************************************************************)
EXTENDS IdleInhibit, FiniteSetTheorems, TLAPS

\* What is counted has to be finite for the count to mean anything.
InhibitInv == TypeOK /\ IsFiniteSet(inhibitors) /\ InhibitedWhileAsked

\* The count that idle_inhibitor_destroy() takes before i is unlinked tells
\* whether another one is left afterwards.
LEMMA CountTellsWhetherOthersRemain ==
  ASSUME IsFiniteSet(inhibitors), NEW i \in inhibitors
  PROVE  AnyOtherInhibitor <=> inhibitors \ {i} # {}
<1> DEFINE others == inhibitors \ {i}
<1>1. IsFiniteSet(others) /\ Cardinality(others) = Cardinality(inhibitors) - 1
  BY FS_RemoveElement
<1>2. Cardinality(others) \in Nat /\ Cardinality(inhibitors) \in Nat
  BY <1>1, FS_CardinalityType
<1>3. Cardinality(others) = 0 <=> others = {}
  BY <1>1, FS_EmptySet
<1> HIDE DEF others
<1>4. AnyOtherInhibitor <=> others # {}
  BY <1>1, <1>2, <1>3 DEF AnyOtherInhibitor
<1> QED BY <1>4 DEF others

\* At first nobody inhibits anything.
LEMMA InhibitInit == Init => InhibitInv
BY FS_EmptySet DEF Init, InhibitInv, TypeOK, InhibitedWhileAsked, Running

\* Each callback keeps the invariant.
LEMMA InhibitStep == InhibitInv /\ [Next]_vars => InhibitInv'
<1> SUFFICES ASSUME InhibitInv, [Next]_vars PROVE InhibitInv'
  OBVIOUS
<1> USE DEF InhibitInv, TypeOK, InhibitedWhileAsked, Running
<1>1. ASSUME NEW i \in Inhibitor, New(i) PROVE InhibitInv'
  BY <1>1, FS_AddElement DEF New
<1>2. ASSUME NEW i \in Inhibitor, Destroy(i) PROVE InhibitInv'
  <2>1. inhibitors' = inhibitors \ {i} /\ inhibited' = AnyOtherInhibitor
    BY <1>2 DEF Destroy
  <2>2. IsFiniteSet(inhibitors')
    BY <2>1, FS_RemoveElement
  <2>3. inhibited' <=> inhibitors' # {}
    BY <1>2, <2>1, CountTellsWhetherOthersRemain DEF Destroy
  <2>4. AnyOtherInhibitor \in BOOLEAN
    BY DEF AnyOtherInhibitor
  <2>5. TypeOK'
    BY <1>2, <2>1, <2>4 DEF Destroy, Disarm
  <2> QED BY <2>2, <2>3, <2>5
<1>3. ASSUME NEW i \in Inhibitor, DestroyUnarmed(i) PROVE InhibitInv'
  BY <1>3 DEF DestroyUnarmed
<1>4. CASE UNCHANGED vars
  BY <1>4 DEF vars
<1> QED BY <1>1, <1>2, <1>3, <1>4 DEF Next

\* idle.c: in whatever order inhibitors come and go, the idle notifier is told
\* that it is inhibited exactly when some inhibitor is left.
THEOREM InhibitCorrect == Spec => [](TypeOK /\ InhibitedWhileAsked)
<1>1. Spec => []InhibitInv
  BY InhibitInit, InhibitStep, PTL DEF Spec
<1>2. InhibitInv => TypeOK /\ InhibitedWhileAsked
  BY DEF InhibitInv
<1> QED BY <1>1, <1>2, PTL
=============================================================================
