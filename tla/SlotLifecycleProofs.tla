------------------------- MODULE SlotLifecycleProofs -------------------------
(* What follows from SlotLifecycle for everything that implements it.      *)
EXTENDS SlotLifecycle, TLAPS

TypeInv ==
    /\ phase \in [Sessions -> {"free", "open", "closed"}]
    /\ holds \in [Sessions -> Fds \cup {NoFd}]

(* No connection ever has two Sessions, none is held by a slot that is     *)
(* free or has closed: ::close is never given another's descriptor.        *)
THEOREM ExclusiveHolder == NoFd \notin Fds /\ Spec => []Exclusive
<1>. SUFFICES ASSUME NoFd \notin Fds
             PROVE  Spec => []Exclusive
  OBVIOUS
<1>1. Init => TypeInv /\ Exclusive
  BY DEF Init, TypeInv, Exclusive
<1>2. TypeInv /\ Exclusive /\ [Next]_slotVars => TypeInv' /\ Exclusive'
  <2>. SUFFICES ASSUME TypeInv, Exclusive, [Next]_slotVars
               PROVE  TypeInv' /\ Exclusive'
    OBVIOUS
  <2>. USE DEF TypeInv, Exclusive, slotVars
  <2>1. ASSUME NEW s \in Sessions, NEW fd \in Fds, Open(s, fd)
        PROVE  TypeInv' /\ Exclusive'
    BY <2>1 DEF Open
  <2>2. ASSUME NEW s \in Sessions, Shut(s)
        PROVE  TypeInv' /\ Exclusive'
    BY <2>2 DEF Shut
  <2>3. ASSUME NEW S \in SUBSET Sessions, Return(S)
        PROVE  TypeInv' /\ Exclusive'
    BY <2>3 DEF Return
  <2>4. CASE UNCHANGED slotVars
    BY <2>4
  <2>. QED
    BY <2>1, <2>2, <2>3, <2>4 DEF Next
<1>. QED
  BY <1>1, <1>2, PTL DEF Spec
=============================================================================
