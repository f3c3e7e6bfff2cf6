------------------------ MODULE CallbackDeliveryProofs ------------------------
(***************************************************************************)
(* Proofs about CallbackDelivery, for any number of values, threads and    *)
(* places.  The inductive invariant has two halves: where each value is    *)
(* (Ownership) and who keeps the closure alive (Closure).                  *)
(***************************************************************************)
EXTENDS CallbackDelivery, FiniteSetTheorems, TLAPS

(* A frame's place is written when the thread picks a value up, and empty  *)
(* exactly while the thread is idle; the handler has not yet seen a value  *)
(* that is only picked.                                                    *)
FramesInUse ==
  \A t \in Threads :
    /\ phase[t] = "idle" <=> arg[t] = Empty
    /\ phase[t] = "picked" => arg[t] \in Values

Ownership == TypeOK /\ FramesInUse /\ SingleOwner /\ Accounted

(* The closure's references are those of the handle and of the threads.    *)
Closure ==
  /\ refs = Cardinality(InFlight) + IF handle = "declared" THEN 1 ELSE 0
  /\ context = "released" <=> refs = 0
  /\ closes = IF context = "released" THEN 1 ELSE 0

IInv == Ownership /\ Closure

-------------------------------------------------------------------------------
(* Sets of threads can be counted.                                         *)
LEMMA InFlightSize ==
  ASSUME NEW S \in SUBSET Threads
  PROVE  /\ IsFiniteSet(S) /\ Cardinality(S) \in Nat
         /\ Cardinality(S) = 0 <=> S = {}
<1>1. IsFiniteSet(S)
  BY FS_Subset, DeliveryAssumption
<1> QED
  BY <1>1, FS_CardinalityType, FS_EmptySet

(* A set of threads that gains or loses one thread counts one more or less.*)
LEMMA InFlightCount ==
  ASSUME NEW S \in SUBSET Threads, NEW t \in Threads
  PROVE  /\ t \notin S => Cardinality(S \cup {t}) = Cardinality(S) + 1
         /\ t \in S => /\ Cardinality(S \ {t}) = Cardinality(S) - 1
                       /\ Cardinality(S) > 0
<1>1. /\ IsFiniteSet(S) /\ Cardinality(S) \in Nat
      /\ Cardinality(S) = 0 <=> S = {}
  BY InFlightSize
<1>2. ASSUME t \notin S PROVE Cardinality(S \cup {t}) = Cardinality(S) + 1
  BY <1>1, <1>2, FS_AddElement
<1>3. ASSUME t \in S
      PROVE  Cardinality(S \ {t}) = Cardinality(S) - 1 /\ Cardinality(S) > 0
  <2>1. Cardinality(S \ {t}) = Cardinality(S) - 1
    BY <1>1, <1>3, FS_RemoveElement
  <2> QED
    BY <2>1, <1>1, <1>3
<1> QED
  BY <1>2, <1>3

(* The initial state satisfies the invariant.                              *)
LEMMA InitInvariant == Init => IInv
<1> SUFFICES ASSUME Init PROVE IInv
  OBVIOUS
<1>1. InFlight = {}
  BY DEF Init, InFlight
<1>2. Cardinality(InFlight) = 0
  BY <1>1, FS_EmptySet
<1>3. Ownership
  BY DeliveryAssumption
  DEF Init, Ownership, TypeOK, FramesInUse, SingleOwner, Accounted, Held, Content
<1>4. Closure
  BY <1>2 DEF Init, Closure
<1> QED
  BY <1>3, <1>4 DEF IInv

(* Every step keeps track of where each value is.                          *)
LEMMA OwnershipStep == IInv /\ [Next]_vars => Ownership'
<1> SUFFICES ASSUME IInv, [Next]_vars PROVE Ownership'
  OBVIOUS
<1> USE DeliveryAssumption
<1>a. /\ TypeOK /\ FramesInUse /\ SingleOwner /\ Accounted
      /\ refs = Cardinality(InFlight) + IF handle = "declared" THEN 1 ELSE 0
  BY DEF IInv, Ownership, Closure
<1>r. ASSUME NEW t \in Threads, phase[t] # "idle" PROVE refs > 0
  <2>1. t \in InFlight /\ InFlight \in SUBSET Threads
    BY <1>r DEF InFlight
  <2>2. Cardinality(InFlight) \in Nat /\ Cardinality(InFlight) > 0
    BY <2>1, InFlightSize, InFlightCount
  <2> QED
    BY <2>2, <1>a
<1>1. ASSUME NEW t \in Threads, Pick(t) PROVE Ownership'
  <2>1. PICK v \in pending : pending' = pending \ {v} /\ arg' = [arg EXCEPT ![t] = v]
    BY <1>1 DEF Pick
  <2>2. v \in Values /\ arg[t] = Empty
    BY <1>a, <1>1, <2>1 DEF TypeOK, FramesInUse, Pick
  <2>3. TypeOK'
    BY <1>a, <1>1, <2>1, <2>2 DEF TypeOK, Content, Pick
  <2>4. FramesInUse'
    BY <1>a, <1>1, <2>1, <2>2 DEF TypeOK, FramesInUse, Pick
  <2>5. SingleOwner'
    BY <1>a, <1>1, <2>1, <2>2 DEF TypeOK, SingleOwner, Pick
  <2>6. Accounted'
    BY <1>a, <1>1, <2>1, <2>2 DEF TypeOK, Accounted, Held, Pick
  <2> QED
    BY <2>3, <2>4, <2>5, <2>6 DEF Ownership
<1>2. ASSUME NEW t \in Threads, Invoke(t) PROVE Ownership'
  BY <1>a, <1>2
  DEF Ownership, TypeOK, FramesInUse, SingleOwner, Accounted, Held, Invoke
<1>3. ASSUME NEW t \in Threads, TrampolineDrop(t) PROVE Ownership'
  <2>1. /\ arg' = [arg EXCEPT ![t] = Empty]
        /\ arg[t] \in Content
        /\ destroyed' = [v \in Values |-> destroyed[v] + (IF v = arg[t] THEN 1 ELSE 0)]
    BY <1>a, <1>3 DEF TrampolineDrop, DropContent, TypeOK
  <2>2. TypeOK'
    BY <1>a, <1>3, <1>r, <2>1 DEF TypeOK, Content, TrampolineDrop, ReleaseClosure
  <2>3. FramesInUse'
    BY <1>a, <1>3, <2>1 DEF TypeOK, FramesInUse, TrampolineDrop
  <2>4. SingleOwner'
    BY <1>a, <1>3, <2>1 DEF TypeOK, SingleOwner, TrampolineDrop
  <2>5. Accounted'
    BY <1>a, <1>3, <2>1 DEF TypeOK, SingleOwner, Accounted, Held, TrampolineDrop
  <2> QED
    BY <2>2, <2>3, <2>4, <2>5 DEF Ownership
<1>4. ASSUME NEW v \in Values, Discard(v) PROVE Ownership'
  <2>1. TypeOK' /\ FramesInUse' /\ SingleOwner'
    BY <1>a, <1>4 DEF TypeOK, FramesInUse, SingleOwner, Discard, DropContent
  <2>2. Accounted'
    BY <1>a, <1>4
    DEF TypeOK, SingleOwner, Accounted, Held, Discard, DropContent
  <2> QED
    BY <2>1, <2>2 DEF Ownership
<1>5. ASSUME NEW t \in Threads, NEW p \in Places, Take(t, p) PROVE Ownership'
  <2>1. /\ phase[t] = "call" /\ kept[p] \notin Values
        /\ kept' = [kept EXCEPT ![p] = arg[t]]
        /\ arg' = [arg EXCEPT ![t] = Gravestone]
        /\ arg[t] \in Content
    BY <1>a, <1>5 DEF Take, TypeOK
  <2>2. TypeOK' /\ FramesInUse'
    BY <1>a, <1>5, <2>1 DEF TypeOK, FramesInUse, Content, Take
  <2>3. SingleOwner'
    BY <1>a, <1>5, <2>1 DEF TypeOK, SingleOwner, Take
  <2>4. Accounted'
    BY <1>a, <1>5, <2>1 DEF TypeOK, SingleOwner, Accounted, Held, Take
  <2> QED
    BY <2>2, <2>3, <2>4 DEF Ownership
<1>6. ASSUME NEW t \in Threads, HandlerReturn(t) PROVE Ownership'
  BY <1>a, <1>6
  DEF Ownership, TypeOK, FramesInUse, SingleOwner, Accounted, Held, HandlerReturn
<1>7. ASSUME NEW p \in Places, DropKept(p) PROVE Ownership'
  <2>1. /\ kept' = [kept EXCEPT ![p] = Empty] /\ kept[p] \in Content
        /\ destroyed' = [v \in Values |-> destroyed[v] + (IF v = kept[p] THEN 1 ELSE 0)]
    BY <1>a, <1>7 DEF DropKept, DropContent, TypeOK
  <2>2. TypeOK' /\ FramesInUse'
    BY <1>a, <1>7, <2>1 DEF TypeOK, FramesInUse, Content, DropKept
  <2>3. SingleOwner'
    BY <1>a, <1>7, <2>1 DEF TypeOK, SingleOwner, DropKept
  <2>4. Accounted'
    BY <1>a, <1>7, <2>1 DEF TypeOK, SingleOwner, Accounted, Held, DropKept
  <2> QED
    BY <2>2, <2>3, <2>4 DEF Ownership
<1>8. ASSUME HandleDrop PROVE Ownership'
  <2>1. Cardinality(InFlight) \in Nat
    BY InFlightSize DEF InFlight
  <2>2. TypeOK'
    BY <1>a, <1>8, <2>1 DEF TypeOK, HandleDrop, ReleaseClosure
  <2>3. FramesInUse' /\ SingleOwner' /\ Accounted'
    BY <1>a, <1>8 DEF FramesInUse, SingleOwner, Accounted, Held, HandleDrop
  <2> QED
    BY <2>2, <2>3 DEF Ownership
<1>9. CASE UNCHANGED vars
  BY <1>a, <1>9
  DEF Ownership, TypeOK, FramesInUse, SingleOwner, Accounted, Held, vars
<1> QED
  BY <1>1, <1>2, <1>3, <1>4, <1>5, <1>6, <1>7, <1>8, <1>9
  DEF Next, Library, Handler

(* Every step keeps the closure's references counted.                      *)
LEMMA ClosureStep == IInv /\ [Next]_vars => Closure'
<1> SUFFICES ASSUME IInv, [Next]_vars PROVE Closure'
  OBVIOUS
<1>a. TypeOK /\ FramesInUse /\ Closure
  BY DEF IInv, Ownership
<1>b. InFlight \in SUBSET Threads /\ Cardinality(InFlight) \in Nat
  BY InFlightSize DEF InFlight
<1>1. ASSUME NEW t \in Threads, Pick(t) PROVE Closure'
  <2>1. t \notin InFlight /\ InFlight' = InFlight \cup {t}
    BY <1>a, <1>1 DEF InFlight, Pick, TypeOK
  <2>2. Cardinality(InFlight') = Cardinality(InFlight) + 1
    BY <1>b, <2>1, InFlightCount
  <2> QED
    BY <1>a, <1>b, <1>1, <2>2 DEF Closure, Pick, TypeOK
<1>2. ASSUME NEW t \in Threads, TrampolineDrop(t) PROVE Closure'
  <2>1. t \in InFlight /\ InFlight' = InFlight \ {t}
    BY <1>a, <1>2 DEF InFlight, TrampolineDrop, TypeOK
  <2>2. /\ Cardinality(InFlight') = Cardinality(InFlight) - 1
        /\ Cardinality(InFlight) > 0
    BY <1>b, <2>1, InFlightCount
  <2>3. refs > 0 /\ refs' = refs - 1 /\ handle' = handle
    BY <1>a, <1>b, <1>2, <2>2 DEF Closure, TrampolineDrop, ReleaseClosure
  <2>4. refs' = Cardinality(InFlight') + IF handle' = "declared" THEN 1 ELSE 0
    BY <1>a, <1>b, <2>2, <2>3 DEF Closure
  <2>5. /\ context' = "released" <=> refs' = 0
        /\ closes' = IF context' = "released" THEN 1 ELSE 0
    BY <1>a, <1>2, <2>3 DEF Closure, TrampolineDrop, ReleaseClosure, TypeOK
  <2> QED
    BY <2>4, <2>5 DEF Closure
<1>3. ASSUME HandleDrop PROVE Closure'
  <2>1. InFlight' = InFlight
    BY <1>3 DEF InFlight, HandleDrop
  <2>2. /\ refs > 0 /\ refs' = refs - 1
        /\ refs' = Cardinality(InFlight)
    BY <1>a, <1>b, <1>3 DEF Closure, HandleDrop, ReleaseClosure
  <2>3. refs' = Cardinality(InFlight') + IF handle' = "declared" THEN 1 ELSE 0
    BY <1>b, <1>3, <2>1, <2>2 DEF HandleDrop
  <2>4. /\ context' = "released" <=> refs' = 0
        /\ closes' = IF context' = "released" THEN 1 ELSE 0
    BY <1>a, <1>3, <2>2 DEF Closure, HandleDrop, ReleaseClosure, TypeOK
  <2> QED
    BY <2>3, <2>4 DEF Closure
<1>4. ASSUME NEW t \in Threads, Invoke(t) \/ Handler(t) PROVE Closure'
  <2>1. /\ InFlight' = InFlight
        /\ UNCHANGED <<refs, handle, context, closes>>
    BY <1>a, <1>4
    DEF InFlight, TypeOK, Invoke, Handler, HandlerReturn, Take
  <2> QED
    BY <1>a, <2>1 DEF Closure
<1>5. ASSUME \/ \E v \in Values : Discard(v)
             \/ \E p \in Places : DropKept(p)
             \/ UNCHANGED vars
      PROVE  Closure'
  <2>1. UNCHANGED <<phase, refs, handle, context, closes>>
    BY <1>5 DEF Discard, DropKept, vars
  <2> QED
    BY <1>a, <2>1 DEF Closure, InFlight
<1> QED
  BY <1>1, <1>2, <1>3, <1>4, <1>5 DEF Next, Library

(* The invariant holds throughout.                                         *)
THEOREM Invariance == Spec => []IInv
<1>1. Init => IInv
  BY InitInvariant
<1>2. IInv /\ [Next]_vars => IInv'
  BY OwnershipStep, ClosureStep DEF IInv
<1> QED
  BY <1>1, <1>2, PTL DEF Spec

(* The variables of the model always have their types; in particular the   *)
(* closure's references never underflow.                                   *)
THEOREM TypeCorrect == Spec => []TypeOK
<1>1. IInv => TypeOK
  BY DEF IInv, Ownership
<1> QED
  BY <1>1, Invariance, PTL

(* However many threads run the callback and however many places it takes  *)
(* values into, no value is ever reachable from two of them.               *)
THEOREM OneOwner == Spec => []SingleOwner
<1>1. IInv => SingleOwner
  BY DEF IInv, Ownership
<1> QED
  BY <1>1, Invariance, PTL

(* A value is destroyed exactly once, when the last place let go of it.    *)
THEOREM DestroyedOnce == Spec => []Accounted
<1>1. IInv => Accounted
  BY DEF IInv, Ownership
<1> QED
  BY <1>1, Invariance, PTL

(* on_close comes once and after the last call, however late the calls are *)
(* that were under way when the handle was dropped.                        *)
THEOREM CloseIsLast == Spec => []ContextOutlivesCalls
<1>1. ASSUME IInv PROVE ContextOutlivesCalls
  <2>1. TypeOK /\ Closure
    BY <1>1 DEF IInv, Ownership
  <2>2. /\ Cardinality(InFlight) \in Nat
        /\ Cardinality(InFlight) = 0 <=> InFlight = {}
    BY InFlightSize DEF InFlight
  <2>3. ASSUME context = "released"
        PROVE  handle = "dropped" /\ Cardinality(InFlight) = 0
    BY <2>1, <2>2, <2>3 DEF Closure, TypeOK
  <2> QED
    BY <2>1, <2>2, <2>3 DEF ContextOutlivesCalls, Closure
<1> QED
  BY <1>1, Invariance, PTL

-------------------------------------------------------------------------------
(* Refinement: the places implement values with a single owner.            *)

Mapped == [v \in Values |-> OwnerOf(v)]

(* A step that changes nobody's place but v's moves only v's owner.        *)
LEMMA OwnerStep == IInv /\ IInv' /\ [Next]_vars => [OV!Next]_Mapped
<1> SUFFICES ASSUME IInv, IInv', [Next]_vars PROVE [OV!Next]_Mapped
  OBVIOUS
<1> USE DeliveryAssumption
<1>a. TypeOK /\ FramesInUse /\ SingleOwner /\ Accounted
  BY DEF IInv, Ownership
<1>b. TypeOK' /\ FramesInUse' /\ SingleOwner' /\ Accounted'
  BY DEF IInv, Ownership
<1>c. ASSUME NEW v \in Values, NEW o,
             \A w \in Values : OwnerOf(w)' = IF w = v THEN o ELSE OwnerOf(w)
      PROVE  Mapped' = [Mapped EXCEPT ![v] = o]
  BY <1>c DEF Mapped
<1>1. ASSUME NEW t \in Threads, Pick(t) PROVE UNCHANGED Mapped
  <2>1. ASSUME NEW v \in Values PROVE OwnerOf(v)' = OwnerOf(v)
    BY <1>a, <1>1 DEF Pick, OwnerOf, TypeOK, FramesInUse, SingleOwner
  <2> QED
    BY <2>1 DEF Mapped
<1>2. ASSUME NEW t \in Threads, Invoke(t) PROVE OV!Next
  <2>1. /\ arg[t] \in Values
        /\ phase[t] = "picked" /\ phase' = [phase EXCEPT ![t] = "call"]
        /\ UNCHANGED <<pending, arg, kept, destroyed>>
    BY <1>a, <1>2 DEF Invoke, FramesInUse
  <2>2. PICK v \in Values : v = arg[t]
    BY <2>1
  <2>3. ASSUME NEW w \in Values
        PROVE  OwnerOf(w)' = IF w = v THEN "callback" ELSE OwnerOf(w)
    BY <1>a, <2>1, <2>2 DEF OwnerOf, TypeOK, SingleOwner
  <2>4. Mapped' = [Mapped EXCEPT ![v] = "callback"]
    BY <1>c, <2>3
  <2>5. OwnerOf(v) = "library"
    BY <1>a, <2>1, <2>2 DEF OwnerOf, TypeOK, SingleOwner
  <2>6. OV!Deliver(v)
    BY <2>4, <2>5 DEF OV!Deliver, Mapped
  <2> QED
    BY <2>6 DEF OV!Next
<1>3. ASSUME NEW t \in Threads, NEW p \in Places, Take(t, p)
      PROVE  OV!Next \/ UNCHANGED Mapped
  <2>1. /\ phase[t] = "call" /\ kept[p] \notin Values
        /\ kept' = [kept EXCEPT ![p] = arg[t]]
        /\ arg' = [arg EXCEPT ![t] = Gravestone]
        /\ UNCHANGED <<pending, phase, destroyed>>
    BY <1>3 DEF Take
  <2>2. CASE arg[t] \in Values
    <3>1. PICK v \in Values : v = arg[t]
      BY <2>2
    <3>2. ASSUME NEW w \in Values
          PROVE  OwnerOf(w)' = IF w = v THEN "program" ELSE OwnerOf(w)
      BY <1>a, <2>1, <3>1 DEF OwnerOf, TypeOK, SingleOwner
    <3>3. Mapped' = [Mapped EXCEPT ![v] = "program"]
      BY <1>c, <3>2
    <3>4. OwnerOf(v) = "callback"
      BY <2>1, <3>1 DEF OwnerOf
    <3>5. OV!Keep(v)
      BY <3>3, <3>4 DEF OV!Keep, Mapped
    <3> QED
      BY <3>5 DEF OV!Next
  <2>3. CASE arg[t] \notin Values
    <3>1. ASSUME NEW v \in Values PROVE OwnerOf(v)' = OwnerOf(v)
      BY <1>a, <2>1, <2>3 DEF OwnerOf, TypeOK
    <3> QED
      BY <3>1 DEF Mapped
  <2> QED
    BY <2>2, <2>3
<1>4. ASSUME NEW v \in Values, OwnerOf(v) # "nobody", OwnerOf(v)' = "nobody",
             \A w \in Values : w # v => OwnerOf(w)' = OwnerOf(w)
      PROVE  OV!Next
  <2>1. Mapped' = [Mapped EXCEPT ![v] = "nobody"]
    BY <1>c, <1>4
  <2>2. OV!Destroy(v)
    BY <1>4, <2>1 DEF OV!Destroy, Mapped
  <2> QED
    BY <2>2 DEF OV!Next
<1>5. ASSUME NEW t \in Threads, TrampolineDrop(t)
      PROVE  OV!Next \/ UNCHANGED Mapped
  <2>1. /\ phase[t] = "returned" /\ phase' = [phase EXCEPT ![t] = "idle"]
        /\ arg' = [arg EXCEPT ![t] = Empty]
        /\ UNCHANGED <<pending, kept>>
        /\ destroyed' = [v \in Values |-> destroyed[v] + (IF v = arg[t] THEN 1 ELSE 0)]
    BY <1>5 DEF TrampolineDrop, DropContent
  <2>2. ASSUME NEW v \in Values, v # arg[t] PROVE OwnerOf(v)' = OwnerOf(v)
    BY <1>a, <2>1, <2>2 DEF OwnerOf, TypeOK
  <2>3. CASE arg[t] \in Values
    <3>1. PICK v \in Values : v = arg[t]
      BY <2>3
    <3>2. OwnerOf(v) # "nobody"
      BY <2>1, <3>1 DEF OwnerOf
    <3>3. destroyed'[v] = 1
      BY <1>a, <2>1, <3>1 DEF Accounted, Held, TypeOK
    <3>4. OwnerOf(v)' = "nobody"
      BY <1>a, <2>1, <3>1, <3>3 DEF OwnerOf, SingleOwner, TypeOK
    <3> QED
      BY <1>4, <2>2, <3>1, <3>2, <3>4
  <2>4. CASE arg[t] \notin Values
    BY <2>2, <2>4 DEF Mapped
  <2> QED
    BY <2>3, <2>4
<1>6. ASSUME NEW v \in Values, Discard(v) PROVE OV!Next
  <2>1. /\ v \in pending /\ pending' = pending \ {v}
        /\ UNCHANGED <<phase, arg, kept>>
        /\ destroyed' = [w \in Values |-> destroyed[w] + (IF w = v THEN 1 ELSE 0)]
    BY <1>6 DEF Discard, DropContent
  <2>2. ASSUME NEW w \in Values, w # v PROVE OwnerOf(w)' = OwnerOf(w)
    BY <1>a, <2>1, <2>2 DEF OwnerOf, TypeOK
  <2>3. destroyed[v] = 0 /\ destroyed'[v] = 1
    BY <1>a, <2>1 DEF Accounted, Held
  <2>4. OwnerOf(v) # "nobody" /\ OwnerOf(v)' = "nobody"
    BY <1>a, <2>1, <2>3 DEF OwnerOf, SingleOwner, TypeOK
  <2> QED
    BY <1>4, <2>2, <2>4
<1>7. ASSUME NEW p \in Places, DropKept(p)
      PROVE  OV!Next \/ UNCHANGED Mapped
  <2>1. /\ kept' = [kept EXCEPT ![p] = Empty]
        /\ UNCHANGED <<pending, phase, arg>>
        /\ destroyed' = [v \in Values |-> destroyed[v] + (IF v = kept[p] THEN 1 ELSE 0)]
    BY <1>7 DEF DropKept, DropContent
  <2>2. ASSUME NEW v \in Values, v # kept[p] PROVE OwnerOf(v)' = OwnerOf(v)
    BY <1>a, <2>1, <2>2 DEF OwnerOf, TypeOK
  <2>3. CASE kept[p] \in Values
    <3>1. PICK v \in Values : v = kept[p]
      BY <2>3
    <3>2. destroyed[v] = 0 /\ destroyed'[v] = 1
      BY <1>a, <2>1, <3>1 DEF Accounted, Held, TypeOK
    <3>3. OwnerOf(v) # "nobody"
      BY <3>2 DEF OwnerOf
    <3>4. OwnerOf(v)' = "nobody"
      BY <1>a, <2>1, <3>1, <3>2 DEF OwnerOf, SingleOwner, TypeOK
    <3> QED
      BY <1>4, <2>2, <3>1, <3>3, <3>4
  <2>4. CASE kept[p] \notin Values
    BY <2>2, <2>4 DEF Mapped
  <2> QED
    BY <2>3, <2>4
<1>8. ASSUME NEW t \in Threads, HandlerReturn(t) PROVE UNCHANGED Mapped
  <2>1. ASSUME NEW v \in Values PROVE OwnerOf(v)' = OwnerOf(v)
    BY <1>a, <1>8 DEF HandlerReturn, OwnerOf, TypeOK
  <2> QED
    BY <2>1 DEF Mapped
<1>9. ASSUME HandleDrop \/ UNCHANGED vars PROVE UNCHANGED Mapped
  <2>1. UNCHANGED <<pending, phase, arg, kept, destroyed>>
    BY <1>9 DEF HandleDrop, vars
  <2> QED
    BY <2>1 DEF Mapped, OwnerOf
<1> QED
  BY <1>1, <1>2, <1>3, <1>5, <1>6, <1>7, <1>8, <1>9
  DEF Next, Library, Handler

(* CallbackDelivery implements OwnedValue: every value starts with the     *)
(* library, is lent to a callback, may be kept by the program from there,  *)
(* and is destroyed once by whoever has it.                                *)
THEOREM Refinement == Spec => ImplementsOwnedValue
<1>1. Init => OV!Init
  BY DeliveryAssumption DEF Init, OV!Init, OwnerOf
<1>2. IInv /\ IInv' /\ [Next]_vars => [OV!Next]_Mapped
  BY OwnerStep
<1> QED
  BY <1>1, <1>2, Invariance, PTL
  DEF Spec, ImplementsOwnedValue, OV!Spec, Mapped

(* OwnedValue's promise: responsibility for a value only moves forward.    *)
(* What the program keeps does not go back to a callback, and what is      *)
(* destroyed is nobody's for ever.                                         *)
Forward ==
  \A v \in Values :
    /\ OwnerOf(v) = "nobody" => OwnerOf(v)' = "nobody"
    /\ OwnerOf(v) = "program" => OwnerOf(v)' \in {"program", "nobody"}
    /\ OwnerOf(v)' = "library" => OwnerOf(v) = "library"

(* It holds of every OwnedValue, and so of values that several threads     *)
(* copy, empty and drop.                                                   *)
THEOREM OwnershipMovesForward == Spec => [][Forward]_vars
<1>1. [OV!Next]_Mapped => Forward
  <2> SUFFICES ASSUME [OV!Next]_Mapped, NEW v \in Values
               PROVE  /\ Mapped[v] = "nobody" => Mapped'[v] = "nobody"
                      /\ Mapped[v] = "program" => Mapped'[v] \in {"program", "nobody"}
                      /\ Mapped'[v] = "library" => Mapped[v] = "library"
    BY DEF Forward, Mapped
  <2>1. CASE UNCHANGED Mapped
    BY <2>1
  <2>2. CASE OV!Next
    <3>1. PICK w \in Values : OV!Deliver(w) \/ OV!Keep(w) \/ OV!Destroy(w)
      BY <2>2 DEF OV!Next
    <3>2. PICK o \in {"callback", "program", "nobody"} :
            /\ Mapped' = [Mapped EXCEPT ![w] = o]
            /\ o = "callback" => Mapped[w] = "library"
            /\ o = "program" => Mapped[w] = "callback"
            /\ Mapped[w] # "nobody"
      BY <3>1 DEF OV!Deliver, OV!Keep, OV!Destroy, Mapped
    <3> QED
      BY <3>2 DEF Mapped
  <2> QED
    BY <2>1, <2>2
<1>2. IInv /\ IInv' /\ [Next]_vars => [Forward]_vars
  BY <1>1, OwnerStep
<1> QED
  BY <1>2, Invariance, PTL DEF Spec
===============================================================================
