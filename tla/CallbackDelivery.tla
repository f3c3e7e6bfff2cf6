--------------------------- MODULE CallbackDelivery ---------------------------
(***************************************************************************)
(* A declared callback of the flat API (subscriber, queryable, get, scout) *)
(* and the values delivered to it.  The closure struct handed over by the  *)
(* program is shared by the library's threads: the declaration holds one   *)
(* reference and each thread that is about to run the callback another.    *)
(* A value is passed by TAKEABLE pointer: the trampoline keeps it in a     *)
(* place of its own frame, the handler reads it there or moves it out with *)
(* z_<x>_take, and the trampoline drops whatever the place then holds.     *)
(*                                                                         *)
(* The handlers and the program are those of examples/ and tests/; the     *)
(* trampolines and the runtime are generated or linked in from elsewhere   *)
(* and are modelled from what build.rs declares and the handlers rely on.  *)
(***************************************************************************)
EXTENDS Naturals, FiniteSets

CONSTANTS
  Values,      \* the values (samples, replies, ...) the library receives
  Threads,     \* the library threads that may run the callback at once
  Places,      \* the z_<x>_t variables of the program it takes values into
  Gravestone,  \* the empty value a taken-from place is left with
  Empty        \* a place that holds nothing: not yet written, or dropped

ASSUME DeliveryAssumption ==
  /\ IsFiniteSet(Threads)
  /\ Gravestone \notin Values
  /\ Empty \notin Values
  /\ Gravestone # Empty

VARIABLES
  pending,     \* received by the library, not yet given to a thread
  phase,       \* how far each thread is with the callback
  arg,         \* the value place in each thread's trampoline frame
  kept,        \* the program's own value places
  destroyed,   \* how often each value has been destroyed
  handle,      \* the program's handle: z_subscriber_t and its siblings
  refs,        \* references to the shared closure
  context,     \* the closure's context, which the closure's drop releases
  closes       \* how often on_close has been called

vars == <<pending, phase, arg, kept, destroyed, handle, refs, context, closes>>

Content == Values \cup {Gravestone, Empty}

Init ==
  /\ pending = Values
  /\ phase = [t \in Threads |-> "idle"]
  /\ arg = [t \in Threads |-> Empty]
  /\ kept = [p \in Places |-> Empty]
  /\ destroyed = [v \in Values |-> 0]
  /\ handle = "declared"
  /\ refs = 1
  /\ context = "live"
  /\ closes = 0

-------------------------------------------------------------------------------
(* Two effects that several operations share.                              *)

(* Mutant: dropping a place forgets its content without destroying it.     *)
DropContentLeaking(c) == destroyed' = destroyed

(* Dropping what a place holds destroys a value; a gravestone owns nothing *)
(* and dropping it has no effect.                                          *)
DropContent(c) ==
  destroyed' = [v \in Values |-> destroyed[v] + (IF v = c THEN 1 ELSE 0)]

(* Giving back a reference to the closure; the last one closes it: the     *)
(* closure's drop releases the context and on_close is called.             *)
ReleaseClosure ==
  /\ refs' = refs - 1
  /\ IF refs = 1
     THEN context' = "released" /\ closes' = closes + 1
     ELSE UNCHANGED <<context, closes>>

-------------------------------------------------------------------------------
(* The library: trampolines run by its threads.                            *)

(* An idle thread picks a received value up: it takes a reference to the   *)
(* closure and moves the value into its frame.  Callbacks are Fn + Send +  *)
(* Sync, so any number of threads may be at it at once.                    *)
Pick(t) ==
  /\ phase[t] = "idle"
  /\ handle = "declared"
  /\ \E v \in pending :
       /\ pending' = pending \ {v}
       /\ arg' = [arg EXCEPT ![t] = v]
  /\ phase' = [phase EXCEPT ![t] = "picked"]
  /\ refs' = refs + 1
  /\ UNCHANGED <<kept, destroyed, handle, context, closes>>

(* The handler is entered with a pointer to the frame's place, possibly    *)
(* after the program has dropped its handle.                               *)
Invoke(t) ==
  /\ phase[t] = "picked"
  /\ phase' = [phase EXCEPT ![t] = "call"]
  /\ UNCHANGED <<pending, arg, kept, destroyed, handle, refs, context, closes>>

(* After the handler the trampoline drops what its place holds and gives   *)
(* its reference to the closure back.                                      *)
TrampolineDrop(t) ==
  /\ phase[t] = "returned"
  /\ DropContent(arg[t])
  /\ arg' = [arg EXCEPT ![t] = Empty]
  /\ phase' = [phase EXCEPT ![t] = "idle"]
  /\ ReleaseClosure
  /\ UNCHANGED <<pending, kept, handle>>

(* Values the library still holds once the handle is gone are not for      *)
(* anybody: it destroys them.                                              *)
Discard(v) ==
  /\ handle = "dropped"
  /\ v \in pending
  /\ pending' = pending \ {v}
  /\ DropContent(v)
  /\ UNCHANGED <<phase, arg, kept, handle, refs, context, closes>>

-------------------------------------------------------------------------------
(* The program: handlers, its own places and its handle.                   *)

(* Mutant: take copies the value and leaves the frame's place as it was.   *)
TakeByCopy(t, p) ==
  /\ phase[t] = "call"
  /\ kept[p] \notin Values
  /\ kept' = [kept EXCEPT ![p] = arg[t]]
  /\ UNCHANGED <<pending, phase, arg, destroyed, handle, refs, context, closes>>

(* Mutant: take leaves the gravestone but does not store the value.        *)
TakeLosing(t, p) ==
  /\ phase[t] = "call"
  /\ kept[p] \notin Values
  /\ arg' = [arg EXCEPT ![t] = Gravestone]
  /\ UNCHANGED <<pending, phase, kept, destroyed, handle, refs, context, closes>>

(* z_<x>_take(&place, arg) moves the value out of the trampoline's frame   *)
(* and leaves a gravestone there.  A second take in the same call moves    *)
(* the gravestone.  The program does not overwrite a value it still holds. *)
Take(t, p) ==
  /\ phase[t] = "call"
  /\ kept[p] \notin Values
  /\ kept' = [kept EXCEPT ![p] = arg[t]]
  /\ arg' = [arg EXCEPT ![t] = Gravestone]
  /\ UNCHANGED <<pending, phase, destroyed, handle, refs, context, closes>>

(* Mutant: the handler drops its argument, as README.md:10-11 asks for.    *)
HandlerReturnDropping(t) ==
  /\ phase[t] = "call"
  /\ phase' = [phase EXCEPT ![t] = "returned"]
  /\ DropContent(arg[t])
  /\ UNCHANGED <<pending, arg, kept, handle, refs, context, closes>>

(* The handler has read what it wanted and returns without dropping its    *)
(* argument.                                                               *)
HandlerReturn(t) ==
  /\ phase[t] = "call"
  /\ phase' = [phase EXCEPT ![t] = "returned"]
  /\ UNCHANGED <<pending, arg, kept, destroyed, handle, refs, context, closes>>

(* The program drops a place it took a value, or a gravestone, into.       *)
DropKept(p) ==
  /\ kept[p] # Empty
  /\ DropContent(kept[p])
  /\ kept' = [kept EXCEPT ![p] = Empty]
  /\ UNCHANGED <<pending, phase, arg, handle, refs, context, closes>>

(* Mutant: nothing stops the program from dropping its handle again.       *)
HandleDropAgain ==
  /\ handle' = "dropped"
  /\ ReleaseClosure
  /\ UNCHANGED <<pending, phase, arg, kept, destroyed>>

(* Mutant: dropping the handle closes the closure at once.                 *)
HandleDropClosing ==
  /\ handle = "declared"
  /\ handle' = "dropped"
  /\ refs' = refs - 1
  /\ context' = "released"
  /\ closes' = closes + 1
  /\ UNCHANGED <<pending, phase, arg, kept, destroyed>>

(* Mutant: the handle's reference to the closure is never given back.      *)
HandleDropForgetting ==
  /\ handle = "declared"
  /\ handle' = "dropped"
  /\ UNCHANGED <<pending, phase, arg, kept, destroyed, refs, context, closes>>

(* The program drops its handle (z_subscriber_drop, z_scout_drop, ...): no *)
(* new calls begin, calls under way go on.                                 *)
HandleDrop ==
  /\ handle = "declared"
  /\ handle' = "dropped"
  /\ ReleaseClosure
  /\ UNCHANGED <<pending, phase, arg, kept, destroyed>>

-------------------------------------------------------------------------------
Library(t) == Pick(t) \/ Invoke(t) \/ TrampolineDrop(t)

Handler(t) == HandlerReturn(t) \/ \E p \in Places : Take(t, p)

Next ==
  \/ \E t \in Threads : Library(t) \/ Handler(t)
  \/ \E v \in Values : Discard(v)
  \/ \E p \in Places : DropKept(p)
  \/ HandleDrop

(* A call that has begun ends, and what nobody can receive any more is     *)
(* discarded.  Nothing makes the program drop its handle or what it keeps, *)
(* and nothing makes the library deliver.                                  *)
Fairness ==
  /\ \A t \in Threads :
       /\ WF_vars(Invoke(t))
       /\ WF_vars(HandlerReturn(t))
       /\ WF_vars(TrampolineDrop(t))
  /\ \A v \in Values : WF_vars(Discard(v))

Spec == Init /\ [][Next]_vars

FairSpec == Spec /\ Fairness

-------------------------------------------------------------------------------
(* Correctness.                                                            *)

InFlight == {t \in Threads : phase[t] # "idle"}

Held(v) ==
  \/ v \in pending
  \/ \E t \in Threads : arg[t] = v
  \/ \E p \in Places : kept[p] = v

(* Every variable has its type.                                            *)
TypeOK ==
  /\ pending \subseteq Values
  /\ phase \in [Threads -> {"idle", "picked", "call", "returned"}]
  /\ arg \in [Threads -> Content]
  /\ kept \in [Places -> Content]
  /\ destroyed \in [Values -> Nat]
  /\ handle \in {"declared", "dropped"}
  /\ refs \in Nat
  /\ context \in {"live", "released"}
  /\ closes \in Nat

(* No value is reachable from two places: whatever threads, takes and      *)
(* drops interleave, a value one party drops is not one another party can  *)
(* still read.  (Why z_<x>_take must leave a gravestone behind.)           *)
SingleOwner ==
  /\ \A t \in Threads :
       arg[t] \in Values =>
         /\ arg[t] \notin pending
         /\ \A u \in Threads : arg[u] = arg[t] => u = t
         /\ \A p \in Places : kept[p] # arg[t]
  /\ \A p \in Places :
       kept[p] \in Values =>
         /\ kept[p] \notin pending
         /\ \A q \in Places : kept[q] = kept[p] => q = p

(* A value is destroyed exactly once, and only when no place holds it any  *)
(* more: nothing leaks, nothing is freed twice, no held value is dead.     *)
Accounted ==
  \A v \in Values : destroyed[v] = IF Held(v) THEN 0 ELSE 1

(* The closure's context outlives every call, also the calls that were     *)
(* under way when the program dropped its handle, and on_close is called   *)
(* once, after the last of them.                                           *)
ContextOutlivesCalls ==
  /\ context = "released" => handle = "dropped" /\ InFlight = {}
  /\ closes = IF context = "released" THEN 1 ELSE 0

(* Once the program has dropped its handle, on_close is called: what z_get *)
(* blocks on and what z_sub_thr and z_scout report from.                   *)
EventuallyClosed == handle = "dropped" ~> closes = 1

(* Once the program has dropped its handle, every value received ends up   *)
(* destroyed or in a place of the program's; none is stranded.             *)
NothingStranded ==
  handle = "dropped" ~>
    \A v \in Values : destroyed[v] = 1 \/ \E p \in Places : kept[p] = v

(* Who answers for v.  A value that is in no place and was not destroyed   *)
(* has no owner and is none of OwnedValue's cases.                         *)
OwnerOf(v) ==
  IF \E t \in Threads : arg[t] = v /\ phase[t] # "picked" THEN "callback"
  ELSE IF \E p \in Places : kept[p] = v THEN "program"
  ELSE IF v \in pending \/ \E t \in Threads : arg[t] = v THEN "library"
  ELSE IF destroyed[v] = 1 THEN "nobody"
  ELSE "leaked"

OV == INSTANCE OwnedValue WITH owner <- [v \in Values |-> OwnerOf(v)]

(* Copied, emptied and dropped as they are, the places implement values    *)
(* with one owner that only moves forward.                                 *)
ImplementsOwnedValue == OV!Spec

(* README.md:10-11: "callback arguments are owned (the handler must        *)
(* z_<x>_drop them)".  Were that so, a handler that has returned would     *)
(* have left no value in its argument.                                     *)
HandlerDropsArgument ==
  \A t \in Threads : phase[t] = "returned" => arg[t] \notin Values

===============================================================================
