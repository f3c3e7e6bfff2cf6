------------------------------ MODULE OwnedValue ------------------------------
(***************************************************************************)
(* What the flat C API promises about one value handed to a callback       *)
(* (z_sample_t, z_reply_t, z_query_t, z_hello_t): at every moment exactly  *)
(* one party answers for it, ownership only moves forward, and the value   *)
(* is destroyed once and never comes back.  CallbackDelivery, where values *)
(* live in C memory places that are copied, emptied and dropped by several *)
(* threads, implements this specification.                                 *)
(***************************************************************************)
CONSTANT Values          \* the values the library will hand out

VARIABLE owner           \* who answers for each value

Owners == {"library", "callback", "program", "nobody"}

Init == owner = [v \in Values |-> "library"]

(* The library lends v to a callback: the trampoline's frame holds it.     *)
Deliver(v) ==
  /\ owner[v] = "library"
  /\ owner' = [owner EXCEPT ![v] = "callback"]

(* The handler moves v out of the callback, to keep it.                    *)
Keep(v) ==
  /\ owner[v] = "callback"
  /\ owner' = [owner EXCEPT ![v] = "program"]

(* Whoever answers for v destroys it.                                      *)
Destroy(v) ==
  /\ owner[v] # "nobody"
  /\ owner' = [owner EXCEPT ![v] = "nobody"]

Next == \E v \in Values : Deliver(v) \/ Keep(v) \/ Destroy(v)

Spec == Init /\ [][Next]_owner
===============================================================================
