------------------------------ MODULE QueryReply ------------------------------
(***************************************************************************)
(* examples/z_queryable.c answering examples/z_get.c: a query is sent to   *)
(* every queryable that matches, each answers it and drops it, which       *)
(* "finalizes the reply", and the reply stream of the get ends when all    *)
(* have been finalized, or earlier when the query times out or loses its   *)
(* session (z_get.c:15-18).                                                *)
(*                                                                         *)
(* The handler of z_queryable.c answers in the call.  A program may also   *)
(* take the query out of its argument "to answer later" (line 58).  A      *)
(* queryable is ended by CTRL-C (line 95), at any moment.                  *)
(*                                                                         *)
(* zenoh is modelled from what the two programs rely on: what a queryable  *)
(* sends arrives in the order it was sent, and a queryable that is gone    *)
(* may take with it what had not arrived.  z_get.c leaves the consolidation*)
(* to the library (NULL at line 119), and every reply has the query's own  *)
(* key expression (z_queryable.c:50): the library may keep replies back,   *)
(* and of several it need hand over only one.                              *)
(***************************************************************************)
EXTENDS Integers, Sequences

CONSTANTS
  Queryables,  \* processes running z_queryable.c, or one that answers later
  Deferring,   \* those that may take the query and answer later
  MaxReplies   \* replies to one query (a bound for TLC; z_queryable.c: one)

ASSUME QueryReplyAssumption ==
  Deferring \subseteq Queryables /\ MaxReplies \in Nat \ {0}

VARIABLES
  place,       \* where each queryable's copy of the query is
  pc,          \* how far its answer is
  alive,       \* whether the queryable still runs
  wire,        \* what it has sent and has not arrived
  replied,     \* replies it has sent
  arrived,     \* replies of it that have reached the get while it ran
  query,       \* the query as the getting library sees it
  awaited,     \* queryables not yet finalized
  held,        \* whether the library keeps a reply back
  given,       \* whether reply_handler has been called with one
  cut          \* whether the query ended with some still awaited

answering == <<place, pc, alive>>
consolidated == <<held, given>>
getting == <<query, awaited, consolidated, cut>>
vars == <<answering, wire, replied, arrived, getting>>

Init ==
  /\ place = [q \in Queryables |-> "none"]
  /\ pc = [q \in Queryables |-> "idle"]
  /\ alive = [q \in Queryables |-> TRUE]
  /\ wire = [q \in Queryables |-> <<>>]
  /\ replied = [q \in Queryables |-> 0]
  /\ arrived = [q \in Queryables |-> 0]
  /\ query = "none" /\ awaited = {} /\ cut = FALSE
  /\ held = FALSE /\ given = FALSE

-------------------------------------------------------------------------------
(* A queryable.                                                            *)

Goto(q, from, to) ==
  alive[q] /\ pc[q] = from /\ pc' = [pc EXCEPT ![q] = to]

Send(q, m) == wire' = [wire EXCEPT ![q] = Append(@, m)]

(* The query arrives in the handler's argument.                            *)
Enter(q) ==
  /\ Goto(q, "idle", "entered")
  /\ place[q] = "sent" /\ place' = [place EXCEPT ![q] = "arg"]
  /\ UNCHANGED <<alive, wire, replied, arrived, getting>>

(* z_query_take moves the query out; the handler returns without answering,*)
(* and the drop of its argument finds a gravestone.                        *)
Take(q) ==
  /\ q \in Deferring
  /\ Goto(q, "entered", "entered")
  /\ place[q] = "arg" /\ place' = [place EXCEPT ![q] = "kept"]
  /\ UNCHANGED <<alive, wire, replied, arrived, getting>>

(* Mutant: the handler answers a query that it has dropped already.        *)
ReplyAfterDrop(q) ==
  /\ \/ \E from \in {"entered", "done"} :
          /\ Goto(q, from, IF from = "done" THEN "done" ELSE "replied")
          /\ replied[q] < MaxReplies
          /\ Send(q, "reply") /\ replied' = [replied EXCEPT ![q] = @ + 1]
     \/ Goto(q, "entered", "refused") /\ UNCHANGED <<wire, replied>>
  /\ UNCHANGED <<place, alive, arrived, getting>>

(* One answer, with the query's own key expression.                        *)
(* z_query_reply_success may refuse; the handler does not look.            *)
Reply(q) ==
  /\ \/ /\ Goto(q, "entered", "replied")
        /\ Send(q, "reply") /\ replied' = [replied EXCEPT ![q] = @ + 1]
     \/ Goto(q, "entered", "refused") /\ UNCHANGED <<wire, replied>>
  /\ UNCHANGED <<place, alive, arrived, getting>>

(* A program other than z_queryable.c may answer more than once.           *)
ReplyMore(q) ==
  /\ q \in Deferring /\ replied[q] < MaxReplies
  /\ Goto(q, "replied", "entered")
  /\ UNCHANGED <<place, alive, wire, replied, arrived, getting>>

(* Mutant: the handler drops its argument, and the caller once more.       *)
DropTwice(q) ==
  /\ Goto(q, "replied", "refused") \/ Goto(q, "refused", "done")
  /\ place' = [place EXCEPT ![q] = "dropped"]
  /\ Send(q, "final")
  /\ UNCHANGED <<alive, replied, arrived, getting>>

(* Mutant: a query that was taken out is never finalized.                  *)
DropArgumentOnly(q) ==
  /\ \E from \in {"replied", "refused"} : Goto(q, from, "done")
  /\ place' = [place EXCEPT ![q] = "dropped"]
  /\ IF place[q] = "arg" THEN Send(q, "final") ELSE UNCHANGED wire
  /\ UNCHANGED <<alive, replied, arrived, getting>>

(* The drop finalizes the reply: of the argument, by the caller after the  *)
(* handler has returned; of a query that was kept, by the program.         *)
Drop(q) ==
  /\ \E from \in {"replied", "refused"} : Goto(q, from, "done")
  /\ place' = [place EXCEPT ![q] = "dropped"]
  /\ Send(q, "final")
  /\ UNCHANGED <<alive, replied, arrived, getting>>

Answer(q) == Enter(q) \/ Take(q) \/ Reply(q) \/ Drop(q)

(* The queryable is gone, and the end of what it sent with it.             *)
Crash(q) ==
  /\ alive[q] /\ alive' = [alive EXCEPT ![q] = FALSE]
  /\ \E n \in 0..Len(wire[q]) :
       wire' = [wire EXCEPT ![q] = SubSeq(@, 1, n)]
  /\ UNCHANGED <<place, pc, replied, arrived, getting>>

-------------------------------------------------------------------------------
(* The get.                                                                *)

(* Mutant: queryables that do not match are waited for.                    *)
GetAwaitingAll ==
  /\ query = "none" /\ query' = "running"
  /\ \E asked \in SUBSET {q \in Queryables : alive[q]} :
       /\ awaited' = Queryables
       /\ place' = [q \in Queryables |-> IF q \in asked THEN "sent" ELSE place[q]]
  /\ UNCHANGED <<pc, alive, wire, replied, arrived, consolidated, cut>>

(* z_session_get asks the queryables that match the selector and target,   *)
(* which may be none.                                                      *)
Get ==
  /\ query = "none" /\ query' = "running"
  /\ \E asked \in SUBSET {q \in Queryables : alive[q]} :
       /\ awaited' = asked
       /\ place' = [q \in Queryables |-> IF q \in asked THEN "sent" ELSE place[q]]
  /\ UNCHANGED <<pc, alive, wire, replied, arrived, consolidated, cut>>

Arrives(q, m) ==
  /\ wire[q] # <<>> /\ Head(wire[q]) = m
  /\ wire' = [wire EXCEPT ![q] = Tail(@)]

(* A reply arrives.  reply_handler is called with it; or the library keeps *)
(* it back, in the place of what it kept; or leaves it out for another.    *)
ReceiveReply(q) ==
  /\ query = "running" /\ Arrives(q, "reply")
  /\ arrived' = [arrived EXCEPT ![q] = @ + 1]
  /\ \/ given' = TRUE /\ UNCHANGED held
     \/ held' = TRUE /\ UNCHANGED given
     \/ (held \/ given) /\ UNCHANGED consolidated
  /\ UNCHANGED <<answering, replied, query, awaited, cut>>

ReceiveFinal(q) ==
  /\ query = "running" /\ Arrives(q, "final")
  /\ awaited' = awaited \ {q}
  /\ UNCHANGED <<answering, replied, arrived, query, consolidated, cut>>

(* What arrives after the end is dropped.                                  *)
ReceiveLate(q) ==
  /\ query \in {"ended", "closed"} /\ wire[q] # <<>>
  /\ wire' = [wire EXCEPT ![q] = Tail(@)]
  /\ UNCHANGED <<answering, replied, arrived, getting>>

(* What was kept back is handed over, at the end of the query or before.   *)
HandOver ==
  /\ query \in {"running", "ended"}
  /\ held /\ held' = FALSE /\ given' = TRUE
  /\ UNCHANGED <<answering, wire, replied, arrived, query, awaited, cut>>

EndAllDone ==
  /\ query = "running" /\ query' = "ended"
  /\ awaited = {}
  /\ UNCHANGED <<answering, wire, replied, arrived, awaited, consolidated, cut>>

(* The timeout, or z_session_drop; with it may go what was kept back.      *)
EndCut ==
  /\ query = "running" /\ query' = "ended"
  /\ awaited # {} /\ cut' = TRUE
  /\ held' \in {held, FALSE}
  /\ UNCHANGED <<answering, wire, replied, arrived, awaited, given>>

(* on_close.                                                               *)
Close ==
  /\ query = "ended" /\ query' = "closed"
  /\ ~held
  /\ UNCHANGED <<answering, wire, replied, arrived, awaited, consolidated, cut>>

Receive(q) == ReceiveReply(q) \/ ReceiveFinal(q) \/ ReceiveLate(q)

Library == (\E q \in Queryables : Receive(q)) \/ HandOver \/ EndAllDone \/ Close

Next ==
  \/ \E q \in Queryables : Answer(q) \/ ReplyMore(q) \/ Crash(q)
  \/ Library \/ Get \/ EndCut

(* A queryable that runs answers and drops what it holds; messages arrive, *)
(* what is kept back is handed over and the stream is closed.  Nothing is  *)
(* assumed of timeouts, nor that a queryable stops answering but for       *)
(* MaxReplies.                                                             *)
Spec == Init /\ [][Next]_vars /\ WF_vars(Library)
        /\ \A q \in Queryables : WF_vars(Answer(q)) /\ WF_vars(Receive(q))

-------------------------------------------------------------------------------
(* Correctness.                                                            *)

(* Every variable has its type; only who was asked is awaited.             *)
TypeOK ==
  /\ place \in [Queryables -> {"none", "sent", "arg", "kept", "dropped"}]
  /\ pc \in [Queryables -> {"idle", "entered", "replied", "refused", "done"}]
  /\ alive \in [Queryables -> BOOLEAN]
  /\ wire \in [Queryables -> Seq({"reply", "final"})]
  /\ replied \in [Queryables -> 0..MaxReplies]
  /\ arrived \in [Queryables -> 0..MaxReplies]
  /\ query \in {"none", "running", "ended", "closed"}
  /\ awaited \subseteq {q \in Queryables : place[q] # "none"}
  /\ {held, given, cut} \subseteq BOOLEAN

(* A queryable finalizes once, and after its last reply: nothing follows a *)
(* final message, and there is none while the query is still held.         *)
FinalIsLast ==
  \A q \in Queryables : \A i \in DOMAIN wire[q] :
    wire[q][i] = "final" => i = Len(wire[q]) /\ place[q] = "dropped"

(* "All queryables answered" (z_get.c:17) means that no answer is missing: *)
(* unless the query was cut short, every reply that was sent, by whichever *)
(* queryable, has reached the get before on_close, even if the queryable is*)
(* gone since; and if there was one, reply_handler has been called.  With  *)
(* how many of them is left to the library: they are of one key.           *)
NoReplyLost ==
  query = "closed" /\ ~cut
    => /\ \A q \in Queryables : arrived[q] = replied[q]
       /\ (\E q \in Queryables : replied[q] > 0) => given

(* The get does not have to wait for the timeout: unless a queryable goes, *)
(* the answers alone end it, and on_close comes.                           *)
StreamEnds ==
  query = "running" ~> query = "closed" \/ \E q \in Queryables : ~alive[q]

===============================================================================
