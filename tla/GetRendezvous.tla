---------------------------- MODULE GetRendezvous ----------------------------
(***************************************************************************)
(* examples/z_get.c: main sends a query and blocks on a condition variable *)
(* until on_close has run on a library thread, but no longer than until a  *)
(* deadline on the wall clock.  The completion state (mutex, condition and *)
(* flag) lives on main's stack and main destroys it when it has stopped    *)
(* waiting, whether on_close has run or not.                               *)
(*                                                                         *)
(* The library is modelled from what z_get.c relies on: replies come on    *)
(* its threads, and after the last of them on_close is called once, when   *)
(* the query completes, times out or its session is dropped.  Time is kept *)
(* as what z_get.c compares: how old the query is and how long the         *)
(* deadline is away.                                                       *)
(***************************************************************************)
EXTENDS Integers

CONSTANTS
  TPS,         \* clock ticks per second
  Timeout,     \* the query's timeout, in ticks
  Lag,         \* ticks after the timeout that on_close may come late
  MaxJump,     \* ticks by which the wall clock may be set, all told
  MaxCalls     \* reply handlers running at once (a bound for TLC)

ASSUME RendezvousAssumption ==
  /\ TPS \in Nat \ {0}
  /\ {Timeout, Lag, MaxJump, MaxCalls} \subseteq Nat

VARIABLES
  main,        \* where main is
  expired,     \* main's last timed wait returned that the deadline passed
  mutex,       \* sig.m: its state, or its holder
  cond,        \* sig.c
  done,        \* sig.done
  query,       \* the query as the library sees it
  calls,       \* reply handlers running
  closer,      \* where the library thread that runs on_close is
  age,         \* ticks since the query was sent, as far as it matters
  left,        \* ticks from the wall clock's time to the deadline
  jump,        \* ticks by which the wall clock may still be set
  late         \* whether on_close has been late: Lag over, and not returned

sig == <<mutex, cond, done>>
library == <<query, calls, closer>>
time == <<age, left, jump, late>>
vars == <<main, expired, sig, library, time>>

Init ==
  /\ main = "open" /\ expired = FALSE
  /\ mutex = "uninit" /\ cond = "uninit" /\ done = FALSE
  /\ query = "none" /\ calls = 0 /\ closer = "none"
  /\ age = 0 /\ left = 0 /\ jump = MaxJump /\ late = FALSE

-------------------------------------------------------------------------------
(* main.                                                                   *)

Goto(from, to) == main = from /\ main' = to

(* z_open gives a session, or NULL: main returns.                          *)
Open ==
  /\ Goto("open", "keyexpr") \/ Goto("open", "exited")
  /\ UNCHANGED <<expired, sig, library, time>>

(* An invalid key expression makes main drop the session and return.       *)
KeyExpr ==
  /\ Goto("keyexpr", "setup") \/ Goto("keyexpr", "exited")
  /\ UNCHANGED <<expired, sig, library, time>>

Setup ==
  /\ Goto("setup", "get")
  /\ mutex' = "free" /\ cond' = "live" /\ done' = FALSE
  /\ UNCHANGED <<expired, library, time>>

(* The query is under way when z_session_get returns true.  If it fails,   *)
(* the closures are dropped before it returns, on_close run or not.        *)
Get ==
  /\ \/ /\ Goto("get", "clock")
        /\ query' = "running" /\ age' = 0
        /\ UNCHANGED done
     \/ /\ Goto("get", "destroy_cond")
        /\ done' \in BOOLEAN
        /\ UNCHANGED <<query, age>>
  /\ UNCHANGED <<expired, mutex, cond, calls, closer, left, jump, late>>

(* Mutants: no margin; milliseconds taken for seconds.                     *)
MarginNone == (Timeout \div TPS) * TPS
MarginUnscaled == (Timeout + 2) * TPS

(* The deadline is now, plus the timeout in whole seconds, plus two.       *)
Margin == (Timeout \div TPS + 2) * TPS

Clock ==
  /\ Goto("clock", "lock")
  /\ left' = Margin
  /\ UNCHANGED <<expired, sig, library, age, jump, late>>

(* Mutant: main looks at the flag without the mutex.                       *)
LockNot ==
  /\ Goto("lock", "test")
  /\ UNCHANGED <<expired, sig, library, time>>

Lock ==
  /\ Goto("lock", "test")
  /\ mutex = "free" /\ mutex' = "main"
  /\ UNCHANGED <<expired, cond, done, library, time>>

(* while (!sig.done)                                                       *)
TestDone ==
  /\ \/ done /\ Goto("test", "unlock")
     \/ ~done /\ Goto("test", "wait")
  /\ UNCHANGED <<expired, sig, library, time>>

(* The timed wait gives the mutex up and sleeps, in one step.              *)
Wait ==
  /\ Goto("wait", "waiting")
  /\ mutex' = "free"
  /\ UNCHANGED <<expired, cond, done, library, time>>

(* The wait ends at the deadline.                                          *)
Expire ==
  /\ Goto("waiting", "relock")
  /\ left <= 0
  /\ expired' = TRUE
  /\ UNCHANGED <<sig, library, time>>

(* It may end without a reason before that.                                *)
SpuriousWakeup ==
  /\ Goto("waiting", "relock")
  /\ left > 0
  /\ expired' = FALSE
  /\ UNCHANGED <<sig, library, time>>

(* Mutants: if instead of while; no way out of the loop but the flag.      *)
RelockOnce ==
  /\ Goto("relock", "unlock")
  /\ mutex = "free" /\ mutex' = "main"
  /\ UNCHANGED <<expired, cond, done, library, time>>
RelockForever ==
  /\ Goto("relock", "test")
  /\ mutex = "free" /\ mutex' = "main"
  /\ UNCHANGED <<expired, cond, done, library, time>>

(* The wait returns with the mutex; main breaks off if the deadline passed.*)
Relock ==
  /\ \/ expired /\ Goto("relock", "unlock")
     \/ ~expired /\ Goto("relock", "test")
  /\ mutex = "free" /\ mutex' = "main"
  /\ UNCHANGED <<expired, cond, done, library, time>>

Unlock ==
  /\ Goto("unlock", "destroy_cond")
  /\ mutex' = "free"
  /\ UNCHANGED <<expired, cond, done, library, time>>

DestroyCond ==
  /\ Goto("destroy_cond", "destroy_mutex")
  /\ cond' = "destroyed"
  /\ UNCHANGED <<expired, mutex, done, library, time>>

DestroyMutex ==
  /\ Goto("destroy_mutex", "drop")
  /\ mutex' = "destroyed"
  /\ UNCHANGED <<expired, cond, done, library, time>>

(* main drops the session and returns.                                     *)
Drop ==
  /\ Goto("drop", "exited")
  /\ UNCHANGED <<expired, sig, library, time>>

Main ==
  \/ Open \/ KeyExpr \/ Setup \/ Get \/ Clock \/ Lock \/ TestDone
  \/ Wait \/ Expire \/ Relock \/ Unlock \/ DestroyCond \/ DestroyMutex \/ Drop

-------------------------------------------------------------------------------
(* The library's threads: replies, then on_close.                          *)

(* reply_handler reads the reply and prints it; it does not touch sig.     *)
ReplyBegin ==
  /\ query = "running" /\ calls < MaxCalls
  /\ calls' = calls + 1
  /\ UNCHANGED <<main, expired, sig, query, closer, time>>

ReplyEnd ==
  /\ calls > 0
  /\ calls' = calls - 1
  /\ UNCHANGED <<main, expired, sig, query, closer, time>>

(* The query completes, times out or loses its session.                    *)
EndQuery ==
  /\ query = "running"
  /\ query' = "ended"
  /\ UNCHANGED <<main, expired, sig, calls, closer, time>>

(* on_close is called after the last reply handler has returned.           *)
Fire ==
  /\ query = "ended" /\ calls = 0 /\ closer = "none"
  /\ closer' = "entered"
  /\ UNCHANGED <<main, expired, sig, query, calls, time>>

(* Mutant: on_close does not wait for the mutex.                           *)
CloseLockNot ==
  /\ closer = "entered" /\ closer' = "locked"
  /\ UNCHANGED <<main, expired, sig, query, calls, time>>

(* on_close: lock, set the flag, signal, unlock.                           *)
CloseLock ==
  /\ closer = "entered" /\ closer' = "locked"
  /\ mutex = "free" /\ mutex' = "closer"
  /\ UNCHANGED <<main, expired, cond, done, query, calls, time>>

CloseSet ==
  /\ closer = "locked" /\ closer' = "set"
  /\ done' = TRUE
  /\ UNCHANGED <<main, expired, mutex, cond, query, calls, time>>

(* The signal wakes main if it waits, and is lost if it does not.          *)
CloseSignal ==
  /\ closer = "set" /\ closer' = "signalled"
  /\ IF main = "waiting"
     THEN main' = "relock" /\ expired' = FALSE
     ELSE UNCHANGED <<main, expired>>
  /\ UNCHANGED <<sig, query, calls, time>>

CloseUnlock ==
  /\ closer = "signalled" /\ closer' = "returned"
  /\ mutex' = "free"
  /\ UNCHANGED <<main, expired, cond, done, query, calls, time>>

OnClose == CloseLock \/ CloseSet \/ CloseSignal \/ CloseUnlock

-------------------------------------------------------------------------------
(* Time.                                                                   *)

Sent == query # "none"

Old == age = Timeout + Lag

Tick ==
  /\ age' = IF Sent /\ ~Old THEN age + 1 ELSE age
  /\ left' = IF left > 0 THEN left - 1 ELSE left
  /\ late' = (late \/ (Sent /\ Old /\ closer # "returned"))
  /\ UNCHANGED <<main, expired, sig, library, jump>>

(* CLOCK_REALTIME is set forward or back while main has a deadline on it.  *)
Jump ==
  /\ left > 0
  /\ \E d \in 1..jump :
       /\ left' \in {left - d, left + d}
       /\ jump' = jump - d
  /\ UNCHANGED <<main, expired, sig, library, age, late>>

Next ==
  \/ Main \/ SpuriousWakeup
  \/ ReplyBegin \/ ReplyEnd \/ EndQuery \/ Fire \/ OnClose
  \/ Tick \/ Jump

(* main runs, time passes, and an on_close that was called gets through.   *)
(* That the library ends the query or calls on_close is NOT assumed.       *)
Fairness == WF_vars(Main) /\ WF_vars(OnClose) /\ WF_vars(Tick)

Spec == Init /\ [][Next]_vars

FairSpec == Spec /\ Fairness

-------------------------------------------------------------------------------
(* Correctness.                                                            *)

(* Every variable has its type, the timers within their bounds.            *)
TypeOK ==
  /\ main \in {"open", "keyexpr", "setup", "get", "clock", "lock", "test",
                "wait", "waiting", "relock", "unlock", "destroy_cond",
                "destroy_mutex", "drop", "exited"}
  /\ expired \in BOOLEAN
  /\ mutex \in {"uninit", "free", "main", "closer", "destroyed"}
  /\ cond \in {"uninit", "live", "destroyed"}
  /\ done \in BOOLEAN
  /\ query \in {"none", "running", "ended"}
  /\ calls \in 0..MaxCalls
  /\ closer \in {"none", "entered", "locked", "set", "signalled", "returned"}
  /\ age \in 0..(Timeout + Lag)
  /\ left \in -MaxJump..(Timeout + 2 * TPS + MaxJump)
  /\ jump \in 0..MaxJump
  /\ late \in BOOLEAN

Closing == closer \in {"entered", "locked", "set", "signalled"}

StoppedWaiting ==
  main \in {"unlock", "destroy_cond", "destroy_mutex", "drop", "exited"}

(* The completion state is whole for as long as on_close runs: main does   *)
(* not destroy the condition or the mutex, or leave their frame, while     *)
(* on_close is about to lock, set, signal or unlock.                       *)
SignalAlive == Closing => mutex \notin {"uninit", "destroyed"} /\ cond = "live"

(* That holds for as long as on_close has not been late: the two seconds   *)
(* that the deadline adds to the timeout cover the Lag, the rounding of    *)
(* the timeout to seconds and the steps of the wall clock.                 *)
SignalAliveInTime == ~late => SignalAlive

(* When main has stopped waiting for a query that was sent, the query is   *)
(* over: on_close has set the flag and no reply is still being printed,    *)
(* again unless on_close has been late.                                    *)
CompletionSeen == Sent /\ StoppedWaiting /\ ~late => done /\ calls = 0

(* main never sleeps on with the flag set and the signal already given.    *)
NoLostWakeup == main = "waiting" /\ done => closer = "set"

(* sig.done is a plain bool: main does not set it up or read it while      *)
(* on_close is about to set it, however late on_close comes.               *)
FlagNotRaced == main \in {"setup", "get", "test"} => closer # "locked"

(* z_get.c:124-125: the wait is "bounded by the query timeout plus a       *)
(* margin so we never hang if it doesn't fire".                            *)
NeverHangs == <>(main = "exited")

===============================================================================
