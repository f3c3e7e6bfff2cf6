-------------------------- MODULE GetRendezvousProofs --------------------------
(***************************************************************************)
(* Proofs about GetRendezvous, for any timeout, clock resolution and lag:  *)
(* on_close never meets a completion state that main has destroyed,        *)
(* provided the library is prompt enough for the deadline, and z_get.c's   *)
(* two seconds of margin leave it one second.                              *)
(***************************************************************************)
EXTENDS GetRendezvous, TLAPS

(* What the library may take, and the wall clock jump, before main gives   *)
(* up on it.                                                               *)
InTime == Timeout + Lag + MaxJump < Margin

-------------------------------------------------------------------------------
(* Rounding the timeout down to seconds costs less than a second.          *)
LEMMA MarginBounds ==
  Margin \in Nat /\ Timeout + TPS < Margin /\ Margin <= Timeout + 2 * TPS
<1> DEFINE q == Timeout \div TPS
<1>1. TPS \in Nat \ {0} /\ Timeout \in Nat
  BY RendezvousAssumption
<1>2. /\ q \in Nat /\ Timeout = TPS * q + (Timeout % TPS)
      /\ Timeout % TPS \in 0..(TPS - 1)
  BY <1>1
<1>3. TPS * q \in Nat
  BY <1>1, <1>2
<1>4. (q + 2) * TPS = TPS * q + 2 * TPS
  BY <1>1, <1>2
<1>5. /\ Timeout + TPS < TPS * q + 2 * TPS
      /\ TPS * q + 2 * TPS <= Timeout + 2 * TPS
  <2> HIDE DEF q
  <2> QED
    BY <1>1, <1>2, <1>3
<1> QED
  BY <1>1, <1>3, <1>4, <1>5 DEF Margin

(* So the two added seconds cover the timeout and one second more, be it   *)
(* the library's lag or a step of the wall clock.                          *)
THEOREM OneSecondIsCovered == Lag + MaxJump <= TPS => InTime
  BY MarginBounds, RendezvousAssumption DEF InTime

-------------------------------------------------------------------------------
(* The inductive invariant.                                                *)

(* The completion state exists between Setup and the destroying calls.     *)
SigExists ==
  /\ main \in {"open", "keyexpr", "setup"} => mutex = "uninit"
  /\ main \in {"get", "clock", "lock", "test", "wait", "waiting", "relock",
               "unlock", "destroy_cond"}
       => mutex \in {"free", "main", "closer"} /\ cond = "live"
  /\ main = "destroy_mutex" => mutex # "uninit"
  /\ main \in {"drop", "exited"} => mutex # "main"
  /\ main \in {"open", "keyexpr", "setup", "get"} => query = "none"
  /\ main \in {"clock", "lock", "test", "wait", "waiting", "relock", "unlock"}
       => query # "none"

(* The mutex is held by the one that is between its lock and its unlock.   *)
MutexHeld ==
  /\ main \in {"test", "wait", "unlock"} => mutex = "main"
  /\ mutex = "main" => main \in {"test", "wait", "unlock"}
  /\ closer \in {"locked", "set", "signalled"} /\ main \notin {"drop", "exited"}
       => mutex = "closer"
  /\ mutex = "closer" => closer \in {"locked", "set", "signalled"}

(* How far on_close is, and the flag.                                      *)
CloserOrder ==
  /\ closer # "none" => query = "ended" /\ calls = 0
  /\ query = "none" => calls = 0
  /\ main = "get" => ~done
  /\ Sent => (done <=> closer \in {"set", "signalled", "returned"})

(* The deadline is no nearer than the query is old, but for what the wall  *)
(* clock was set by.                                                       *)
DeadlineAhead ==
  /\ left <= Margin + (MaxJump - jump)
  /\ left >= 0 - (MaxJump - jump)
  /\ main \in {"lock", "test", "wait", "waiting", "relock"}
     /\ closer # "returned" /\ InTime /\ ~late
       => left + age >= Margin - (MaxJump - jump)

(* main goes on only when on_close is over.                                *)
WaitsForClose ==
  /\ InTime /\ ~late /\ Sent /\ (StoppedWaiting \/ (main = "relock" /\ expired))
       => closer = "returned"
  /\ main = "wait" => closer \in {"none", "entered"}
  /\ main = "waiting" => closer \in {"none", "entered", "locked", "set"}

IInv == TypeOK /\ SigExists /\ MutexHeld /\ CloserOrder /\ DeadlineAhead
        /\ WaitsForClose

-------------------------------------------------------------------------------
(* The initial state satisfies the invariant.                              *)
LEMMA InitInvariant == Init => IInv
<1> SUFFICES ASSUME Init PROVE IInv
  OBVIOUS
<1>0. /\ TPS \in Nat /\ Timeout \in Nat /\ Lag \in Nat
      /\ MaxJump \in Nat /\ MaxCalls \in Nat
  BY RendezvousAssumption
<1>1. TypeOK
  <2>1. age \in 0..(Timeout + Lag) /\ jump \in 0..MaxJump /\ calls \in 0..MaxCalls
    BY <1>0 DEF Init
  <2>2. left \in -MaxJump..(Timeout + 2 * TPS + MaxJump)
    BY <1>0 DEF Init
  <2>3. expired \in BOOLEAN /\ done \in BOOLEAN /\ late \in BOOLEAN
    BY DEF Init
  <2> QED
    BY <2>1, <2>2, <2>3 DEF Init, TypeOK
<1>2. SigExists /\ MutexHeld
  BY DEF Init, SigExists, MutexHeld
<1>3. CloserOrder /\ WaitsForClose
  BY DEF Init, CloserOrder, WaitsForClose, StoppedWaiting, Sent
<1>4. DeadlineAhead
  BY RendezvousAssumption, MarginBounds DEF Init, DeadlineAhead
<1> QED
  BY <1>1, <1>2, <1>3, <1>4 DEF IInv

(* The library thread wakes main, or a spurious wakeup does: types, which  *)
(* do not depend on time.                                                  *)
LEMMA WakeupType ==
  ASSUME TypeOK, SpuriousWakeup \/ CloseSignal PROVE TypeOK'
<1>1. /\ UNCHANGED <<mutex, cond, done, query, calls>>
      /\ UNCHANGED <<age, left, jump, late>>
  BY Zenon DEF SpuriousWakeup, CloseSignal, sig, library, time
<1>2. main' \in {main, "relock"} /\ expired' \in {expired, FALSE}
      /\ closer' \in {closer, "signalled"}
  BY DEF SpuriousWakeup, CloseSignal, Goto, library
<1>3. /\ age' \in 0..(Timeout + Lag) /\ jump' \in 0..MaxJump
      /\ left' \in -MaxJump..(Timeout + 2 * TPS + MaxJump)
      /\ calls' \in 0..MaxCalls
  BY <1>1, Zenon DEF TypeOK
<1>4. expired' \in BOOLEAN /\ done' \in BOOLEAN /\ late' \in BOOLEAN
  BY <1>1, <1>2, Zenon DEF TypeOK
<1> QED
  BY <1>1, <1>2, <1>3, <1>4 DEF TypeOK

(* Every step preserves it.                                                *)
LEMMA StepInvariant == IInv /\ [Next]_vars => IInv'
<1> SUFFICES ASSUME IInv, [Next]_vars PROVE IInv'
  OBVIOUS
<1> USE RendezvousAssumption, MarginBounds
<1> USE DEF IInv, TypeOK, SigExists, MutexHeld, CloserOrder, DeadlineAhead,
            WaitsForClose, StoppedWaiting, Sent, Goto,
            sig, library, time
<1>m. Margin' = Margin /\ InTime' = InTime
  BY DEF Margin, InTime
<1>1. CASE Open
  BY <1>1, <1>m DEF Open
<1>2. CASE KeyExpr
  BY <1>2, <1>m DEF KeyExpr
<1>3. CASE Setup
  BY <1>3, <1>m DEF Setup
<1>4. CASE Get
  <2>1. TypeOK'
    BY <1>4, <1>m DEF Get
  <2>2. SigExists' /\ MutexHeld'
    BY <1>4, <1>m DEF Get
  <2>3. CloserOrder'
    <3>1. closer = "none" /\ calls = 0 /\ UNCHANGED <<closer, calls>>
      BY <1>4 DEF Get
    <3>2. main' # "get" /\ (Sent' => ~done')
      BY <1>4 DEF Get
    <3> QED
      BY <3>1, <3>2
  <2>4. DeadlineAhead' /\ WaitsForClose'
    BY <1>4, <1>m DEF Get
  <2> QED
    BY <2>1, <2>2, <2>3, <2>4
<1>5. CASE Clock
  BY <1>5, <1>m DEF Clock, InTime
<1>6. CASE Lock
  BY <1>6, <1>m DEF Lock
<1>7. CASE TestDone
  BY <1>7, <1>m DEF TestDone
<1>8. CASE Wait
  BY <1>8, <1>m DEF Wait
<1>9. CASE Expire
  BY <1>9, <1>m DEF Expire, InTime
<1>10. CASE SpuriousWakeup
  <2>1. TypeOK'
    BY <1>10, WakeupType
  <2>2. SigExists' /\ MutexHeld' /\ CloserOrder'
    BY <1>10 DEF SpuriousWakeup
  <2>3. DeadlineAhead' /\ WaitsForClose'
    BY <1>10, <1>m DEF SpuriousWakeup
  <2> QED
    BY <2>1, <2>2, <2>3
<1>11. CASE Relock
  BY <1>11, <1>m DEF Relock
<1>12. CASE Unlock
  BY <1>12, <1>m DEF Unlock
<1>13. CASE DestroyCond
  BY <1>13, <1>m DEF DestroyCond
<1>14. CASE DestroyMutex
  BY <1>14, <1>m DEF DestroyMutex
<1>15. CASE Drop
  BY <1>15, <1>m DEF Drop
<1>16. CASE ReplyBegin
  BY <1>16, <1>m DEF ReplyBegin
<1>17. CASE ReplyEnd
  BY <1>17, <1>m DEF ReplyEnd
<1>18. CASE EndQuery
  BY <1>18, <1>m DEF EndQuery
<1>19. CASE Fire
  BY <1>19, <1>m DEF Fire
<1>20. CASE CloseLock
  BY <1>20, <1>m DEF CloseLock
<1>21. CASE CloseSet
  BY <1>21, <1>m DEF CloseSet
<1>22. CASE CloseSignal
  <2>1. TypeOK'
    BY <1>22, WakeupType
  <2>2. SigExists' /\ MutexHeld'
    BY <1>22, <1>m DEF CloseSignal
  <2>3. CloserOrder' /\ DeadlineAhead'
    BY <1>22, <1>m DEF CloseSignal
  <2>4. WaitsForClose'
    BY <1>22, <1>m DEF CloseSignal
  <2> QED
    BY <2>1, <2>2, <2>3, <2>4
<1>23. CASE CloseUnlock
  BY <1>23, <1>m DEF CloseUnlock
<1>24. CASE Tick
  <2>1. /\ age' \in 0..(Timeout + Lag) /\ age <= age'
        /\ Sent /\ age # Timeout + Lag => age' = age + 1
        /\ left' \in {left, left - 1} /\ left' <= left
        /\ left > 0 => left' = left - 1
        /\ left <= 0 => left' = left
        /\ left' \in -MaxJump..(Timeout + 2 * TPS + MaxJump)
    BY <1>24 DEF Tick, Old
  <2>2. late' \in BOOLEAN /\ (~late' => ~late)
    BY <1>24, Zenon DEF Tick
  <2>3. ~late' => (Sent => ~Old \/ closer = "returned")
    BY <1>24, Zenon DEF Tick
  <2>4. UNCHANGED <<main, expired, sig, library, jump>>
    BY <1>24 DEF Tick
  <2>5. TypeOK' /\ SigExists' /\ MutexHeld' /\ CloserOrder'
    <3>1. TypeOK'
      BY <2>1, <2>2, <2>4
    <3>2. SigExists' /\ MutexHeld' /\ CloserOrder'
      BY <2>4
    <3> QED
      BY <3>1, <3>2
  <2>6. DeadlineAhead'
    <3>1. /\ left' <= Margin + (MaxJump - jump)
          /\ left' >= 0 - (MaxJump - jump)
      BY <2>1
    <3>2. ASSUME main \in {"lock", "test", "wait", "waiting", "relock"},
                 closer # "returned", InTime, ~late'
          PROVE  left' + age' >= Margin - (MaxJump - jump)
      <4>1. ~late /\ Sent /\ age # Timeout + Lag
        BY <2>2, <2>3, <3>2 DEF Old
      <4>2. left + age >= Margin - (MaxJump - jump) /\ age' = age + 1
        BY <2>1, <3>2, <4>1
      <4> QED
        BY <2>1, <4>2
    <3> QED
      BY <1>m, <2>4, <3>1, <3>2
  <2>7. WaitsForClose'
    BY <1>m, <2>2, <2>4
  <2> QED
    BY <2>5, <2>6, <2>7
<1>25. CASE Jump
  BY <1>25, <1>m DEF Jump
<1>26. CASE UNCHANGED vars
  BY <1>26, <1>m DEF vars
<1> QED
  BY <1>1, <1>2, <1>3, <1>4, <1>5, <1>6, <1>7, <1>8, <1>9, <1>10, <1>11, <1>12, <1>13, <1>14, <1>15, <1>16, <1>17, <1>18, <1>19, <1>20, <1>21, <1>22, <1>23, <1>24, <1>25, <1>26 DEF Next, Main, OnClose

(* The invariant holds throughout.                                         *)
THEOREM Invariance == Spec => []IInv
<1>1. Init => IInv
  BY InitInvariant
<1>2. IInv /\ [Next]_vars => IInv'
  BY StepInvariant
<1> QED
  BY <1>1, <1>2, PTL DEF Spec

-------------------------------------------------------------------------------
(* What follows from it.                                                   *)

(* Every variable keeps its type and the timers their bounds.              *)
THEOREM TypeCorrect == Spec => []TypeOK
<1>1. IInv => TypeOK
  BY DEF IInv
<1> QED
  BY <1>1, Invariance, PTL

(* Whatever the library's pace, no wakeup is lost.                         *)
THEOREM NoWakeupLost == Spec => []NoLostWakeup
<1>1. ASSUME IInv PROVE NoLostWakeup
  <2>1. CASE main = "waiting"
    <3>1. closer \in {"none", "entered", "locked", "set"} /\ query # "none"
      BY <1>1, <2>1 DEF IInv, WaitsForClose, SigExists
    <3>2. done => closer = "set"
      BY <1>1, <3>1 DEF IInv, CloserOrder, Sent
    <3> QED
      BY <3>2 DEF NoLostWakeup
  <2> QED
    BY <2>1 DEF NoLostWakeup
<1> QED
  BY <1>1, Invariance, PTL

(* The mutex keeps main's reads of the flag apart from on_close's write,   *)
(* whatever the library's pace.                                            *)
THEOREM FlagUnderMutex == Spec => []FlagNotRaced
<1>1. ASSUME IInv PROVE FlagNotRaced
  <2>1. CASE main = "test"
    <3>1. mutex = "main"
      BY <1>1, <2>1 DEF IInv, MutexHeld
    <3>2. closer = "locked" => mutex = "closer"
      BY <1>1, <2>1 DEF IInv, MutexHeld
    <3> QED
      BY <3>1, <3>2 DEF FlagNotRaced
  <2>2. CASE main \in {"setup", "get"}
    <3>1. query = "none"
      BY <1>1, <2>2 DEF IInv, SigExists
    <3> QED
      BY <1>1, <3>1 DEF IInv, CloserOrder, FlagNotRaced
  <2> QED
    BY <2>1, <2>2 DEF FlagNotRaced
<1> QED
  BY <1>1, Invariance, PTL

(* What NeverHangs needs beside fairness: main finds the mutex free, or    *)
(* held by an on_close that is about to unlock it; and on_close finds it   *)
(* held only by a main that is about to unlock it or to wait.              *)
THEOREM MutexComesBack ==
  Spec => []( /\ main \in {"lock", "relock"} /\ mutex # "free"
                   => mutex = "closer" /\ closer \in {"locked", "set", "signalled"}
              /\ closer = "entered" /\ mutex \in {"main", "closer"}
                   => mutex = "main" /\ main \in {"test", "wait", "unlock"} )
<1>1. ASSUME IInv, main \in {"lock", "relock"}, mutex # "free"
      PROVE  mutex = "closer" /\ closer \in {"locked", "set", "signalled"}
  <2>1. mutex \in {"main", "closer"}
    BY <1>1 DEF IInv, SigExists
  <2>2. mutex # "main"
    BY <1>1 DEF IInv, MutexHeld
  <2> QED
    BY <1>1, <2>1, <2>2 DEF IInv, MutexHeld
<1>2. ASSUME IInv, closer = "entered", mutex \in {"main", "closer"}
      PROVE  mutex = "main" /\ main \in {"test", "wait", "unlock"}
  BY <1>2 DEF IInv, MutexHeld
<1> QED
  BY <1>1, <1>2, Invariance, PTL

(* As long as on_close is not late, and the deadline covers what late means*)
(* and the steps of the clock, main does not destroy the completion state  *)
(* under on_close.                                                         *)
THEOREM SignalOutlivesClose == InTime => (Spec => []SignalAliveInTime)
<1>1. ASSUME IInv, InTime, ~late, Closing PROVE SignalAlive
  <2>1. Sent /\ closer # "returned"
    BY <1>1 DEF IInv, CloserOrder, Closing, Sent
  <2>2. ~StoppedWaiting
    BY <1>1, <2>1 DEF IInv, WaitsForClose
  <2>3. main \in {"clock", "lock", "test", "wait", "waiting", "relock"}
    BY <1>1, <2>1, <2>2 DEF IInv, TypeOK, SigExists, StoppedWaiting, Sent
  <2> QED
    BY <1>1, <2>3 DEF IInv, SigExists, SignalAlive
<1>2. InTime /\ IInv => SignalAliveInTime
  BY <1>1 DEF SignalAlive, SignalAliveInTime
<1> QED
  <2>1. CASE ~InTime
    BY <2>1
  <2>2. CASE InTime
    <3>1. IInv => SignalAliveInTime
      BY <1>2, <2>2
    <3>2. Spec => []SignalAliveInTime
      BY <3>1, Invariance, PTL
    <3> QED
      BY <3>2
  <2> QED
    BY <2>1, <2>2

(* Nor does it then stop waiting before the query is over and its last     *)
(* reply is printed.                                                       *)
THEOREM WaitsToTheEnd == InTime => (Spec => []CompletionSeen)
<1>1. ASSUME IInv, InTime, ~late, Sent, StoppedWaiting PROVE done /\ calls = 0
  <2>1. closer = "returned"
    BY <1>1 DEF IInv, WaitsForClose
  <2> QED
    BY <1>1, <2>1 DEF IInv, CloserOrder
<1>2. InTime /\ IInv => CompletionSeen
  BY <1>1 DEF CompletionSeen
<1> QED
  <2>1. CASE ~InTime
    BY <2>1
  <2>2. CASE InTime
    <3>1. IInv => CompletionSeen
      BY <1>2, <2>2
    <3>2. Spec => []CompletionSeen
      BY <3>1, Invariance, PTL
    <3> QED
      BY <3>2
  <2> QED
    BY <2>1, <2>2

===============================================================================
