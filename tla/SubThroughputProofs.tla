-------------------------- MODULE SubThroughputProofs --------------------------
(***************************************************************************)
(* What holds of on_sample for any threads, -n, -s and number of samples:  *)
(* what it counts and prints while calls do not overlap, and what is left  *)
(* of it when they do.                                                     *)
(***************************************************************************)
EXTENDS SubThroughput, FiniteSetTheorems, TLAPS

(* The messages of f rounds of r, and the sample that closes each.         *)
Rounds(f, r) == f * (r + 1)

(* Until calls overlap, one thread at most is in on_sample.                *)
Alone ==
  ~overlapped => \A t, u \in Threads : pc[t] # "idle" /\ pc[u] # "idle" => t = u

(* Between calls every sample is counted or belongs to a finished round,   *)
(* and start was taken when the first that is counted arrived.             *)
Between ==
  /\ received = Rounds(finished_rounds, RoundLength) + count
  /\ count > 0 => start = received - count + 1
  /\ printed = finished_rounds /\ finished_rounds <= max_rounds + 1
  /\ running <=> finished_rounds <= max_rounds

(* What the counters are while the only call is that of t: it handles the  *)
(* last sample, which is counted, or closes a round, at its end.           *)
Within(t) ==
  /\ running /\ sample[t] = received
  /\ pc[t] \in {"first", "later", "count", "counted", "finish", "finished"} =>
       /\ received = Rounds(finished_rounds, RoundLength) + count + 1
       /\ printed = finished_rounds /\ finished_rounds <= max_rounds
       /\ pc[t] # "first" => start = received - count
  /\ pc[t] = "first" => count = 0
  /\ pc[t] = "later" => count > 0
  /\ pc[t] \in {"count", "counted"} => count < RoundLength
  /\ pc[t] = "counted" => tmp[t] = count
  /\ pc[t] \in {"finish", "finished", "print"} => count = RoundLength
  /\ pc[t] = "finished" => tmp[t] = finished_rounds
  /\ pc[t] \in {"print", "reset", "check"} =>
       /\ received = Rounds(finished_rounds, RoundLength)
       /\ finished_rounds <= max_rounds + 1
  /\ pc[t] = "print" =>
       printed + 1 = finished_rounds /\ start = received - RoundLength
  /\ pc[t] \in {"reset", "check"} => printed = finished_rounds
  /\ pc[t] = "check" => count = 0

OneAtATime ==
  /\ Quiet => Between
  /\ ~overlapped => \A t \in Threads : pc[t] # "idle" => Within(t)

(* A rate is printed over the samples counted in a round, -n or not.       *)
OfARound == ~overlapped => measured \subseteq {RoundLength}

(* Calls that overlap included: no counter value is above the rates that   *)
(* are printed or about to be, neither the one that finished_rounds has    *)
(* nor one that a thread has read and will store, one greater.             *)
Printing == {t \in Threads : pc[t] = "print"}

ReadNoMoreThanPrinted ==
  \A t \in Threads : pc[t] = "finished" => tmp[t] <= printed + Cardinality(Printing)

IInv ==
  /\ TypeOK /\ Alone /\ OneAtATime /\ OfARound
  /\ CountsNoMoreThanPrinted /\ ReadNoMoreThanPrinted

-------------------------------------------------------------------------------
LEMMA RoundsAreNumbers == \A f, r \in Nat : Rounds(f, r) \in Nat
  BY DEF Rounds

(* A round more is the messages of a round more, and a closing sample.     *)
LEMMA RoundsGrow ==
  \A r \in Nat : /\ Rounds(0, r) = 0
                 /\ \A f \in Nat : Rounds(f + 1, r) = Rounds(f, r) + r + 1
<1> SUFFICES ASSUME NEW r \in Nat
    PROVE  Rounds(0, r) = 0 /\ \A f \in Nat : Rounds(f + 1, r) = Rounds(f, r) + r + 1
  OBVIOUS
<1>1. Rounds(0, r) = 0
  BY DEF Rounds
<1>2. ASSUME NEW f \in Nat PROVE Rounds(f + 1, r) = Rounds(f, r) + r + 1
  <2>1. \A k \in Nat : (f + 1) * k = f * k + k
    OBVIOUS
  <2> QED
    BY <2>1, r + 1 \in Nat DEF Rounds
<1> QED
  BY <1>1, <1>2

LEMMA RoundLengthType == TypeOK => RoundLength \in Nat /\ RoundLength > 0
  BY ThroughputAssumption DEF TypeOK, RoundLength

(* A step within on_sample keeps calls apart; what is left to show of it   *)
(* is what the counters are in the place that its thread has reached.      *)
LEMMA OneMoves ==
  ASSUME TypeOK, Alone, NEW t \in Threads, NEW from, NEW to, from # "idle",
         Step(t, from, to), overlapped' = overlapped,
         ~overlapped => IF to = "idle" THEN Between' ELSE Within(t)'
  PROVE  Alone' /\ OneAtATime'
<1>1. pc[t] = from /\ pc'[t] = to /\ \A u \in Threads : u # t => pc'[u] = pc[u]
  BY DEF Step, TypeOK
<1>2. ~overlapped => \A u \in Threads : u # t => pc'[u] = "idle"
  BY <1>1 DEF Alone
<1>3. Alone'
  BY <1>2 DEF Alone
<1>4. (Quiet => Between)'
  BY <1>1 DEF Quiet
<1>5. (~overlapped => \A u \in Threads : pc[u] # "idle" => Within(u))'
  BY <1>1, <1>2
<1> QED
  BY <1>3, <1>4, <1>5 DEF OneAtATime

(* Where a step of t leaves the number of threads about to print.          *)
LEMMA PrintingMoves ==
  ASSUME TypeOK, NEW t \in Threads, NEW from, NEW to, Step(t, from, to)
  PROVE  /\ Cardinality(Printing) \in Nat /\ Cardinality(Printing') \in Nat
         /\ from # "print" /\ to # "print" => Printing' = Printing
         /\ from # "print" /\ to = "print" =>
              Cardinality(Printing') = Cardinality(Printing) + 1
         /\ from = "print" /\ to # "print" =>
              Cardinality(Printing') = Cardinality(Printing) - 1
<1>1. IsFiniteSet(Printing) /\ IsFiniteSet(Printing')
  BY ThroughputAssumption, FS_Subset, Printing \subseteq Threads,
     Printing' \subseteq Threads DEF Printing
<1>2. pc[t] = from /\ pc'[t] = to /\ \A u \in Threads : u # t => pc'[u] = pc[u]
  BY DEF Step, TypeOK
<1>3. Cardinality(Printing) \in Nat /\ Cardinality(Printing') \in Nat
  BY <1>1, FS_CardinalityType
<1>4. ASSUME from # "print", to # "print" PROVE Printing' = Printing
  BY <1>2, <1>4 DEF Printing
<1>5. ASSUME from # "print", to = "print"
      PROVE  Cardinality(Printing') = Cardinality(Printing) + 1
  <2>1. Printing' = Printing \cup {t} /\ t \notin Printing
    BY <1>2, <1>5 DEF Printing
  <2> QED
    BY <1>1, <2>1, FS_AddElement
<1>6. ASSUME from = "print", to # "print"
      PROVE  Cardinality(Printing') = Cardinality(Printing) - 1
  <2>1. Printing' = Printing \ {t} /\ t \in Printing
    BY <1>2, <1>6 DEF Printing
  <2> QED
    BY <1>1, <2>1, FS_RemoveElement
<1> QED
  BY <1>3, <1>4, <1>5, <1>6

-------------------------------------------------------------------------------
LEMMA InitInvariant == Init => IInv
<1> SUFFICES ASSUME Init PROVE IInv
  OBVIOUS
<1>1. TypeOK
  <2>1. messages_per_round \in Nat /\ 0 <= RoundLength
    BY ThroughputAssumption DEF Init, RoundLength
  <2>2. 0 \in 0..received /\ received \in 0..MaxReceived
    BY ThroughputAssumption DEF Init
  <2>3. /\ tmp \in [Threads -> Nat] /\ sample \in [Threads -> 0..received]
        /\ pc \in [Threads -> {"idle", "first", "later", "count", "counted",
                               "finish", "finished", "print", "reset", "check"}]
    BY <2>2 DEF Init
  <2> QED
    BY <2>1, <2>2, <2>3 DEF Init, TypeOK
<1>2. Alone
  BY DEF Init, Alone
<1>3. RoundLength \in Nat
  BY <1>1, RoundLengthType
<1>4. OneAtATime
  <2>1. Rounds(finished_rounds, RoundLength) = 0
    BY <1>3, RoundsGrow DEF Init
  <2>2. Between
    BY <1>1, <2>1, ThroughputAssumption DEF Init, Between, TypeOK
  <2> QED
    BY <2>2 DEF Init, OneAtATime
<1>5. OfARound
  BY DEF Init, OfARound
<1>6. Cardinality(Printing) = 0
  <2>1. Printing = {}
    BY DEF Init, Printing
  <2> QED
    BY <2>1, FS_EmptySet
<1>7. CountsNoMoreThanPrinted /\ ReadNoMoreThanPrinted
  BY <1>6 DEF Init, CountsNoMoreThanPrinted, ReadNoMoreThanPrinted, Printing
<1> QED
  BY <1>1, <1>2, <1>4, <1>5, <1>7 DEF IInv

LEMMA TypeStep == IInv /\ [Next]_vars => TypeOK'
<1> SUFFICES ASSUME IInv, [Next]_vars PROVE TypeOK'
  OBVIOUS
<1> USE DEF TypeOK, args, local, output, program, Step
<1>t. TypeOK /\ messages_per_round \in Nat
  BY ThroughputAssumption DEF IInv
<1>r. RoundLength \in Nat /\ RoundLength > 0
  BY <1>t, RoundLengthType
<1>a. (UNCHANGED args) => RoundLength' = RoundLength
  BY DEF RoundLength
<1>1. CASE Declare
  BY <1>1, <1>t, <1>a DEF Declare
<1>2. ASSUME NEW t \in Threads, Enter(t) PROVE TypeOK'
  <2>1. received' \in 0..MaxReceived /\ start' \in 0..received'
    BY <1>2, <1>t, ThroughputAssumption DEF Enter
  <2>2. sample' \in [Threads -> 0..received']
    BY <1>2, <1>t, ThroughputAssumption DEF Enter
  <2>3. pc' \in [Threads -> {"idle", "first", "later", "count", "counted",
                             "finish", "finished", "print", "reset", "check"}]
    BY <1>2, <1>t DEF Enter
  <2>4. overlapped' \in BOOLEAN /\ (~overlapped' => ~overlapped)
    BY <1>2, <1>t DEF Enter
  <2> QED
    BY <1>2, <1>t, <1>a, <2>1, <2>2, <2>3, <2>4 DEF Enter
<1>3. ASSUME NEW t \in Threads, First(t) PROVE TypeOK'
  BY <1>3, <1>t, <1>a DEF First
<1>4. ASSUME NEW t \in Threads, Later(t) PROVE TypeOK'
  BY <1>4, <1>t, <1>a DEF Later
<1>5. ASSUME NEW t \in Threads, CountRead(t) PROVE TypeOK'
  BY <1>5, <1>t, <1>a DEF CountRead
<1>6. ASSUME NEW t \in Threads, CountWrite(t) PROVE TypeOK'
  <2>1. ~overlapped => tmp[t] + 1 <= RoundLength
    BY <1>6, <1>t, <1>r DEF CountWrite, IInv, OneAtATime, Within
  <2> QED
    BY <1>6, <1>t, <1>a, <2>1 DEF CountWrite
<1>7. ASSUME NEW t \in Threads, FinishRead(t) PROVE TypeOK'
  BY <1>7, <1>t, <1>a DEF FinishRead
<1>8. ASSUME NEW t \in Threads, FinishWrite(t) PROVE TypeOK'
  BY <1>8, <1>t, <1>a DEF FinishWrite
<1>9. ASSUME NEW t \in Threads, PrintRate(t) PROVE TypeOK'
  <2>1. sample[t] - start \in -MaxReceived..MaxReceived
    BY <1>t, ThroughputAssumption
  <2>2. measured' \subseteq -MaxReceived..MaxReceived
    BY <1>9, <1>t, <2>1 DEF PrintRate
  <2>3. printed' \in Nat
    BY <1>9, <1>t DEF PrintRate
  <2>4. pc' \in [Threads -> {"idle", "first", "later", "count", "counted",
                             "finish", "finished", "print", "reset", "check"}]
    BY <1>9, <1>t DEF PrintRate
  <2> QED
    BY <1>9, <1>t, <1>a, <2>2, <2>3, <2>4 DEF PrintRate
<1>10. ASSUME NEW t \in Threads, Reset(t) PROVE TypeOK'
  BY <1>10, <1>t, <1>a, <1>r DEF Reset
<1>11. ASSUME NEW t \in Threads, Check(t) PROVE TypeOK'
  BY <1>11, <1>t, <1>a DEF Check
<1>12. CASE UNCHANGED vars
  BY <1>12, <1>t, <1>a DEF vars
<1> QED
  BY <1>1, <1>2, <1>3, <1>4, <1>5, <1>6, <1>7, <1>8, <1>9, <1>10, <1>11, <1>12
  DEF Next, OnSample

(* Calls that do not overlap, one place in on_sample after the other.      *)
LEMMA OrderStep ==
  IInv /\ [Next]_vars => Alone' /\ OneAtATime' /\ OfARound'
<1> SUFFICES ASSUME IInv, [Next]_vars
    PROVE  Alone' /\ OneAtATime' /\ OfARound'
  OBVIOUS
<1> USE DEF args, local, output, program
<1>t. /\ TypeOK /\ Alone /\ OneAtATime /\ OfARound
      /\ messages_per_round \in Nat /\ max_rounds \in Nat
  BY ThroughputAssumption DEF IInv, TypeOK
<1>r. RoundLength \in Nat /\ RoundLength > 0
  BY <1>t, RoundLengthType
<1>f. /\ finished_rounds \in Nat /\ count \in Nat /\ printed \in Nat
      /\ received \in Nat /\ start \in Nat /\ max_rounds \in Nat
      /\ Rounds(finished_rounds, RoundLength) \in Nat
      /\ Rounds(finished_rounds + 1, RoundLength)
         = Rounds(finished_rounds, RoundLength) + RoundLength + 1
  <2>1. /\ finished_rounds \in Nat /\ count \in Nat /\ printed \in Nat
        /\ received \in Nat /\ start \in Nat /\ max_rounds \in Nat
    BY <1>t, ThroughputAssumption DEF TypeOK
  <2> QED
    BY <1>r, <2>1, RoundsAreNumbers, RoundsGrow
<1>a. (UNCHANGED args) => RoundLength' = RoundLength
  BY DEF RoundLength
<1>w. \A t \in Threads : ~overlapped /\ pc[t] # "idle" => Within(t)
  BY <1>t DEF OneAtATime
<1>g. ASSUME NEW t \in Threads, NEW to, pc' = [pc EXCEPT ![t] = to]
      PROVE  pc'[t] = to
  BY <1>g, <1>t DEF TypeOK
<1>m. UNCHANGED <<args, measured>> /\ (~overlapped' => ~overlapped) => OfARound'
  BY <1>t, <1>a DEF OfARound
<1>1. CASE Declare
  <2>1. OfARound'
    BY <1>1, <1>m DEF Declare
  <2>2. Alone' /\ (Quiet' => Quiet) /\ (overlapped' <=> overlapped)
    BY <1>1, <1>t DEF Declare, Alone, Quiet
  <2>3. Between => Between'
    BY <1>1, <1>a DEF Declare, Between
  <2>4. \A t \in Threads : Within(t) => Within(t)'
    BY <1>1, <1>a DEF Declare, Within
  <2>5. pc' = pc
    BY <1>1 DEF Declare
  <2> QED
    BY <1>t, <2>1, <2>2, <2>3, <2>4, <2>5 DEF OneAtATime
<1>2. ASSUME NEW t \in Threads, Enter(t) PROVE Alone' /\ OneAtATime' /\ OfARound'
  <2>1. OfARound'
    BY <1>2, <1>m DEF Enter
  <2>2. pc[t] = "idle" /\ pc'[t] = IF count = 0 THEN "first" ELSE "later"
    BY <1>2, <1>g DEF Enter, Step
  <2>3. ~overlapped' => Quiet /\ \A u \in Threads : u # t => pc'[u] = "idle"
    BY <1>2, <1>t, <2>2 DEF Enter, Step, Quiet, TypeOK
  <2>4. ~Quiet'
    BY <2>2 DEF Quiet
  <2>5. Alone'
    BY <2>3 DEF Alone
  <2>6. ASSUME ~overlapped' PROVE Within(t)'
    <3>1. Between
      BY <1>t, <2>3, <2>6 DEF OneAtATime
    <3>2. running' /\ sample'[t] = received' /\ received' = received + 1
      BY <1>2, <1>t DEF Enter, Step, TypeOK
    <3> QED
      BY <1>2, <1>a, <1>f, <2>2, <3>1, <3>2 DEF Enter, Step, Within, Between
  <2> QED
    BY <2>1, <2>3, <2>4, <2>5, <2>6 DEF OneAtATime
<1>3. ASSUME NEW t \in Threads, First(t) PROVE Alone' /\ OneAtATime' /\ OfARound'
  <2>1. ~overlapped => Within(t)'
    BY <1>3, <1>a, <1>f, <1>g, <1>r, <1>w DEF First, Step, Within
  <2> QED
    BY <1>3, <1>m, <1>t, <2>1, OneMoves DEF First
<1>4. ASSUME NEW t \in Threads, Later(t) PROVE Alone' /\ OneAtATime' /\ OfARound'
  <2> DEFINE to == IF count < messages_per_round THEN "count" ELSE "finish"
  <2>1. pc[t] = "later" /\ pc'[t] = to /\ Step(t, "later", to)
    BY <1>4, <1>g DEF Later, Step
  <2>2. ~overlapped => count <= RoundLength
    BY <1>t DEF TypeOK
  <2>3. ~overlapped => Within(t)'
    BY <1>4, <1>a, <1>f, <1>r, <1>t, <1>w, <2>1, <2>2 DEF Later, Within, RoundLength
  <2>4. to # "idle"
    OBVIOUS
  <2> HIDE DEF to
  <2> QED
    BY <1>4, <1>m, <1>t, <2>1, <2>3, <2>4, OneMoves DEF Later
<1>5. ASSUME NEW t \in Threads, CountRead(t) PROVE Alone' /\ OneAtATime' /\ OfARound'
  <2>1. tmp'[t] = count
    BY <1>5, <1>t DEF CountRead, TypeOK
  <2>2. ~overlapped => Within(t)'
    BY <1>5, <1>a, <1>f, <1>g, <1>r, <1>w, <2>1 DEF CountRead, Step, Within
  <2> QED
    BY <1>5, <1>m, <1>t, <2>2, OneMoves DEF CountRead
<1>6. ASSUME NEW t \in Threads, CountWrite(t) PROVE Alone' /\ OneAtATime' /\ OfARound'
  <2>1. ~overlapped => Between'
    BY <1>6, <1>a, <1>f, <1>g, <1>r, <1>w DEF CountWrite, Step, Within, Between
  <2> QED
    BY <1>6, <1>m, <1>t, <2>1, OneMoves DEF CountWrite
<1>7. ASSUME NEW t \in Threads, FinishRead(t) PROVE Alone' /\ OneAtATime' /\ OfARound'
  <2>1. tmp'[t] = finished_rounds
    BY <1>7, <1>t DEF FinishRead, TypeOK
  <2>2. ~overlapped => Within(t)'
    BY <1>7, <1>a, <1>f, <1>g, <1>r, <1>w, <2>1 DEF FinishRead, Step, Within
  <2> QED
    BY <1>7, <1>m, <1>t, <2>2, OneMoves DEF FinishRead
<1>8. ASSUME NEW t \in Threads, FinishWrite(t) PROVE Alone' /\ OneAtATime' /\ OfARound'
  <2>1. ~overlapped =>
          /\ running /\ sample[t] = received
          /\ received = Rounds(finished_rounds, RoundLength) + RoundLength + 1
          /\ printed = finished_rounds /\ finished_rounds <= max_rounds
          /\ start = received - RoundLength
          /\ count = RoundLength /\ tmp[t] = finished_rounds
    BY <1>8, <1>f, <1>r, <1>w DEF FinishWrite, Step, Within
  <2>2. /\ UNCHANGED <<args, count, start, received, printed, running, sample>>
        /\ finished_rounds' = tmp[t] + 1 /\ pc'[t] = "print"
    BY <1>8, <1>g DEF FinishWrite, Step
  <2>3. ~overlapped =>
          /\ received' = Rounds(finished_rounds', RoundLength')
          /\ printed' + 1 = finished_rounds' /\ finished_rounds' <= max_rounds' + 1
    BY <1>a, <1>f, <2>1, <2>2
  <2>4. ~overlapped => Within(t)'
    BY <1>a, <1>f, <1>r, <2>1, <2>2, <2>3 DEF Within
  <2> QED
    BY <1>8, <1>m, <1>t, <2>4, OneMoves DEF FinishWrite
<1>9. ASSUME NEW t \in Threads, PrintRate(t) PROVE Alone' /\ OneAtATime' /\ OfARound'
  <2>1. ~overlapped => sample[t] - start = RoundLength
    BY <1>9, <1>f, <1>r, <1>w DEF PrintRate, Step, Within
  <2>2. OfARound'
    BY <1>9, <1>a, <1>t, <2>1 DEF PrintRate, OfARound
  <2>3. ~overlapped => Within(t)'
    BY <1>9, <1>a, <1>f, <1>g, <1>r, <1>w DEF PrintRate, Step, Within
  <2> QED
    BY <1>9, <1>t, <2>2, <2>3, OneMoves DEF PrintRate
<1>10. ASSUME NEW t \in Threads, Reset(t) PROVE Alone' /\ OneAtATime' /\ OfARound'
  <2>1. ~overlapped => Within(t)'
    BY <1>10, <1>a, <1>f, <1>g, <1>r, <1>w DEF Reset, Step, Within
  <2> QED
    BY <1>10, <1>m, <1>t, <2>1, OneMoves DEF Reset
<1>11. ASSUME NEW t \in Threads, Check(t) PROVE Alone' /\ OneAtATime' /\ OfARound'
  <2>0. running' <=> finished_rounds <= max_rounds
    BY <1>11, Zenon DEF Check
  <2>1. ~overlapped => Between'
    <3>1. /\ UNCHANGED <<args, count, finished_rounds, start, received, printed>>
          /\ pc[t] = "check"
      BY <1>11 DEF Check, Step
    <3>2. ~overlapped => /\ count = 0 /\ printed = finished_rounds
                         /\ finished_rounds <= max_rounds + 1
                         /\ received = Rounds(finished_rounds, RoundLength)
      BY <1>w, <3>1 DEF Within
    <3> QED
      BY <1>a, <1>f, <2>0, <3>1, <3>2 DEF Between
  <2> QED
    BY <1>11, <1>m, <1>t, <2>1, OneMoves DEF Check
<1>12. CASE UNCHANGED vars
  <2>1. OfARound'
    BY <1>12, <1>m DEF vars
  <2>2. Alone' /\ (Quiet' => Quiet) /\ (overlapped' <=> overlapped) /\ pc' = pc
    BY <1>12, <1>t DEF vars, Alone, Quiet
  <2>3. Between => Between'
    BY <1>12, <1>a DEF vars, Between
  <2>4. \A t \in Threads : Within(t) => Within(t)'
    BY <1>12, <1>a DEF vars, Within
  <2> QED
    BY <1>t, <2>1, <2>2, <2>3, <2>4 DEF OneAtATime
<1> QED
  BY <1>1, <1>2, <1>3, <1>4, <1>5, <1>6, <1>7, <1>8, <1>9, <1>10, <1>11, <1>12
  DEF Next, OnSample

(* Calls in any order: a step that changes neither printed nor             *)
(* finished_rounds, and reads or stores nothing of it, changes nothing.    *)
LEMMA CountsStep ==
  IInv /\ [Next]_vars => CountsNoMoreThanPrinted' /\ ReadNoMoreThanPrinted'
<1> SUFFICES ASSUME IInv, [Next]_vars
    PROVE  CountsNoMoreThanPrinted' /\ ReadNoMoreThanPrinted'
  OBVIOUS
<1> USE DEF args, local, output, program
<1> DEFINE N == Cardinality(Printing)
<1>t. /\ TypeOK /\ finished_rounds \in Nat /\ printed \in Nat
      /\ \A u \in Threads : tmp[u] \in Nat
  BY DEF IInv, TypeOK
<1>c. /\ finished_rounds <= printed + N
      /\ ~running => finished_rounds > max_rounds
      /\ \A u \in Threads : pc[u] = "finished" => tmp[u] <= printed + N
  BY DEF IInv, CountsNoMoreThanPrinted, ReadNoMoreThanPrinted, Printing
<1>d. ASSUME /\ finished_rounds' <= printed' + N'
             /\ ~running' => finished_rounds' > max_rounds'
             /\ \A u \in Threads : pc'[u] = "finished" => tmp'[u] <= printed' + N'
      PROVE  CountsNoMoreThanPrinted' /\ ReadNoMoreThanPrinted'
  BY <1>d DEF CountsNoMoreThanPrinted, ReadNoMoreThanPrinted, Printing
<1>p. ASSUME NEW t \in Threads, NEW from, NEW to, Step(t, from, to)
      PROVE  /\ running /\ pc[t] = from /\ pc'[t] = to
             /\ \A u \in Threads : u # t => pc'[u] = pc[u]
             /\ N \in Nat /\ N' \in Nat
             /\ from # "print" /\ to # "print" => N' = N
             /\ from # "print" /\ to = "print" => N' = N + 1
             /\ from = "print" /\ to # "print" => N' = N - 1
  <2>1. /\ running /\ pc[t] = from /\ pc'[t] = to
        /\ \A u \in Threads : u # t => pc'[u] = pc[u]
    BY <1>p, <1>t DEF Step, TypeOK
  <2>2. N \in Nat /\ N' \in Nat
    BY <1>p, <1>t, PrintingMoves
  <2>3. from # "print" /\ to # "print" => N' = N
    BY <1>p, <1>t, PrintingMoves
  <2>4. from # "print" /\ to = "print" => N' = N + 1
    BY <1>p, <1>t, PrintingMoves
  <2>5. from = "print" /\ to # "print" => N' = N - 1
    BY <1>p, <1>t, PrintingMoves
  <2> QED
    BY <2>1, <2>2, <2>3, <2>4, <2>5
<1> HIDE DEF N
<1>e. ASSUME NEW t \in Threads, NEW from, NEW to, Step(t, from, to),
             from # "print", to \notin {"print", "finished"},
             UNCHANGED <<args, finished_rounds, printed>>,
             \A u \in Threads : u # t => tmp'[u] = tmp[u],
             running' = running
      PROVE  CountsNoMoreThanPrinted' /\ ReadNoMoreThanPrinted'
  <2>1. N' = N /\ \A u \in Threads : pc'[u] = "finished" => u # t /\ pc[u] = "finished"
    BY <1>e, <1>p
  <2> QED
    BY <1>c, <1>d, <1>e, <2>1
<1>u. (UNCHANGED pc) => N' = N
  BY DEF N, Printing
<1>1. CASE Declare
  BY <1>1, <1>c, <1>d, <1>u DEF Declare
<1>2. ASSUME NEW t \in Threads, Enter(t)
      PROVE  CountsNoMoreThanPrinted' /\ ReadNoMoreThanPrinted'
  <2> DEFINE to == IF count = 0 THEN "first" ELSE "later"
  <2>1. Step(t, "idle", to) /\ to \notin {"print", "finished"}
    BY <1>2 DEF Enter
  <2> HIDE DEF to
  <2> QED
    BY <1>2, <1>e, <2>1 DEF Enter
<1>3. ASSUME NEW t \in Threads, First(t)
      PROVE  CountsNoMoreThanPrinted' /\ ReadNoMoreThanPrinted'
  BY <1>3, <1>e DEF First
<1>4. ASSUME NEW t \in Threads, Later(t)
      PROVE  CountsNoMoreThanPrinted' /\ ReadNoMoreThanPrinted'
  <2> DEFINE to == IF count < messages_per_round THEN "count" ELSE "finish"
  <2>1. Step(t, "later", to) /\ to \notin {"print", "finished"}
    BY <1>4 DEF Later
  <2> HIDE DEF to
  <2> QED
    BY <1>4, <1>e, <2>1 DEF Later
<1>5. ASSUME NEW t \in Threads, CountRead(t)
      PROVE  CountsNoMoreThanPrinted' /\ ReadNoMoreThanPrinted'
  <2>1. \A u \in Threads : u # t => tmp'[u] = tmp[u]
    BY <1>5, <1>t DEF CountRead, TypeOK
  <2> QED
    BY <1>5, <1>e, <2>1 DEF CountRead
<1>6. ASSUME NEW t \in Threads, CountWrite(t)
      PROVE  CountsNoMoreThanPrinted' /\ ReadNoMoreThanPrinted'
  BY <1>6, <1>e DEF CountWrite
<1>7. ASSUME NEW t \in Threads, FinishRead(t)
      PROVE  CountsNoMoreThanPrinted' /\ ReadNoMoreThanPrinted'
  <2>1. /\ tmp'[t] = finished_rounds
        /\ \A u \in Threads : u # t => tmp'[u] = tmp[u]
    BY <1>7, <1>t DEF FinishRead, TypeOK
  <2>2. N' = N /\ \A u \in Threads : u # t => pc'[u] = pc[u]
    BY <1>7, <1>p DEF FinishRead
  <2> QED
    BY <1>7, <1>c, <1>d, <2>1, <2>2 DEF FinishRead
<1>8. ASSUME NEW t \in Threads, FinishWrite(t)
      PROVE  CountsNoMoreThanPrinted' /\ ReadNoMoreThanPrinted'
  <2>1. /\ running /\ pc[t] = "finished" /\ pc'[t] = "print"
        /\ \A u \in Threads : u # t => pc'[u] = pc[u]
        /\ N \in Nat /\ N' = N + 1
    BY <1>8, <1>p DEF FinishWrite
  <2>2. tmp[t] + 1 <= printed + N'
    BY <1>c, <1>t, <2>1
  <2>3. \A u \in Threads : pc'[u] = "finished" => tmp[u] <= printed + N'
    BY <1>c, <1>t, <2>1
  <2> QED
    BY <1>8, <1>d, <2>1, <2>2, <2>3 DEF FinishWrite
<1>9. ASSUME NEW t \in Threads, PrintRate(t)
      PROVE  CountsNoMoreThanPrinted' /\ ReadNoMoreThanPrinted'
  <2>1. /\ pc'[t] = "reset" /\ \A u \in Threads : u # t => pc'[u] = pc[u]
        /\ N \in Nat /\ N' = N - 1
    BY <1>9, <1>p DEF PrintRate
  <2>2. printed' + N' = printed + N
    BY <1>9, <1>t, <2>1 DEF PrintRate
  <2> QED
    BY <1>9, <1>c, <1>d, <2>1, <2>2 DEF PrintRate
<1>10. ASSUME NEW t \in Threads, Reset(t)
       PROVE  CountsNoMoreThanPrinted' /\ ReadNoMoreThanPrinted'
  BY <1>10, <1>e DEF Reset
<1>11. ASSUME NEW t \in Threads, Check(t)
       PROVE  CountsNoMoreThanPrinted' /\ ReadNoMoreThanPrinted'
  <2>1. running' <=> finished_rounds <= max_rounds
    BY <1>11, Zenon DEF Check
  <2>2. ~running' => finished_rounds > max_rounds
    BY <1>t, <2>1, ThroughputAssumption DEF TypeOK
  <2>3. N' = N /\ \A u \in Threads : pc'[u] = "finished" => pc[u] = "finished"
    BY <1>11, <1>p DEF Check
  <2> QED
    BY <1>11, <1>c, <1>d, <2>2, <2>3 DEF Check
<1>12. CASE UNCHANGED vars
  BY <1>12, <1>c, <1>d, <1>u DEF vars
<1> QED
  BY <1>1, <1>2, <1>3, <1>4, <1>5, <1>6, <1>7, <1>8, <1>9, <1>10, <1>11, <1>12
  DEF Next, OnSample

-------------------------------------------------------------------------------
(* The counters' relation to what has arrived and been printed is kept by  *)
(* every step of on_sample.                                                *)
THEOREM Invariance == Spec => []IInv
<1>1. IInv /\ [Next]_vars => IInv'
  BY TypeStep, OrderStep, CountsStep DEF IInv
<1> QED
  BY InitInvariant, <1>1, PTL DEF Spec

(* The variables keep their types; until calls overlap count is at most    *)
(* the length of a round.                                                  *)
THEOREM TypeCorrect == Spec => []TypeOK
<1>1. IInv => TypeOK
  BY DEF IInv
<1> QED
  BY Invariance, <1>1, PTL

(* Until calls of on_sample overlap, whatever threads they are on, every   *)
(* rate that z_sub_thr prints is of as many messages as it divides, for    *)
(* any -n of at least one.                                                 *)
THEOREM RatesAreOfARound == Spec => []MeasuresRound
<1>1. IInv => MeasuresRound
  BY DEF IInv, OfARound, MeasuresRound, RoundLength
<1> QED
  BY Invariance, <1>1, PTL

(* With -n 0 the help text of -n is wrong in every measurement: each is of *)
(* one message, and is printed as none.                                    *)
THEOREM NoneMeansOne ==
  Spec => [](~overlapped /\ messages_per_round = 0 => measured \subseteq {1})
<1>1. IInv => (~overlapped /\ messages_per_round = 0 => measured \subseteq {1})
  BY DEF IInv, OfARound, RoundLength
<1> QED
  BY Invariance, <1>1, PTL

(* Until calls overlap, between two of them all samples are accounted for  *)
(* by finished_rounds and count.                                           *)
THEOREM NoSampleMissing == Spec => []SamplesAccounted
<1>1. IInv => SamplesAccounted
  BY DEF IInv, OneAtATime, Between, Rounds, SamplesAccounted
<1> QED
  BY Invariance, <1>1, PTL

(* Until calls overlap, between two of them the rates printed are one for  *)
(* each finished round, and on_sample exits with the round after the       *)
(* max_rounds-th and no earlier.                                           *)
THEOREM EachRoundPrinted == Spec => []PrintsEachRound
<1>1. IInv => PrintsEachRound
  BY DEF IInv, OneAtATime, Between, PrintsEachRound
<1> QED
  BY Invariance, <1>1, PTL

(* The help text of -s, "Number of throughput measurements", is wrong for  *)
(* every number: the rates printed when the program ends are one more.     *)
THEOREM OneRateMore ==
  Spec => [](~overlapped /\ ~running => printed = max_rounds + 1)
<1>1. IInv => (~overlapped /\ ~running => printed = max_rounds + 1)
  <2> SUFFICES ASSUME IInv, ~overlapped, ~running PROVE printed = max_rounds + 1
    OBVIOUS
  <2>1. Quiet
    BY DEF IInv, OneAtATime, Within, Quiet
  <2>2. max_rounds \in Nat /\ finished_rounds \in Nat
    BY ThroughputAssumption DEF IInv, TypeOK
  <2> QED
    BY <2>1, <2>2 DEF IInv, OneAtATime, Between
<1> QED
  BY Invariance, <1>1, PTL

(* However the calls overlap, increments of finished_rounds that get lost  *)
(* leave it below the number of rates printed: z_sub_thr never ends before *)
(* it has printed, or is about to print, the rates asked for.              *)
THEOREM NoneCountedUnprinted == Spec => []CountsNoMoreThanPrinted
<1>1. IInv => CountsNoMoreThanPrinted
  BY DEF IInv
<1> QED
  BY Invariance, <1>1, PTL

===============================================================================
