--------------------------- MODULE QueryReplyProofs ---------------------------
(***************************************************************************)
(* What holds of any number of queryables and of replies: a queryable     *)
(* finalizes once and last, and a get that was not cut short has received  *)
(* every reply and called reply_handler if there was one.                  *)
(***************************************************************************)
EXTENDS QueryReply, TLAPS

Messages == {"reply", "final"}

(* The sequences of messages, as far as they matter here.                  *)
LEMMA AppendFacts ==
  ASSUME NEW s \in Seq(Messages), NEW m \in Messages
  PROVE  /\ Append(s, m) \in Seq(Messages)
         /\ Len(Append(s, m)) = Len(s) + 1
         /\ Append(s, m)[Len(s) + 1] = m
         /\ \A i \in 1..Len(s) : Append(s, m)[i] = s[i]
OBVIOUS

LEMMA TailFacts ==
  ASSUME NEW s \in Seq(Messages), s # <<>>
  PROVE  /\ Len(s) \in Nat \ {0} /\ Head(s) = s[1]
         /\ Tail(s) \in Seq(Messages) /\ Len(Tail(s)) = Len(s) - 1
         /\ \A i \in 1..(Len(s) - 1) : Tail(s)[i] = s[i + 1]
OBVIOUS

LEMMA EmptyIsShort ==
  ASSUME NEW s \in Seq(Messages)
  PROVE  s = <<>> <=> Len(s) = 0
OBVIOUS

LEMMA PrefixFacts ==
  ASSUME NEW s \in Seq(Messages), NEW n \in 0..Len(s)
  PROVE  /\ SubSeq(s, 1, n) \in Seq(Messages) /\ Len(SubSeq(s, 1, n)) = n
         /\ \A i \in 1..n : SubSeq(s, 1, n)[i] = s[i]
OBVIOUS

-------------------------------------------------------------------------------
Finalized(q) == wire[q] # <<>> /\ wire[q][Len(wire[q])] = "final"

(* Replies that a queryable has sent and that have not arrived.            *)
Underway(q) == IF Finalized(q) THEN Len(wire[q]) - 1 ELSE Len(wire[q])

(* Where the query is, and how far the answer has come.                    *)
Stage(q) ==
  /\ pc[q] = "idle" <=> place[q] \in {"none", "sent"}
  /\ pc[q] = "done" <=> place[q] = "dropped"
  /\ pc[q] \in {"idle", "entered"} => replied[q] < MaxReplies
  /\ query = "none" => place[q] = "none"

(* While the query runs, what a queryable has sent has been arrived or is  *)
(* under way, but for what was lost with it, and then its end was lost too.*)
Counted(q) ==
  /\ arrived[q] <= replied[q]
  /\ query \in {"none", "running"} =>
       /\ arrived[q] + Underway(q) <= replied[q]
       /\ alive[q] \/ Finalized(q) => arrived[q] + Underway(q) = replied[q]

(* Nothing is under way from a queryable before it has begun; and who is   *)
(* not awaited any more was never asked, or is done to the last.           *)
Settled(q) ==
  /\ pc[q] = "idle" => wire[q] = <<>> /\ arrived[q] = replied[q]
  /\ query # "none" /\ q \notin awaited =>
       place[q] \in {"none", "dropped"} /\ wire[q] = <<>> /\ arrived[q] = replied[q]

Ended == query \in {"ended", "closed"} /\ ~cut => awaited = {}

(* What has arrived has been given, or another in its place, or is kept    *)
(* back to be given, unless the query was cut short.                       *)
Kept ==
  /\ (\E q \in Queryables : arrived[q] > 0) => held \/ given \/ cut
  /\ query = "closed" => ~held

Each == \A q \in Queryables : Stage(q) /\ Counted(q) /\ Settled(q)

IInv == TypeOK /\ FinalIsLast /\ Each /\ Ended /\ Kept

LEMMA InitInvariant == Init => IInv
<1> SUFFICES ASSUME Init PROVE IInv
  OBVIOUS
<1> USE QueryReplyAssumption DEF Init
<1>0. wire \in [Queryables -> Seq(Messages)]
  <2>1. <<>> \in Seq(Messages)
    OBVIOUS
  <2> QED
    BY <2>1
<1>1. TypeOK
  <2>1. awaited \subseteq {q \in Queryables : place[q] # "none"}
    OBVIOUS
  <2>2. replied \in [Queryables -> 0..MaxReplies] /\ arrived \in [Queryables -> 0..MaxReplies]
    OBVIOUS
  <2>3. wire \in [Queryables -> Seq({"reply", "final"})]
    BY <1>0, Zenon DEF Messages
  <2>4. {held, given, cut} \subseteq BOOLEAN /\ alive \in [Queryables -> BOOLEAN]
    OBVIOUS
  <2> QED
    BY <2>1, <2>2, <2>3, <2>4, Zenon DEF TypeOK
<1>2. FinalIsLast /\ Ended /\ Kept
  BY DEF FinalIsLast, Ended, Kept
<1>3. ASSUME NEW q \in Queryables PROVE Stage(q) /\ Counted(q) /\ Settled(q)
  <2>1. wire[q] = <<>> /\ Len(wire[q]) = 0
    OBVIOUS
  <2>2. Underway(q) = 0 /\ ~Finalized(q)
    BY <2>1 DEF Underway, Finalized
  <2>3. Stage(q) /\ Counted(q)
    BY <2>2 DEF Stage, Counted
  <2>4. Settled(q)
    BY DEF Settled
  <2> QED
    BY <2>3, <2>4
<1> QED
  BY <1>1, <1>2, <1>3 DEF IInv, Each

(* The steps of a queryable that send nothing.                             *)
LEMMA QuietStep ==
  ASSUME IInv, NEW q \in Queryables,
         Enter(q) \/ Take(q) \/ ReplyMore(q)
  PROVE  IInv'
<1>0. /\ UNCHANGED <<alive, wire, replied, arrived, getting>>
      /\ \A r \in Queryables \ {q} :
           pc'[r] = pc[r] /\ place'[r] = place[r]
  BY DEF Enter, Take, ReplyMore, Goto, IInv, TypeOK
<1>1. /\ place' \in [Queryables -> {"none", "sent", "arg", "kept", "dropped"}]
      /\ pc' \in [Queryables -> {"idle", "entered", "replied", "refused", "done"}]
      /\ pc'[q] # "idle" /\ place'[q] # "none" /\ place[q] # "none" /\ place'[q] # "dropped"
      /\ place[q] # "dropped" /\ query # "none"
      /\ Stage(q)'
  <2> USE QueryReplyAssumption DEF Goto, IInv, Each, Stage, getting, TypeOK
  <2>1. CASE Enter(q)
    BY <2>1 DEF Enter
  <2>2. CASE Take(q)
    BY <2>2 DEF Take
  <2>3. CASE ReplyMore(q)
    BY <2>3 DEF ReplyMore
  <2> QED
    BY <2>1, <2>2, <2>3
<1>2. TypeOK'
  BY <1>0, <1>1 DEF IInv, TypeOK, getting, consolidated
<1>3. FinalIsLast'
  BY <1>0, <1>1 DEF IInv, TypeOK, FinalIsLast
<1>4. ASSUME NEW r \in Queryables PROVE Stage(r)' /\ Counted(r)' /\ Settled(r)'
  <2>1. Stage(r)'
    BY <1>0, <1>1 DEF IInv, Each, Stage, getting
  <2>2. Counted(r)'
    BY <1>0 DEF IInv, Each, Counted, Underway, Finalized, getting
  <2>3. Settled(r)'
    BY <1>0, <1>1 DEF IInv, Each, Settled, getting
  <2> QED
    BY <2>1, <2>2, <2>3
<1>5. Ended' /\ Kept'
  BY <1>0 DEF IInv, Ended, Kept, getting, consolidated
<1> QED
  BY <1>2, <1>3, <1>4, <1>5 DEF IInv, Each

(* A reply, sent or refused: what is sent is under way, and not the last.  *)
LEMMA ReplyStep == ASSUME IInv, NEW q \in Queryables, Reply(q) PROVE IInv'
<1>0. /\ UNCHANGED <<place, alive, arrived, getting>>
      /\ pc[q] = "entered" /\ pc'[q] \in {"replied", "refused"}
      /\ place[q] \notin {"none", "sent", "dropped"} /\ query # "none"
      /\ \A r \in Queryables \ {q} :
           pc'[r] = pc[r] /\ wire'[r] = wire[r] /\ replied'[r] = replied[r]
  BY DEF Reply, Goto, Send, IInv, TypeOK, Each, Stage
<1>1. wire[q] \in Seq(Messages) /\ replied[q] \in Nat /\ arrived[q] \in Nat
      /\ replied[q] < MaxReplies
  BY <1>0, QueryReplyAssumption DEF IInv, TypeOK, Messages, Each, Stage
<1>2. ~Finalized(q)
  <2> SUFFICES ASSUME Finalized(q) PROVE FALSE
    OBVIOUS
  <2>1. Len(wire[q]) \in DOMAIN wire[q]
    BY <1>1, TailFacts DEF Finalized
  <2> QED
    BY <1>0, <2>1 DEF Finalized, IInv, FinalIsLast
<1>3. \/ wire'[q] = wire[q] /\ replied'[q] = replied[q]
      \/ wire'[q] = Append(wire[q], "reply") /\ replied'[q] = replied[q] + 1
  BY DEF Reply, Send, IInv, TypeOK
<1>4. /\ wire'[q] \in Seq(Messages) /\ replied'[q] \in 0..MaxReplies
      /\ \A i \in DOMAIN wire'[q] : wire'[q][i] # "final"
      /\ ~Finalized(q)'
      /\ Len(wire'[q]) - Len(wire[q]) = replied'[q] - replied[q]
      /\ replied'[q] >= replied[q]
  <2> DEFINE w == wire'[q]
  <2>0. \A i \in DOMAIN wire[q] : wire[q][i] # "final"
    BY <1>0 DEF IInv, FinalIsLast
  <2>1. CASE wire'[q] = wire[q] /\ replied'[q] = replied[q]
    BY <1>1, <1>2, <2>0, <2>1, QueryReplyAssumption DEF Finalized
  <2>2. CASE w = Append(wire[q], "reply") /\ replied'[q] = replied[q] + 1
    <3>1. /\ w \in Seq(Messages) /\ Len(w) = Len(wire[q]) + 1
          /\ w[Len(wire[q]) + 1] = "reply"
          /\ \A i \in 1..Len(wire[q]) : w[i] = wire[q][i]
      BY <1>1, <2>2, AppendFacts DEF Messages
    <3>2. \A i \in DOMAIN w : w[i] # "final"
      BY <1>1, <3>1, <2>0
    <3>3. ~Finalized(q)'
      BY <1>1, <3>1 DEF Finalized
    <3> QED
      BY <1>1, <2>2, <3>1, <3>2, <3>3, QueryReplyAssumption
  <2> QED
    BY <1>3, <2>1, <2>2
<1>5. TypeOK'
  <2>1. wire' \in [Queryables -> Seq({"reply", "final"})]
        /\ replied' \in [Queryables -> 0..MaxReplies]
        /\ pc' \in [Queryables -> {"idle", "entered", "replied", "refused", "done"}]
    BY <1>4 DEF Reply, Goto, Send, IInv, TypeOK, Messages
  <2> QED
    BY <1>0, <2>1 DEF IInv, TypeOK, getting, consolidated
<1>6. FinalIsLast'
  BY <1>0, <1>4 DEF IInv, FinalIsLast
<1>7. ASSUME NEW r \in Queryables PROVE Stage(r)' /\ Counted(r)' /\ Settled(r)'
  <2>1. CASE r # q
    <3>1. Stage(r)' /\ Settled(r)'
      BY <1>0, <2>1 DEF IInv, Each, Stage, Settled, getting
    <3>2. Counted(r)'
      BY <1>0, <2>1 DEF IInv, Each, Counted, Underway, Finalized, getting
    <3> QED
      BY <3>1, <3>2
  <2>2. CASE r = q
    <3>1. Stage(q)'
      BY <1>0 DEF IInv, Each, Stage, getting
    <3>2. Settled(q)'
      BY <1>0 DEF IInv, Each, Settled, getting
    <3>3. Counted(q)'
      <4>1. /\ Underway(q) = Len(wire[q]) /\ Underway(q)' = Len(wire'[q])
            /\ Len(wire[q]) \in Nat /\ Len(wire'[q]) \in Nat
            /\ arrived'[q] = arrived[q] /\ query' = query /\ alive' = alive
        <5>1. Underway(q) = Len(wire[q]) /\ Underway(q)' = Len(wire'[q])
          BY <1>2, <1>4 DEF Underway
        <5> QED
          BY <1>0, <1>1, <1>4, <5>1 DEF getting
      <4>2. /\ arrived[q] <= replied[q]
            /\ query \in {"none", "running"} => arrived[q] + Underway(q) = replied[q]
        BY DEF IInv, Each, Counted, Reply, Goto
      <4>3. /\ arrived'[q] <= replied'[q] /\ arrived'[q] \in Nat
            /\ query' \in {"none", "running"} =>
                 arrived'[q] + Underway(q)' = replied'[q]
        <5>1. replied'[q] \in Nat
          BY <1>4, QueryReplyAssumption
        <5>2. Len(wire'[q]) - Len(wire[q]) = replied'[q] - replied[q]
          BY <1>4, Zenon
        <5>3. replied[q] \in Nat /\ arrived[q] \in Nat
          BY <1>1
        <5> DEFINE a == Len(wire[q]) b == Len(wire'[q]) h == arrived[q]
                   m == replied[q] n == replied'[q]
        <5>4. a \in Nat /\ b \in Nat /\ m \in Nat /\ n \in Nat /\ h \in Nat
              /\ b - a = n - m /\ n >= m
          BY <1>4, <4>1, <5>1, <5>2, <5>3, Zenon
        <5> HIDE DEF a, b, h, m, n
        <5>5. h <= m /\ h + a = m => h <= n /\ h + b = n
          BY <5>4
        <5> QED
          BY <4>1, <4>2, <5>3, <5>4, <5>5 DEF a, b, h, m, n
      <4> QED
        BY <1>1, <1>4, <4>1, <4>3 DEF Counted
    <3> QED
      BY <2>2, <3>1, <3>2, <3>3
  <2> QED
    BY <2>1, <2>2
<1>8. Ended' /\ Kept'
  BY <1>0 DEF IInv, Ended, Kept, getting, consolidated
<1> QED
  BY <1>5, <1>6, <1>7, <1>8 DEF IInv, Each

(* The final message is appended where there is none.                      *)
LEMMA DropStep == ASSUME IInv, NEW q \in Queryables, Drop(q) PROVE IInv'
<1>0. /\ UNCHANGED <<alive, replied, arrived, getting>>
      /\ pc[q] \in {"replied", "refused"} /\ pc'[q] = "done"
      /\ place[q] \notin {"none", "sent", "dropped"} /\ place'[q] = "dropped"
      /\ query # "none"
      /\ \A r \in Queryables \ {q} :
           pc'[r] = pc[r] /\ wire'[r] = wire[r] /\ place'[r] = place[r]
  BY DEF Drop, Goto, Send, IInv, TypeOK, Each, Stage
<1>1. wire[q] \in Seq(Messages) /\ wire'[q] = Append(wire[q], "final")
  BY DEF Drop, Send, IInv, TypeOK, Messages
<1>2. \A i \in DOMAIN wire[q] : wire[q][i] # "final"
  BY <1>0 DEF IInv, FinalIsLast
<1>3. ~Finalized(q)
  BY <1>1, <1>2, TailFacts DEF Finalized
<1>4. /\ wire'[q] \in Seq(Messages) /\ Len(wire'[q]) = Len(wire[q]) + 1
      /\ wire'[q][Len(wire[q]) + 1] = "final"
      /\ \A i \in 1..Len(wire[q]) : wire'[q][i] = wire[q][i]
  BY <1>1, AppendFacts DEF Messages
<1>5. TypeOK'
  <2>1. wire' \in [Queryables -> Seq({"reply", "final"})]
        /\ place' \in [Queryables -> {"none", "sent", "arg", "kept", "dropped"}]
        /\ pc' \in [Queryables -> {"idle", "entered", "replied", "refused", "done"}]
    BY <1>1, <1>4 DEF Drop, Goto, Send, IInv, TypeOK, Messages
  <2> QED
    BY <1>0, <2>1 DEF IInv, TypeOK, getting, consolidated
<1>6. FinalIsLast'
  BY <1>0, <1>1, <1>2, <1>4 DEF IInv, FinalIsLast
<1>7. ASSUME NEW r \in Queryables PROVE Stage(r)' /\ Counted(r)' /\ Settled(r)'
  <2>1. CASE r # q
    <3>1. Stage(r)' /\ Settled(r)'
      BY <1>0, <2>1 DEF IInv, Each, Stage, Settled, getting
    <3>2. Counted(r)'
      BY <1>0, <2>1 DEF IInv, Each, Counted, Underway, Finalized, getting
    <3> QED
      BY <3>1, <3>2
  <2>2. CASE r = q
    <3>1. Stage(q)'
      BY <1>0 DEF IInv, Each, Stage, getting
    <3>2. Settled(q)'
      BY <1>0 DEF IInv, Each, Settled, getting
    <3>3. Counted(q)'
      <4>1. /\ Finalized(q)' /\ Len(wire[q]) \in Nat
            /\ Underway(q) = Len(wire[q]) /\ Underway(q)' = Len(wire[q])
        <5>1. Len(wire[q]) \in Nat /\ Len(wire'[q]) = Len(wire[q]) + 1
          BY <1>1, <1>4
        <5>2. wire'[q] # <<>>
          BY <1>4, <5>1
        <5>3. Finalized(q)'
          BY <1>4, <5>1, <5>2 DEF Finalized
        <5>4. Underway(q) = Len(wire[q])
          BY <1>3 DEF Underway
        <5>5. Underway(q)' = Len(wire[q])
          BY <5>1, <5>3 DEF Underway
        <5> QED
          BY <5>1, <5>3, <5>4, <5>5
      <4>2. /\ arrived[q] <= replied[q]
            /\ query \in {"none", "running"} => arrived[q] + Underway(q) = replied[q]
        BY DEF IInv, Each, Counted, Drop, Goto
      <4>3. arrived[q] \in Nat /\ replied[q] \in Nat
        BY QueryReplyAssumption DEF IInv, TypeOK
      <4> QED
        BY <1>0, <4>1, <4>2, <4>3 DEF Counted, getting
    <3> QED
      BY <2>2, <3>1, <3>2, <3>3
  <2> QED
    BY <2>1, <2>2
<1>8. Ended' /\ Kept'
  BY <1>0 DEF IInv, Ended, Kept, getting, consolidated
<1> QED
  BY <1>5, <1>6, <1>7, <1>8 DEF IInv, Each

(* What is lost with a queryable is lost from the end.                     *)
LEMMA CrashStep == ASSUME IInv, NEW q \in Queryables, Crash(q) PROVE IInv'
<1>0. /\ UNCHANGED <<place, pc, replied, arrived, getting>>
      /\ alive[q] /\ alive' = [alive EXCEPT ![q] = FALSE]
      /\ \A r \in Queryables \ {q} : wire'[r] = wire[r] /\ alive'[r] = alive[r]
  BY DEF Crash, IInv, TypeOK
<1> PICK n \in 0..Len(wire[q]) : wire' = [wire EXCEPT ![q] = SubSeq(@, 1, n)]
  BY DEF Crash
<1>1. wire[q] \in Seq(Messages) /\ wire'[q] = SubSeq(wire[q], 1, n)
  BY DEF IInv, TypeOK, Messages
<1>2. /\ wire'[q] \in Seq(Messages) /\ Len(wire'[q]) = n
      /\ \A i \in 1..n : wire'[q][i] = wire[q][i]
  BY <1>1, PrefixFacts
<1>3. n \in Nat /\ Len(wire[q]) \in Nat /\ n <= Len(wire[q])
  BY <1>1
<1>4. Finalized(q)' => n = Len(wire[q]) /\ Finalized(q)
  <2> SUFFICES ASSUME Finalized(q)' PROVE n = Len(wire[q]) /\ Finalized(q)
    OBVIOUS
  <2>1. n # 0 /\ wire'[q][n] = "final"
    BY <1>2, TailFacts DEF Finalized
  <2>2. n \in DOMAIN wire[q] /\ wire[q][n] = "final"
    BY <1>1, <1>2, <1>3, <2>1
  <2> QED
    BY <1>1, <1>3, <2>1, <2>2 DEF IInv, FinalIsLast, Finalized
<1>5. TypeOK'
  <2>1. wire' \in [Queryables -> Seq({"reply", "final"})]
        /\ alive' \in [Queryables -> BOOLEAN]
    BY <1>0, <1>1, <1>2 DEF IInv, TypeOK, Messages
  <2> QED
    BY <1>0, <2>1 DEF IInv, TypeOK, getting, consolidated
<1>6. FinalIsLast'
  BY <1>0, <1>1, <1>2, <1>3 DEF IInv, FinalIsLast
<1>7. ASSUME NEW r \in Queryables PROVE Stage(r)' /\ Counted(r)' /\ Settled(r)'
  <2>1. CASE r # q
    <3>1. Stage(r)' /\ Settled(r)'
      BY <1>0, <2>1 DEF IInv, Each, Stage, Settled, getting
    <3>2. Counted(r)'
      BY <1>0, <2>1 DEF IInv, Each, Counted, Underway, Finalized, getting
    <3> QED
      BY <3>1, <3>2
  <2>2. CASE r = q
    <3>1. Stage(q)'
      BY <1>0 DEF IInv, Each, Stage, getting
    <3>2. Settled(q)'
      <4>1. wire[q] = <<>> => wire'[q] = <<>>
        BY <1>1, <1>2, <1>3
      <4> QED
        BY <1>0, <4>1 DEF IInv, Each, Settled, getting
    <3>3. Counted(q)'
      <4>1. Counted(q)
        BY DEF IInv, Each
      <4>2. arrived[q] \in Nat /\ replied[q] \in Nat
        BY QueryReplyAssumption DEF IInv, TypeOK
      <4>3. CASE Finalized(q)'
        <5>1. Underway(q)' = Underway(q) /\ Finalized(q) /\ Underway(q) \in Int
          BY <1>2, <1>3, <1>4, <4>3 DEF Underway
        <5> QED
          BY <1>0, <4>1, <4>2, <5>1 DEF Counted, getting
      <4>4. CASE ~Finalized(q)'
        <5>1. Underway(q)' = n /\ Underway(q) \in Int
          BY <1>2, <1>3, <4>4 DEF Underway
        <5>2. n <= Underway(q) \/ (Finalized(q) /\ n = Len(wire[q]))
          BY <1>3 DEF Underway
        <5>3. Finalized(q) => n # Len(wire[q])
          <6> SUFFICES ASSUME Finalized(q), n = Len(wire[q]) PROVE FALSE
            OBVIOUS
          <6>1. n \in Nat \ {0} /\ wire'[q][n] = "final" /\ wire'[q] # <<>>
            BY <1>1, <1>2, TailFacts DEF Finalized
          <6> QED
            BY <1>2, <4>4, <6>1 DEF Finalized
        <5>4. n <= Underway(q)
          BY <5>2, <5>3
        <5> QED
          BY <1>0, <1>3, <4>1, <4>2, <4>4, <5>1, <5>4 DEF Counted, getting, IInv, TypeOK
      <4> QED
        BY <4>3, <4>4
    <3> QED
      BY <2>2, <3>1, <3>2, <3>3
  <2> QED
    BY <2>1, <2>2
<1>8. Ended' /\ Kept'
  BY <1>0 DEF IInv, Ended, Kept, getting, consolidated
<1> QED
  BY <1>5, <1>6, <1>7, <1>8 DEF IInv, Each

(* The query is sent: nobody had it before.                                *)
LEMMA GetStep == ASSUME IInv, Get PROVE IInv'
<1>0. /\ UNCHANGED <<pc, alive, wire, replied, arrived, consolidated, cut>>
      /\ query = "none" /\ query' = "running"
  BY DEF Get
<1> PICK asked \in SUBSET {q \in Queryables : alive[q]} :
      /\ awaited' = asked
      /\ place' = [q \in Queryables |-> IF q \in asked THEN "sent" ELSE place[q]]
  BY DEF Get
<1>1. \A q \in Queryables : place[q] = "none" /\ pc[q] = "idle"
  BY <1>0 DEF IInv, Each, Stage
<1>2. /\ place' \in [Queryables -> {"none", "sent"}]
      /\ \A q \in Queryables : q \in awaited' <=> place'[q] = "sent"
  BY <1>1
<1>3. TypeOK'
  <2>1. awaited' \subseteq {q \in Queryables : place'[q] # "none"}
    BY <1>2
  <2>2. place' \in [Queryables -> {"none", "sent", "arg", "kept", "dropped"}]
    BY <1>2
  <2> QED
    BY <1>0, <2>1, <2>2 DEF IInv, TypeOK, consolidated
<1>4. FinalIsLast'
  BY <1>0, <1>1 DEF IInv, FinalIsLast
<1>5. ASSUME NEW q \in Queryables PROVE Stage(q)' /\ Counted(q)' /\ Settled(q)'
  <2>1. Stage(q)'
    BY <1>0, <1>1, <1>2 DEF IInv, Each, Stage
  <2>2. Counted(q)'
    BY <1>0 DEF IInv, Each, Counted, Underway, Finalized
  <2>3. Settled(q)'
    <3>1. wire[q] = <<>> /\ arrived[q] = replied[q]
      BY <1>0, <1>1 DEF IInv, Each, Settled
    <3> QED
      BY <1>0, <1>2, <3>1 DEF Settled
  <2> QED
    BY <2>1, <2>2, <2>3
<1>6. Ended' /\ Kept'
  BY <1>0 DEF IInv, Ended, Kept, consolidated
<1> QED
  BY <1>3, <1>4, <1>5, <1>6 DEF IInv, Each

(* A message arrives: the rest of what is under way keeps its order.       *)
LEMMA ArrivalFacts ==
  ASSUME IInv, NEW q \in Queryables, NEW m, Arrives(q, m)
  PROVE  /\ wire' \in [Queryables -> Seq({"reply", "final"})]
         /\ \A r \in Queryables \ {q} : wire'[r] = wire[r]
         /\ place[q] # "none" /\ pc[q] # "idle" /\ query # "none"
         /\ q \in awaited
         /\ Len(wire[q]) \in Nat \ {0} /\ Len(wire'[q]) = Len(wire[q]) - 1
         /\ \A i \in 1..(Len(wire[q]) - 1) : wire'[q][i] = wire[q][i + 1]
         /\ wire[q][1] = m
<1>1. wire[q] \in Seq(Messages) /\ wire[q] # <<>> /\ wire'[q] = Tail(wire[q])
  BY DEF Arrives, IInv, TypeOK, Messages
<1>2. /\ Len(wire[q]) \in Nat \ {0} /\ Head(wire[q]) = wire[q][1]
      /\ Tail(wire[q]) \in Seq(Messages) /\ Len(Tail(wire[q])) = Len(wire[q]) - 1
      /\ \A i \in 1..(Len(wire[q]) - 1) : Tail(wire[q])[i] = wire[q][i + 1]
  BY <1>1, TailFacts
<1>3. wire' \in [Queryables -> Seq({"reply", "final"})]
      /\ \A r \in Queryables \ {q} : wire'[r] = wire[r]
  BY <1>1, <1>2 DEF Arrives, IInv, TypeOK, Messages
<1>4. pc[q] # "idle" /\ (query # "none" => q \in awaited)
  BY <1>1 DEF IInv, Each, Settled
<1>5. place[q] # "none" /\ query # "none"
  BY <1>4 DEF IInv, Each, Stage
<1> QED
  BY <1>1, <1>2, <1>3, <1>4, <1>5 DEF Arrives

LEMMA FinalStaysLast ==
  ASSUME IInv, NEW q \in Queryables, NEW m, Arrives(q, m), UNCHANGED place
  PROVE  FinalIsLast'
<1> SUFFICES ASSUME NEW r \in Queryables, NEW i \in DOMAIN wire'[r],
                    wire'[r][i] = "final"
             PROVE  i = Len(wire'[r]) /\ place[r] = "dropped"
  BY DEF FinalIsLast
<1>1. CASE r # q
  BY <1>1, ArrivalFacts DEF IInv, FinalIsLast
<1>2. CASE r = q
  <2>1. wire[q] \in Seq(Messages) /\ wire'[q] \in Seq(Messages)
    BY ArrivalFacts DEF IInv, TypeOK, Messages
  <2>2. i \in 1..(Len(wire[q]) - 1) /\ i + 1 \in DOMAIN wire[q]
        /\ wire[q][i + 1] = "final"
    BY <1>2, <2>1, ArrivalFacts
  <2>3. i + 1 = Len(wire[q]) /\ place[q] = "dropped"
    BY <2>2 DEF IInv, FinalIsLast
  <2> QED
    BY <1>2, <2>2, <2>3, ArrivalFacts
<1> QED
  BY <1>1, <1>2

LEMMA ReceiveReplyStep ==
  ASSUME IInv, NEW q \in Queryables, ReceiveReply(q) PROVE IInv'
<1>0. /\ UNCHANGED <<answering, replied, query, awaited, cut>>
      /\ query = "running" /\ Arrives(q, "reply")
      /\ arrived' = [arrived EXCEPT ![q] = @ + 1]
      /\ {held', given'} \subseteq BOOLEAN /\ (held' \/ given')
  <2>1. {held, given} \subseteq BOOLEAN
    BY DEF IInv, TypeOK
  <2>2. {held', given'} \subseteq BOOLEAN
    BY <2>1 DEF ReceiveReply, consolidated
  <2>3. held' \/ given'
    <3>1. CASE given' = TRUE
      BY <3>1, Zenon
    <3>2. CASE held' = TRUE
      BY <3>2, Zenon
    <3>3. CASE (held \/ given) /\ held' = held /\ given' = given
      BY <3>3, Zenon
    <3> QED
      BY <3>1, <3>2, <3>3 DEF ReceiveReply, consolidated
  <2> QED
    BY <2>2, <2>3 DEF ReceiveReply
<1>1. arrived[q] \in Nat /\ replied[q] \in Nat /\ replied[q] <= MaxReplies
  BY QueryReplyAssumption DEF IInv, TypeOK
<1>2. /\ Finalized(q)' <=> Finalized(q)
      /\ Underway(q)' = Underway(q) - 1 /\ Underway(q) \in Nat \ {0}
  <2>1. wire[q] \in Seq(Messages) /\ wire'[q] \in Seq(Messages)
        /\ Len(wire[q]) \in Nat \ {0} /\ Len(wire'[q]) = Len(wire[q]) - 1
    BY <1>0, ArrivalFacts DEF IInv, TypeOK, Messages
  <2>2. CASE Len(wire[q]) = 1
    <3>1. ~Finalized(q) /\ wire'[q] = <<>>
      BY <1>0, <2>1, <2>2, ArrivalFacts DEF Finalized
    <3> QED
      BY <2>1, <2>2, <3>1 DEF Finalized, Underway
  <2>3. CASE Len(wire[q]) # 1
    <3>1. wire'[q][Len(wire'[q])] = wire[q][Len(wire[q])]
      <4> DEFINE n == Len(wire[q])
      <4>1. n \in Nat \ {0} /\ n # 1 /\ Len(wire'[q]) = n - 1
            /\ \A i \in 1..(n - 1) : wire'[q][i] = wire[q][i + 1]
        BY <1>0, <2>1, <2>3, ArrivalFacts, Zenon
      <4> HIDE DEF n
      <4>2. n - 1 \in 1..(n - 1) /\ (n - 1) + 1 = n
        BY <4>1
      <4>3. wire'[q][n - 1] = wire[q][n]
        BY <4>1, <4>2
      <4> QED
        BY <4>1, <4>3 DEF n
    <3>2. wire[q] # <<>> /\ wire'[q] # <<>>
      <4>1. Len(wire[q]) # 0 /\ Len(wire'[q]) # 0
        BY <2>1, <2>3
      <4> QED
        BY <2>1, <4>1, EmptyIsShort
    <3>3. Finalized(q)' <=> Finalized(q)
      BY <3>1, <3>2 DEF Finalized
    <3> QED
      BY <2>1, <2>3, <3>3 DEF Underway
  <2> QED
    BY <2>2, <2>3
<1>3. /\ arrived[q] + 1 <= replied[q] /\ arrived'[q] = arrived[q] + 1
      /\ arrived'[q] + Underway(q)' = arrived[q] + Underway(q)
  <2>1. arrived[q] + Underway(q) <= replied[q]
    BY <1>0 DEF IInv, Each, Counted
  <2>2. arrived'[q] = arrived[q] + 1
    BY <1>0 DEF IInv, TypeOK
  <2> QED
    BY <1>1, <1>2, <2>1, <2>2
<1>4. TypeOK'
  <2>1. arrived' \in [Queryables -> 0..MaxReplies]
    BY <1>0, <1>1, <1>3, QueryReplyAssumption DEF IInv, TypeOK
  <2> QED
    BY <1>0, <2>1, ArrivalFacts DEF IInv, TypeOK, answering
<1>5. FinalIsLast'
  BY <1>0, FinalStaysLast DEF answering
<1>6. ASSUME NEW r \in Queryables PROVE Stage(r)' /\ Counted(r)' /\ Settled(r)'
  <2>1. Stage(r)'
    BY <1>0 DEF IInv, Each, Stage, answering
  <2>2. CASE r # q
    <3>1. wire'[r] = wire[r] /\ arrived'[r] = arrived[r]
      BY <1>0, <2>2, ArrivalFacts DEF IInv, TypeOK
    <3>2. UNCHANGED <<alive, pc, place, replied, query, awaited>>
      BY <1>0 DEF answering
    <3>3. Counted(r)'
      BY <3>1, <3>2 DEF IInv, Each, Counted, Underway, Finalized
    <3>4. Settled(r)'
      BY <3>1, <3>2 DEF IInv, Each, Settled
    <3> QED
      BY <2>1, <3>3, <3>4
  <2>3. CASE r = q
    <3>1. Counted(q)'
      <4>1. /\ arrived'[q] <= replied'[q] /\ arrived'[q] + Underway(q)' <= replied'[q]
            /\ alive[q] \/ Finalized(q) => arrived'[q] + Underway(q)' = replied'[q]
        BY <1>0, <1>3 DEF IInv, Each, Counted, answering
      <4> QED
        BY <1>0, <1>2, <4>1 DEF Counted, answering
    <3>2. Settled(q)'
      BY <1>0, ArrivalFacts DEF Settled, answering
    <3> QED
      BY <2>1, <2>3, <3>1, <3>2
  <2> QED
    BY <2>2, <2>3
<1>7. Ended' /\ Kept'
  BY <1>0 DEF IInv, Ended, Kept
<1> QED
  BY <1>4, <1>5, <1>6, <1>7 DEF IInv, Each

(* A final message has nothing behind it: all has been arrived.            *)
LEMMA ReceiveFinalStep ==
  ASSUME IInv, NEW q \in Queryables, ReceiveFinal(q) PROVE IInv'
<1>0. /\ UNCHANGED <<answering, replied, arrived, query, consolidated, cut>>
      /\ query = "running" /\ Arrives(q, "final") /\ awaited' = awaited \ {q}
  BY DEF ReceiveFinal
<1>1. wire[q] \in Seq(Messages) /\ wire'[q] \in Seq(Messages)
      /\ Len(wire[q]) \in Nat \ {0} /\ wire[q][1] = "final"
      /\ Len(wire'[q]) = Len(wire[q]) - 1
  BY <1>0, ArrivalFacts DEF IInv, TypeOK, Messages
<1>2. Len(wire[q]) = 1 /\ place[q] = "dropped"
  <2>1. DOMAIN wire[q] = 1..Len(wire[q])
    BY <1>1
  <2>2. 1 \in 1..Len(wire[q])
    BY <1>1
  <2> QED
    BY <1>1, <2>1, <2>2, Zenon DEF IInv, FinalIsLast
<1>3. wire'[q] = <<>> /\ wire[q] # <<>>
  BY <1>1, <1>2, EmptyIsShort
<1>4. Finalized(q) /\ Underway(q) = 0 /\ ~Finalized(q)' /\ Underway(q)' = 0
  BY <1>1, <1>2, <1>3 DEF Finalized, Underway
<1>5. arrived[q] \in Nat /\ replied[q] \in Nat /\ arrived[q] = replied[q]
  <2>1. arrived[q] \in Nat /\ replied[q] \in Nat
    BY QueryReplyAssumption DEF IInv, TypeOK
  <2>2. arrived[q] + Underway(q) = replied[q]
    BY <1>0, <1>4 DEF IInv, Each, Counted
  <2> QED
    BY <1>4, <2>1, <2>2
<1>6. TypeOK'
  <2>1. UNCHANGED <<alive, pc, place, replied, arrived, query, consolidated, cut>>
    BY <1>0 DEF answering
  <2>2. wire' \in [Queryables -> Seq({"reply", "final"})]
    BY <1>0, ArrivalFacts
  <2>3. awaited' \subseteq awaited
    BY <1>0
  <2> QED
    BY <2>1, <2>2, <2>3 DEF IInv, TypeOK, consolidated
<1>7. FinalIsLast'
  BY <1>0, FinalStaysLast DEF answering
<1>8. ASSUME NEW r \in Queryables PROVE Stage(r)' /\ Counted(r)' /\ Settled(r)'
  <2>0. UNCHANGED <<alive, pc, place, replied, arrived, query>>
    BY <1>0 DEF answering
  <2>1. Stage(r)'
    BY <2>0 DEF IInv, Each, Stage
  <2>2. CASE r # q
    <3>1. wire'[r] = wire[r] /\ (r \in awaited' <=> r \in awaited)
      BY <1>0, <2>2, ArrivalFacts
    <3>2. Counted(r)'
      BY <2>0, <3>1 DEF IInv, Each, Counted, Underway, Finalized
    <3>3. Settled(r)'
      BY <2>0, <3>1 DEF IInv, Each, Settled
    <3> QED
      BY <2>1, <3>2, <3>3
  <2>3. CASE r = q
    <3>1. Counted(q)'
      BY <1>4, <1>5, <2>0 DEF Counted
    <3>2. Settled(q)'
      BY <1>2, <1>3, <1>5, <2>0 DEF Settled
    <3> QED
      BY <2>1, <2>3, <3>1, <3>2
  <2> QED
    BY <2>2, <2>3
<1>9. Ended' /\ Kept'
  BY <1>0 DEF IInv, Ended, Kept, consolidated
<1> QED
  BY <1>6, <1>7, <1>8, <1>9 DEF IInv, Each

(* What comes after the end is not counted any more.                       *)
LEMMA ReceiveLateStep ==
  ASSUME IInv, NEW q \in Queryables, ReceiveLate(q) PROVE IInv'
<1>0. /\ UNCHANGED <<answering, replied, arrived, getting>>
      /\ query \notin {"none", "running"} /\ Arrives(q, Head(wire[q]))
  BY DEF ReceiveLate, Arrives
<1>1. TypeOK'
  BY <1>0, ArrivalFacts DEF IInv, TypeOK, answering, getting, consolidated
<1>2. FinalIsLast'
  BY <1>0, FinalStaysLast DEF answering
<1>3. ASSUME NEW r \in Queryables PROVE Stage(r)' /\ Counted(r)' /\ Settled(r)'
  <2>0. UNCHANGED <<pc, place, replied, arrived, query, awaited>>
    BY <1>0 DEF answering, getting
  <2>1. Stage(r)' /\ Counted(r)'
    BY <1>0, <2>0 DEF IInv, Each, Stage, Counted
  <2>2. CASE r # q
    <3>1. wire'[r] = wire[r]
      BY <1>0, <2>2, ArrivalFacts
    <3> QED
      BY <2>0, <2>1, <3>1 DEF IInv, Each, Settled
  <2>3. CASE r = q
    <3>1. pc[q] # "idle" /\ q \in awaited
      BY <1>0, ArrivalFacts
    <3> QED
      BY <2>0, <2>1, <2>3, <3>1 DEF Settled
  <2> QED
    BY <2>2, <2>3
<1>4. Ended' /\ Kept'
  BY <1>0 DEF IInv, Ended, Kept, getting, consolidated
<1> QED
  BY <1>1, <1>2, <1>3, <1>4 DEF IInv, Each

(* The rest concerns the get's own bookkeeping.                            *)
LEMMA GettingStep ==
  ASSUME IInv, HandOver \/ EndAllDone \/ EndCut \/ Close \/ UNCHANGED vars
  PROVE  IInv'
<1>0. UNCHANGED <<place, pc, alive, wire, replied, arrived, awaited>>
  BY DEF HandOver, EndAllDone, EndCut, Close, vars, answering, getting
<1>1. /\ query' \in {"none", "running", "ended", "closed"} /\ {held', given'} \subseteq BOOLEAN
      /\ query' \in {"none", "running"} => query' = query
      /\ query' = "none" <=> query = "none"
  BY DEF IInv, TypeOK, HandOver, EndAllDone, EndCut, Close, vars, getting, consolidated
<1>2. cut' \in BOOLEAN /\ Ended'
  BY DEF IInv, TypeOK, Ended, HandOver, EndAllDone, EndCut, Close, vars, getting
<1>3. Kept'
  <2> DEFINE some == \E q \in Queryables : arrived[q] > 0
  <2>1. Kept' <=> (some => held' \/ given' \/ cut') /\ (query' = "closed" => ~held')
    BY <1>0 DEF Kept
  <2>2. (some => held \/ given \/ cut) /\ (query = "closed" => ~held)
    BY DEF IInv, Kept
  <2> HIDE DEF some
  <2>3. CASE HandOver
    BY <2>1, <2>3 DEF HandOver
  <2>4. CASE EndAllDone
    BY <2>1, <2>2, <2>4, Zenon DEF EndAllDone, consolidated
  <2>5. CASE EndCut
    BY <2>1, <2>5 DEF EndCut
  <2>6. CASE Close
    BY <2>1, <2>2, <2>6, Zenon DEF Close, consolidated
  <2>7. CASE UNCHANGED vars
    BY <2>1, <2>2, <2>7, Zenon DEF vars, getting, consolidated
  <2> QED
    BY <2>3, <2>4, <2>5, <2>6, <2>7
<1>4. TypeOK'
  BY <1>0, <1>1, <1>2 DEF IInv, TypeOK
<1>5. FinalIsLast'
  BY <1>0 DEF IInv, FinalIsLast
<1>6. ASSUME NEW r \in Queryables PROVE Stage(r)' /\ Counted(r)' /\ Settled(r)'
  <2>1. Stage(r)'
    BY <1>0, <1>1 DEF IInv, Each, Stage
  <2>2. Counted(r)'
    BY <1>0, <1>1 DEF IInv, Each, Counted, Underway, Finalized
  <2>3. Settled(r)'
    BY <1>0, <1>1 DEF IInv, Each, Settled
  <2> QED
    BY <2>1, <2>2, <2>3
<1> QED
  BY <1>2, <1>3, <1>4, <1>5, <1>6 DEF IInv, Each

(* IInv is an invariant of queryables and get together.                    *)
THEOREM Invariance == Spec => []IInv
<1>1. IInv /\ [Next]_vars => IInv'
  <2> SUFFICES ASSUME IInv, [Next]_vars PROVE IInv'
    OBVIOUS
  <2>1. CASE \E q \in Queryables : Answer(q) \/ ReplyMore(q) \/ Crash(q)
    BY <2>1, QuietStep, ReplyStep, DropStep, CrashStep DEF Answer
  <2>2. CASE \E q \in Queryables : Receive(q)
    BY <2>2, ReceiveReplyStep, ReceiveFinalStep, ReceiveLateStep DEF Receive
  <2>3. CASE Get
    BY <2>3, GetStep
  <2>4. CASE HandOver \/ EndAllDone \/ EndCut \/ Close \/ UNCHANGED vars
    BY <2>4, GettingStep
  <2> QED
    BY <2>1, <2>2, <2>3, <2>4 DEF Next, Library
<1> QED
  BY <1>1, InitInvariant, PTL DEF Spec

(* Every variable has its type; no more replies arrive than may be sent.   *)
THEOREM TypeCorrect == Spec => []TypeOK
<1>1. IInv => TypeOK
  BY DEF IInv
<1> QED
  BY <1>1, Invariance, PTL

(* A queryable finalizes once and after its last reply.                    *)
THEOREM FinalizedOnce == Spec => []FinalIsLast
<1>1. IInv => FinalIsLast
  BY DEF IInv
<1> QED
  BY <1>1, Invariance, PTL

(* When all queryables have answered, each of their replies has reached    *)
(* the get, and reply_handler has been called if there was one.            *)
THEOREM AllRepliesArrive == Spec => []NoReplyLost
<1>1. IInv => NoReplyLost
  <2> SUFFICES ASSUME IInv, query = "closed", ~cut PROVE NoReplyLost
    BY DEF NoReplyLost
  <2>1. \A q \in Queryables : arrived[q] = replied[q]
    BY DEF IInv, Each, Settled, Ended
  <2> QED
    BY <2>1 DEF IInv, Kept, NoReplyLost
<1> QED
  BY <1>1, Invariance, PTL

===============================================================================
