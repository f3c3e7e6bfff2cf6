-------------------------- MODULE ExampleHandlesProofs --------------------------
(***************************************************************************)
(* That the examples and tests use, give back and lose their handles       *)
(* rightly, by an outline of each: what it holds before each statement,    *)
(* and what it holds if the call that gives it has not failed.  Outlines   *)
(* whose statements lead from one to the next, or jump to where no more is *)
(* needed, are what every run goes through; each program has one.          *)
(***************************************************************************)
EXTENDS ExampleHandles, TLAPS

(* What is held for certain, of what was asked for, and what else if the   *)
(* call that gives it has not failed.                                      *)
Hold(held, maybe) == [held |-> held, maybe |-> maybe]

(* The statement s may be made when a is held, and b is held afterwards.   *)
Leads(s, a, b) ==
  LET may   == a.held \cup a.maybe
      later == b.held \cup b.maybe
  IN
  /\ may \cup later \subseteq Handles
  /\ \/ /\ s.op \in {"call", "try"}
        /\ s.uses \cup s.takes \subseteq a.held /\ s.gives \cap may = {}
        /\ b.held \subseteq (a.held \ s.takes) \cup (IF s.op = "call" THEN s.gives ELSE {})
        /\ (may \ s.takes) \cup s.gives \subseteq later
     \/ /\ s.op \in {"or exit", "may exit"}
        /\ s.takes \subseteq a.held /\ s.takes \cap Optional = {}
        /\ b.held \subseteq a.held \cup (IF s.op = "or exit" THEN s.uses ELSE {})
        /\ may \subseteq later
     \/ /\ s.op = "or return"
        /\ s.takes \subseteq a.held /\ s.takes \cap Optional = {}
        /\ b.held \subseteq a.held \cup s.uses /\ may \subseteq later
        /\ \A h \in s.uses : may \ ({h} \cup s.takes) \subseteq {"unused buffer"}

(* Of what is held, b says less than a.                                    *)
Weaker(a, b) ==
  /\ a.held \cup a.maybe \subseteq b.held \cup b.maybe
  /\ b.held \subseteq a.held /\ b.held \cup b.maybe \subseteq Handles

(* The i-th statement leads to the next, or jumps to where less is needed. *)
Fits(s, o, i) ==
  \/ Leads(s[i], o[i], o[i + 1])
  \/ /\ s[i].op = "jump"
     /\ \A d \in s[i].uses :
          d \in Int /\ i + d \in 1..(Len(s) + 1) /\ Weaker(o[i], o[i + d])

Follows(s, o) == \A i \in 1..Len(s) : Fits(s, o, i)

(* The text s leads from holding a to holding b.                           *)
Outlined(s, a, b) ==
  Len(s) \in Nat /\ \E o : o[1] = a /\ o[Len(s) + 1] = b /\ Follows(s, o)

Nothing == Hold({}, {})

AtEnd == Hold({}, {"unused buffer"})

WithConfig == Hold({"config"}, {})

Configured == Hold({"config"}, {"unused buffer"})

Opened == Hold({"session", "keyexpr"}, {"unused buffer"})

InSession == Hold({"session"}, {"unused buffer"})

Listed == Hold({"session", "array"}, {"unused buffer"})

(* What a program's outline says is held before each of its statements.    *)
IsOutline(o, p) ==
  o[1] = Nothing /\ o[Len(Programs[p]) + 1] = AtEnd /\ Follows(Programs[p], o)

Outline(p) == CHOOSE o : IsOutline(o, p)

Agrees(a) ==
  \A h \in Handles :
    /\ h \in Asked(a.held) => handle[h] = "held"
    /\ handle[h] = "held" => h \in Asked(a.held \cup a.maybe)

IInv ==
  /\ program \in DOMAIN Programs
  /\ handle \in [Handles -> {"none", "held", "gone"}]
  /\ ended \in {"no", "returned", "exited"}
  /\ at \in 1..(Len(Programs[program]) + 1)
  /\ ended = "no" => Agrees(Outline(program)[at])
  /\ NothingLeft

-------------------------------------------------------------------------------
(* One text after another.                                                 *)

LEMMA Moved ==
  ASSUME NEW s, NEW o, NEW u, NEW r, Len(s) \in Nat, Len(u) \in Nat,
         NEW i \in 1..Len(s), NEW k \in Nat, Len(s) + k <= Len(u), Fits(s, o, i),
         u[i + k] = s[i], \A j \in 1..(Len(s) + 1) : r[j + k] = o[j]
  PROVE  Fits(u, r, i + k)
<1>1. r[i + k] = o[i] /\ r[i + k + 1] = o[i + 1]
  <2>1. i \in 1..(Len(s) + 1) /\ i + 1 \in 1..(Len(s) + 1) /\ (i + 1) + k = i + k + 1
    OBVIOUS
  <2> QED
    BY <2>1
<1>2. CASE Leads(s[i], o[i], o[i + 1])
  BY <1>1, <1>2 DEF Fits
<1>3. CASE /\ s[i].op = "jump"
           /\ \A d \in s[i].uses :
                d \in Int /\ i + d \in 1..(Len(s) + 1) /\ Weaker(o[i], o[i + d])
  <2>1. ASSUME NEW d \in u[i + k].uses
        PROVE  d \in Int /\ i + k + d \in 1..(Len(u) + 1) /\ Weaker(r[i + k], r[i + k + d])
    <3>1. d \in Int /\ i + d \in 1..(Len(s) + 1) /\ Weaker(o[i], o[i + d])
      BY <1>3
    <3>2. (i + d) + k = i + k + d /\ i + k + d \in 1..(Len(u) + 1)
      BY <3>1
    <3>3. r[i + k + d] = o[i + d]
      BY <3>1, <3>2
    <3> QED
      BY <1>1, <3>1, <3>2, <3>3
  <2> QED
    BY <1>3, <2>1 DEF Fits
<1> QED
  BY <1>2, <1>3 DEF Fits

LEMMA Chain ==
  ASSUME NEW s, NEW t, NEW a, NEW b, NEW c, Outlined(s, a, b), Outlined(t, b, c)
  PROVE  Outlined(s \o t, a, c)
<1> DEFINE m == Len(s)
           n == Len(t)
           u == s \o t
<1>0. m \in Nat /\ n \in Nat
  BY DEF Outlined
<1>1. PICK o : o[1] = a /\ o[m + 1] = b /\ \A i \in 1..m : Fits(s, o, i)
  BY DEF Outlined, Follows
<1>2. PICK q : q[1] = b /\ q[n + 1] = c /\ \A i \in 1..n : Fits(t, q, i)
  BY DEF Outlined, Follows
<1>3. Len(u) = m + n /\ \A i \in 1..m : u[i] = s[i]
  BY <1>0
<1>4. \A i \in 1..n : u[i + m] = t[i]
  BY <1>0
<1> DEFINE r == [i \in 1..(m + n + 1) |-> IF i <= m THEN o[i] ELSE q[i - m]]
<1> HIDE DEF m, n, u
<1>5. /\ \A i \in 1..(m + 1) : r[i] = o[i]
      /\ \A i \in 1..(n + 1) : r[i + m] = q[i]
  <2>1. \A i \in 1..m : r[i] = o[i]
    BY <1>0
  <2>2. \A i \in 1..(n + 1) : r[i + m] = q[i]
    <3> TAKE i \in 1..(n + 1)
    <3>1. PICK j \in 1..(m + n + 1) : j = i + m /\ ~(j <= m) /\ j - m = i
      BY <1>0
    <3>2. r[j] = q[j - m]
      BY <3>1
    <3> HIDE DEF r
    <3> QED
      BY <3>1, <3>2
  <2>3. r[m + 1] = o[m + 1]
    <3>1. 1 \in 1..(n + 1) /\ 1 + m = m + 1
      BY <1>0
    <3> QED
      BY <1>1, <1>2, <2>2, <3>1
  <2>4. \A i \in 1..(m + 1) : i \in 1..m \/ i = m + 1
    BY <1>0
  <2> QED
    BY <2>1, <2>2, <2>3, <2>4
<1> HIDE DEF r
<1>6. r[1] = a /\ r[m + n + 1] = c
  <2>1. 1 \in 1..(m + 1) /\ n + 1 \in 1..(n + 1) /\ (n + 1) + m = m + n + 1
    BY <1>0
  <2> QED
    BY <1>1, <1>2, <1>5, <2>1
<1>7. \A i \in 1..(m + n) : Fits(u, r, i)
  <2> TAKE i \in 1..(m + n)
  <2>1. CASE i \in 1..m
    <3>1. i + 0 = i /\ m + 0 <= m + n /\ \A j \in 1..(m + 1) : j + 0 = j
      BY <1>0, <2>1
    <3>2. Fits(s, o, i) /\ u[i + 0] = s[i] /\ \A j \in 1..(m + 1) : r[j + 0] = o[j]
      BY <1>1, <1>3, <1>5, <2>1, <3>1
    <3>3. /\ Len(s) \in Nat /\ Len(u) \in Nat /\ i \in 1..Len(s) /\ 0 \in Nat
          /\ Len(s) + 0 <= Len(u) /\ \A j \in 1..(Len(s) + 1) : r[j + 0] = o[j]
      BY <1>0, <1>3, <2>1, <3>1, <3>2 DEF m
    <3>4. Fits(u, r, i + 0)
      BY <3>2, <3>3, Moved, Zenon
    <3> QED
      BY <3>1, <3>4
  <2>2. CASE i \notin 1..m
    <3>1. PICK j \in 1..n : i = j + m
      <4>1. i - m \in 1..n /\ i = (i - m) + m
        BY <1>0, <2>2
      <4> QED
        BY <4>1
    <3>2. n + m <= m + n
      BY <1>0
    <3>3. Fits(t, q, j) /\ u[j + m] = t[j] /\ \A k \in 1..(n + 1) : r[k + m] = q[k]
      BY <1>2, <1>4, <1>5
    <3>4. /\ Len(t) \in Nat /\ Len(u) \in Nat /\ j \in 1..Len(t) /\ m \in Nat
          /\ Len(t) + m <= Len(u) /\ \A k \in 1..(Len(t) + 1) : r[k + m] = q[k]
      BY <1>0, <1>3, <2>2, <3>1, <3>2, <3>3 DEF n
    <3>5. Fits(u, r, j + m)
      BY <3>3, <3>4, Moved, Zenon
    <3> QED
      BY <3>1, <3>5
  <2> QED
    BY <2>1, <2>2
<1> QED
  BY <1>0, <1>3, <1>6, <1>7 DEF u, Outlined, Follows

-------------------------------------------------------------------------------
(* The outlines, of whole programs or of the parts that several share, one *)
(* step per statement.                                                     *)

(* Sums in an index, for the prover that does not calculate.               *)
LEMMA Counting ==
  /\ 1 + 1 = 2 /\ 2 + 1 = 3 /\ 3 + 1 = 4 /\ 4 + 1 = 5 /\ 5 + 1 = 6 /\ 6 + 1 = 7
  /\ 7 + 1 = 8 /\ 8 + 1 = 9 /\ 9 + 1 = 10 /\ 10 + 1 = 11 /\ 11 + 1 = 12
  /\ 12 + 1 = 13 /\ 13 + 1 = 14 /\ 14 + 1 = 15 /\ 15 + 1 = 16 /\ 16 + 1 = 17
  /\ 17 + 1 = 18 /\ 18 + 1 = 19 /\ 19 + 1 = 20 /\ 20 + 1 = 21 /\ 21 + 1 = 22
  /\ 22 + 1 = 23
OBVIOUS

LEMMA ConfigOutlined ==
  Outlined(<< Jump({1, 4}), Try({}, {}, {"config"}), OrExit("config"),
              Jump({2}), Make("config") >>,
           Nothing, WithConfig)
<1> DEFINE s == << Jump({1, 4}), Try({}, {}, {"config"}), OrExit("config"),
                    Jump({2}), Make("config") >>
           o == << Nothing, Nothing, Hold({}, {"config"}), WithConfig,
                   Nothing, WithConfig >>
<1> HIDE DEF s, o
<1>1. Fits(s, o, 1)
  <2>1. s[1] = Jump({1, 4}) /\ Len(s) = 5
    BY DEF s, o
  <2>2. s[1].op = "jump" /\ s[1].uses = {1, 4}
    BY <2>1 DEF Jump, Stmt
  <2>3. Weaker(o[1], o[2]) /\ Weaker(o[1], o[5])
    BY DEF o, Weaker, Hold, Handles, Optional, Nothing
  <2>4. /\ 1 + 1 = 2 /\ 1 \in Int /\ 2 \in 1..(Len(s) + 1) /\ 1 + 4 = 5
        /\ 4 \in Int /\ 5 \in 1..(Len(s) + 1)
    BY <2>1
  <2> QED
    BY <2>2, <2>3, <2>4, Zenon DEF Fits
<1>2. Leads(s[2], o[2], o[3])
  BY DEF s, o, Leads, Hold, Handles, Optional, Nothing, Stmt, Try
<1>3. Leads(s[3], o[3], o[4])
  BY DEF s, o, Leads, Hold, Handles, Optional, WithConfig, OrExit, Stmt
<1>4. Fits(s, o, 4)
  <2>1. s[4] = Jump({2}) /\ Len(s) = 5
    BY DEF s, o
  <2>2. s[4].op = "jump" /\ s[4].uses = {2}
    BY <2>1 DEF Jump, Stmt
  <2>3. Weaker(o[4], o[6])
    BY DEF o, Weaker, Hold, Handles, Optional, WithConfig
  <2>4. 4 + 2 = 6 /\ 2 \in Int /\ 6 \in 1..(Len(s) + 1)
    BY <2>1
  <2> QED
    BY <2>2, <2>3, <2>4, Zenon DEF Fits
<1>5. Leads(s[5], o[5], o[6])
  BY DEF s, o, Leads, Hold, Handles, Optional, Nothing, WithConfig, Call,
         Make, Stmt
<1>6. Len(s) = 5 /\ o[1] = Nothing /\ o[6] = WithConfig
  BY DEF s, o
<1>7. /\ Fits(s, o, 1) /\ Fits(s, o, 2) /\ Fits(s, o, 3) /\ Fits(s, o, 4)
      /\ Fits(s, o, 5)
  BY <1>1, <1>2, <1>3, <1>4, <1>5, Counting, Zenon DEF Fits
<1>8. o[Len(s) + 1] = WithConfig
  BY <1>6, Counting, Zenon
<1>9. Outlined(s, Nothing, WithConfig)
  BY <1>6, <1>7, <1>8 DEF Outlined, Follows
<1> QED
  BY <1>9 DEF s

LEMMA ModeOutlined == Outlined(ParseMode, WithConfig, WithConfig)
<1> DEFINE s == ParseMode
           o == << WithConfig, WithConfig,
                   Hold({"config", "mode buffer"}, {}),
                   Hold({"config", "mode buffer"}, {}),
                   Hold({"config", "mode buffer"}, {}), WithConfig >>
<1> HIDE DEF s, o
<1>1. Fits(s, o, 1)
  <2>1. s[1] = Unless(5) /\ Len(s) = 5
    BY DEF s, o, ParseMode
  <2>2. s[1].op = "jump" /\ s[1].uses = {1, 5}
    BY <2>1 DEF Jump, Stmt, Unless
  <2>3. Weaker(o[1], o[2]) /\ Weaker(o[1], o[6])
    BY DEF o, Weaker, Hold, Handles, Optional, WithConfig
  <2>4. /\ 1 + 1 = 2 /\ 1 \in Int /\ 2 \in 1..(Len(s) + 1) /\ 1 + 5 = 6
        /\ 5 \in Int /\ 6 \in 1..(Len(s) + 1)
    BY <2>1
  <2> QED
    BY <2>2, <2>3, <2>4, Zenon DEF Fits
<1>2. Leads(s[2], o[2], o[3])
  BY DEF s, o, ParseMode, Leads, Hold, Handles, Optional, WithConfig, Call,
         Make, Stmt
<1>3. Leads(s[3], o[3], o[4])
  BY DEF s, o, ParseMode, Leads, Hold, Handles, Optional, Call, InsertJson5,
         Stmt
<1>4. Leads(s[4], o[4], o[5])
  BY DEF s, o, ParseMode, Leads, Hold, Handles, Optional, MayExitFreeing, Stmt
<1>5. Leads(s[5], o[5], o[6])
  BY DEF s, o, ParseMode, Leads, Hold, Handles, Optional, WithConfig, Call,
         Free, Stmt
<1>6. Len(s) = 5 /\ o[1] = WithConfig /\ o[6] = WithConfig
  BY DEF s, o, ParseMode
<1>7. /\ Fits(s, o, 1) /\ Fits(s, o, 2) /\ Fits(s, o, 3) /\ Fits(s, o, 4)
      /\ Fits(s, o, 5)
  BY <1>1, <1>2, <1>3, <1>4, <1>5, Counting, Zenon DEF Fits
<1>8. o[Len(s) + 1] = WithConfig
  BY <1>6, Counting, Zenon
<1>9. Outlined(s, WithConfig, WithConfig)
  BY <1>6, <1>7, <1>8 DEF Outlined, Follows
<1> QED
  BY <1>9 DEF s

LEMMA ListOutlined == Outlined(ParseJsonListConfig, WithConfig, WithConfig)
<1> DEFINE s == ParseJsonListConfig
           o == << WithConfig, Hold({"config", "buf"}, {}),
                   Hold({"config", "buf"}, {}),
                   Hold({"config", "buf", "newbuf"}, {}),
                   Hold({"config", "newbuf"}, {}),
                   Hold({"config", "buf"}, {}), Hold({"config", "buf"}, {}),
                   Hold({"config", "buf"}, {}),
                   Hold({"config", "buf", "json_list"}, {}),
                   Hold({"config", "buf", "json_list"}, {}),
                   Hold({"config", "buf", "json_list"}, {}),
                   Hold({"config", "buf"}, {}), WithConfig >>
<1> HIDE DEF s, o
<1>1. Leads(s[1], o[1], o[2])
  BY DEF s, o, ParseJsonListConfig, Leads, Hold, Handles, Optional,
         WithConfig, Call, Make, Stmt
<1>2. Fits(s, o, 2)
  <2>1. s[2] = Unless(5) /\ Len(s) = 12
    BY DEF s, o, ParseJsonListConfig
  <2>2. s[2].op = "jump" /\ s[2].uses = {1, 5}
    BY <2>1 DEF Jump, Stmt, Unless
  <2>3. Weaker(o[2], o[3]) /\ Weaker(o[2], o[7])
    BY DEF o, Weaker, Hold, Handles, Optional
  <2>4. /\ 2 + 1 = 3 /\ 1 \in Int /\ 3 \in 1..(Len(s) + 1) /\ 2 + 5 = 7
        /\ 5 \in Int /\ 7 \in 1..(Len(s) + 1)
    BY <2>1
  <2> QED
    BY <2>2, <2>3, <2>4, Zenon DEF Fits
<1>3. Leads(s[3], o[3], o[4])
  BY DEF s, o, ParseJsonListConfig, Leads, Hold, Handles, Optional, Call, Stmt
<1>4. Leads(s[4], o[4], o[5])
  BY DEF s, o, ParseJsonListConfig, Leads, Hold, Handles, Optional, Call,
         Free, Stmt
<1>5. Leads(s[5], o[5], o[6])
  BY DEF s, o, ParseJsonListConfig, Leads, Hold, Handles, Optional, Call, Stmt
<1>6. Fits(s, o, 6)
  <2>1. s[6] = Back(4) /\ Len(s) = 12
    BY DEF s, o, ParseJsonListConfig
  <2>2. s[6].op = "jump" /\ s[6].uses = {-4}
    BY <2>1 DEF Back, Jump, Stmt
  <2>3. Weaker(o[6], o[2])
    BY DEF o, Weaker, Hold, Handles, Optional
  <2>4. 6 + (-4) = 2 /\ -4 \in Int /\ 2 \in 1..(Len(s) + 1)
    BY <2>1
  <2> QED
    BY <2>2, <2>3, <2>4, Zenon DEF Fits
<1>7. Fits(s, o, 7)
  <2>1. s[7] = Unless(5) /\ Len(s) = 12
    BY DEF s, o, ParseJsonListConfig
  <2>2. s[7].op = "jump" /\ s[7].uses = {1, 5}
    BY <2>1 DEF Jump, Stmt, Unless
  <2>3. Weaker(o[7], o[8]) /\ Weaker(o[7], o[12])
    BY DEF o, Weaker, Hold, Handles, Optional
  <2>4. /\ 7 + 1 = 8 /\ 1 \in Int /\ 8 \in 1..(Len(s) + 1) /\ 7 + 5 = 12
        /\ 5 \in Int /\ 12 \in 1..(Len(s) + 1)
    BY <2>1
  <2> QED
    BY <2>2, <2>3, <2>4, Zenon DEF Fits
<1>8. Leads(s[8], o[8], o[9])
  BY DEF s, o, ParseJsonListConfig, Leads, Hold, Handles, Optional, Call, Stmt
<1>9. Leads(s[9], o[9], o[10])
  BY DEF s, o, ParseJsonListConfig, Leads, Hold, Handles, Optional, Call,
         InsertJson5, Stmt
<1>10. Leads(s[10], o[10], o[11])
  BY DEF s, o, ParseJsonListConfig, Leads, Hold, Handles, Optional,
         MayExitFreeing, Stmt
<1>11. Leads(s[11], o[11], o[12])
  BY DEF s, o, ParseJsonListConfig, Leads, Hold, Handles, Optional, Call,
         Free, Stmt
<1>12. Leads(s[12], o[12], o[13])
  BY DEF s, o, ParseJsonListConfig, Leads, Hold, Handles, Optional,
         WithConfig, Call, Free, Stmt
<1>13. Len(s) = 12 /\ o[1] = WithConfig /\ o[13] = WithConfig
  BY DEF s, o, ParseJsonListConfig
<1>14. /\ Fits(s, o, 1) /\ Fits(s, o, 2) /\ Fits(s, o, 3) /\ Fits(s, o, 4)
       /\ Fits(s, o, 5) /\ Fits(s, o, 6) /\ Fits(s, o, 7) /\ Fits(s, o, 8)
       /\ Fits(s, o, 9) /\ Fits(s, o, 10) /\ Fits(s, o, 11) /\ Fits(s, o, 12)
  <2>1. /\ Fits(s, o, 1) /\ Fits(s, o, 2) /\ Fits(s, o, 3) /\ Fits(s, o, 4)
        /\ Fits(s, o, 5) /\ Fits(s, o, 6)
    BY <1>1, <1>2, <1>3, <1>4, <1>5, <1>6, Counting, Zenon DEF Fits
  <2>2. /\ Fits(s, o, 7) /\ Fits(s, o, 8) /\ Fits(s, o, 9) /\ Fits(s, o, 10)
        /\ Fits(s, o, 11) /\ Fits(s, o, 12)
    BY <1>7, <1>8, <1>9, <1>10, <1>11, <1>12, Counting, Zenon DEF Fits
  <2> QED
    BY <2>1, <2>2
<1>15. o[Len(s) + 1] = WithConfig
  BY <1>13, Counting, Zenon
<1>16. Outlined(s, WithConfig, WithConfig)
  BY <1>13, <1>14, <1>15 DEF Outlined, Follows
<1> QED
  BY <1>16 DEF s

LEMMA CfgOutlined == Outlined(ParseJsonListCfg, WithConfig, Configured)
<1> DEFINE s == ParseJsonListCfg
           o == << WithConfig, Configured, Configured, Configured, Configured,
                   Configured, Configured >>
<1> HIDE DEF s, o
<1>1. Leads(s[1], o[1], o[2])
  BY DEF s, o, ParseJsonListCfg, Leads, Hold, Handles, Optional, Configured,
         WithConfig, Call, Make, Stmt
<1>2. Fits(s, o, 2)
  <2>1. s[2] = Unless(5) /\ Len(s) = 6
    BY DEF s, o, ParseJsonListCfg
  <2>2. s[2].op = "jump" /\ s[2].uses = {1, 5}
    BY <2>1 DEF Jump, Stmt, Unless
  <2>3. Weaker(o[2], o[3]) /\ Weaker(o[2], o[7])
    BY DEF o, Weaker, Hold, Handles, Optional, Configured
  <2>4. /\ 2 + 1 = 3 /\ 1 \in Int /\ 3 \in 1..(Len(s) + 1) /\ 2 + 5 = 7
        /\ 5 \in Int /\ 7 \in 1..(Len(s) + 1)
    BY <2>1
  <2> QED
    BY <2>2, <2>3, <2>4, Zenon DEF Fits
<1>3. Leads(s[3], o[3], o[4])
  BY DEF s, o, ParseJsonListCfg, Leads, Hold, Handles, Optional, Configured,
         MayExit, Stmt
<1>4. Leads(s[4], o[4], o[5])
  BY DEF s, o, ParseJsonListCfg, Leads, Hold, Handles, Optional, Configured,
         Call, InsertJson5, Stmt
<1>5. Leads(s[5], o[5], o[6])
  BY DEF s, o, ParseJsonListCfg, Leads, Hold, Handles, Optional, Configured,
         MayExit, Stmt
<1>6. Fits(s, o, 6)
  <2>1. s[6] = Back(4) /\ Len(s) = 6
    BY DEF s, o, ParseJsonListCfg
  <2>2. s[6].op = "jump" /\ s[6].uses = {-4}
    BY <2>1 DEF Back, Jump, Stmt
  <2>3. Weaker(o[6], o[2])
    BY DEF o, Weaker, Hold, Handles, Optional, Configured
  <2>4. 6 + (-4) = 2 /\ -4 \in Int /\ 2 \in 1..(Len(s) + 1)
    BY <2>1
  <2> QED
    BY <2>2, <2>3, <2>4, Zenon DEF Fits
<1>7. Len(s) = 6 /\ o[1] = WithConfig /\ o[7] = Configured
  BY DEF s, o, ParseJsonListCfg
<1>8. /\ Fits(s, o, 1) /\ Fits(s, o, 2) /\ Fits(s, o, 3) /\ Fits(s, o, 4)
      /\ Fits(s, o, 5) /\ Fits(s, o, 6)
  BY <1>1, <1>2, <1>3, <1>4, <1>5, <1>6, Counting, Zenon DEF Fits
<1>9. o[Len(s) + 1] = Configured
  BY <1>7, Counting, Zenon
<1>10. Outlined(s, WithConfig, Configured)
  BY <1>7, <1>8, <1>9 DEF Outlined, Follows
<1> QED
  BY <1>10 DEF s

LEMMA FlagOutlined ==
  Outlined(<< Unless(3), InsertJson5({}), MayExit >>,
           Configured, Configured)
<1> DEFINE s == << Unless(3), InsertJson5({}), MayExit >>
           o == << Configured, Configured, Configured, Configured >>
<1> HIDE DEF s, o
<1>1. Fits(s, o, 1)
  <2>1. s[1] = Unless(3) /\ Len(s) = 3
    BY DEF s, o
  <2>2. s[1].op = "jump" /\ s[1].uses = {1, 3}
    BY <2>1 DEF Jump, Stmt, Unless
  <2>3. Weaker(o[1], o[2]) /\ Weaker(o[1], o[4])
    BY DEF o, Weaker, Hold, Handles, Optional, Configured
  <2>4. /\ 1 + 1 = 2 /\ 1 \in Int /\ 2 \in 1..(Len(s) + 1) /\ 1 + 3 = 4
        /\ 3 \in Int /\ 4 \in 1..(Len(s) + 1)
    BY <2>1
  <2> QED
    BY <2>2, <2>3, <2>4, Zenon DEF Fits
<1>2. Leads(s[2], o[2], o[3])
  BY DEF s, o, Leads, Hold, Handles, Optional, Configured, Call, InsertJson5,
         Stmt
<1>3. Leads(s[3], o[3], o[4])
  BY DEF s, o, Leads, Hold, Handles, Optional, Configured, MayExit, Stmt
<1>4. Len(s) = 3 /\ o[1] = Configured /\ o[4] = Configured
  BY DEF s, o
<1>5. Fits(s, o, 1) /\ Fits(s, o, 2) /\ Fits(s, o, 3)
  BY <1>1, <1>2, <1>3, Counting, Zenon DEF Fits
<1>6. o[Len(s) + 1] = Configured
  BY <1>4, Counting, Zenon
<1>7. Outlined(s, Configured, Configured)
  BY <1>4, <1>5, <1>6 DEF Outlined, Follows
<1> QED
  BY <1>7 DEF s

LEMMA PosArgsOutlined == Outlined(ParsePosArgs, Configured, Configured)
<1> DEFINE s == ParsePosArgs
           o == << Configured, Configured,
                   Hold({"config", "pos_args"}, {"unused buffer"}),
                   Hold({"config", "pos_args"}, {"unused buffer"}),
                   Hold({"config"}, {"unused buffer", "pos_args"}),
                   Hold({"config", "pos_args"}, {"unused buffer"}),
                   Hold({"config", "pos_args"}, {"unused buffer"}), Configured >>
<1> HIDE DEF s, o
<1>1. Leads(s[1], o[1], o[2])
  BY DEF s, o, ParsePosArgs, Leads, Hold, Handles, Optional, Configured,
         MayExit, Stmt
<1>2. Leads(s[2], o[2], o[3])
  BY DEF s, o, ParsePosArgs, Leads, Hold, Handles, Optional, Configured, Call,
         Make, Stmt
<1>3. Fits(s, o, 3)
  <2>1. s[3] = Unless(2) /\ Len(s) = 7
    BY DEF s, o, ParsePosArgs
  <2>2. s[3].op = "jump" /\ s[3].uses = {1, 2}
    BY <2>1 DEF Jump, Stmt, Unless
  <2>3. Weaker(o[3], o[4]) /\ Weaker(o[3], o[5])
    BY DEF o, Weaker, Hold, Handles, Optional
  <2>4. /\ 3 + 1 = 4 /\ 1 \in Int /\ 4 \in 1..(Len(s) + 1) /\ 3 + 2 = 5
        /\ 2 \in Int /\ 5 \in 1..(Len(s) + 1)
    BY <2>1
  <2> QED
    BY <2>2, <2>3, <2>4, Zenon DEF Fits
<1>4. Leads(s[4], o[4], o[5])
  BY DEF s, o, ParsePosArgs, Leads, Hold, Handles, Optional, Call, Free, Stmt
<1>5. Leads(s[5], o[5], o[6])
  BY DEF s, o, ParsePosArgs, Leads, Hold, Handles, Optional, OrExit, Stmt
<1>6. Leads(s[6], o[6], o[7])
  BY DEF s, o, ParsePosArgs, Leads, Hold, Handles, Optional, MayExitFreeing,
         Stmt
<1>7. Leads(s[7], o[7], o[8])
  BY DEF s, o, ParsePosArgs, Leads, Hold, Handles, Optional, Configured, Call,
         Free, Stmt
<1>8. Len(s) = 7 /\ o[1] = Configured /\ o[8] = Configured
  BY DEF s, o, ParsePosArgs
<1>9. /\ Fits(s, o, 1) /\ Fits(s, o, 2) /\ Fits(s, o, 3) /\ Fits(s, o, 4)
      /\ Fits(s, o, 5) /\ Fits(s, o, 6) /\ Fits(s, o, 7)
  BY <1>1, <1>2, <1>3, <1>4, <1>5, <1>6, <1>7, Counting, Zenon DEF Fits
<1>10. o[Len(s) + 1] = Configured
  BY <1>8, Counting, Zenon
<1>11. Outlined(s, Configured, Configured)
  BY <1>8, <1>9, <1>10 DEF Outlined, Follows
<1> QED
  BY <1>11 DEF s

LEMMA OpenOutlined ==
  Outlined(<< Open, OrReturn("session", {}), KeyExpr,
              OrReturn("keyexpr", {"session"}) >>,
           Configured, Opened)
<1> DEFINE s == << Open, OrReturn("session", {}), KeyExpr,
                    OrReturn("keyexpr", {"session"}) >>
           o == << Configured, Hold({}, {"unused buffer", "session"}),
                   InSession, Hold({"session"}, {"unused buffer", "keyexpr"}),
                   Opened >>
<1> HIDE DEF s, o
<1>1. Leads(s[1], o[1], o[2])
  BY DEF s, o, Leads, Hold, Handles, Optional, Configured, Open, Stmt, Try
<1>2. Leads(s[2], o[2], o[3])
  BY DEF s, o, Leads, Hold, Handles, Optional, InSession, OrReturn, Stmt
<1>3. Leads(s[3], o[3], o[4])
  BY DEF s, o, Leads, Hold, Handles, Optional, InSession, KeyExpr, Stmt, Try
<1>4. Leads(s[4], o[4], o[5])
  BY DEF s, o, Leads, Hold, Handles, Optional, Opened, OrReturn, Stmt
<1>5. Len(s) = 4 /\ o[1] = Configured /\ o[5] = Opened
  BY DEF s, o
<1>6. Fits(s, o, 1) /\ Fits(s, o, 2) /\ Fits(s, o, 3) /\ Fits(s, o, 4)
  BY <1>1, <1>2, <1>3, <1>4, Counting, Zenon DEF Fits
<1>7. o[Len(s) + 1] = Opened
  BY <1>5, Counting, Zenon
<1>8. Outlined(s, Configured, Opened)
  BY <1>5, <1>6, <1>7 DEF Outlined, Follows
<1> QED
  BY <1>8 DEF s

LEMMA PutOutlined ==
  Outlined(<< Make("payload"), SessionPut, Free("keyexpr"), Free("session") >>,
           Opened, AtEnd)
<1> DEFINE s == << Make("payload"), SessionPut, Free("keyexpr"), Free("session") >>
           o == << Opened,
                   Hold({"session", "keyexpr", "payload"}, {"unused buffer"}),
                   Opened, InSession, AtEnd >>
<1> HIDE DEF s, o
<1>1. Leads(s[1], o[1], o[2])
  BY DEF s, o, Leads, Hold, Handles, Optional, Opened, Call, Make, Stmt
<1>2. Leads(s[2], o[2], o[3])
  BY DEF s, o, Leads, Hold, Handles, Optional, Opened, Call, SessionPut, Stmt
<1>3. Leads(s[3], o[3], o[4])
  BY DEF s, o, Leads, Hold, Handles, Optional, InSession, Opened, Call, Free,
         Stmt
<1>4. Leads(s[4], o[4], o[5])
  BY DEF s, o, Leads, Hold, Handles, Optional, AtEnd, InSession, Call, Free,
         Stmt
<1>5. Len(s) = 4 /\ o[1] = Opened /\ o[5] = AtEnd
  BY DEF s, o
<1>6. Fits(s, o, 1) /\ Fits(s, o, 2) /\ Fits(s, o, 3) /\ Fits(s, o, 4)
  BY <1>1, <1>2, <1>3, <1>4, Counting, Zenon DEF Fits
<1>7. o[Len(s) + 1] = AtEnd
  BY <1>5, Counting, Zenon
<1>8. Outlined(s, Opened, AtEnd)
  BY <1>5, <1>6, <1>7 DEF Outlined, Follows
<1> QED
  BY <1>8 DEF s

LEMMA DeleteOutlined ==
  Outlined(<< Call({"session", "keyexpr"}, {}, {}), Free("keyexpr"),
              Free("session") >>,
           Opened, AtEnd)
<1> DEFINE s == << Call({"session", "keyexpr"}, {}, {}), Free("keyexpr"),
                    Free("session") >>
           o == << Opened, Opened, InSession, AtEnd >>
<1> HIDE DEF s, o
<1>1. Leads(s[1], o[1], o[2])
  BY DEF s, o, Leads, Hold, Handles, Optional, Opened, Call, Stmt
<1>2. Leads(s[2], o[2], o[3])
  BY DEF s, o, Leads, Hold, Handles, Optional, InSession, Opened, Call, Free,
         Stmt
<1>3. Leads(s[3], o[3], o[4])
  BY DEF s, o, Leads, Hold, Handles, Optional, AtEnd, InSession, Call, Free,
         Stmt
<1>4. Len(s) = 3 /\ o[1] = Opened /\ o[4] = AtEnd
  BY DEF s, o
<1>5. Fits(s, o, 1) /\ Fits(s, o, 2) /\ Fits(s, o, 3)
  BY <1>1, <1>2, <1>3, Counting, Zenon DEF Fits
<1>6. o[Len(s) + 1] = AtEnd
  BY <1>4, Counting, Zenon
<1>7. Outlined(s, Opened, AtEnd)
  BY <1>4, <1>5, <1>6 DEF Outlined, Follows
<1> QED
  BY <1>7 DEF s

LEMMA PubOutlined ==
  Outlined(<< Declare, OrReturn("entity", {"session"}), Make("payload"),
              Make("attachment"), PublisherPut, Back(3) >>,
           Opened, AtEnd)
<1> DEFINE s == << Declare, OrReturn("entity", {"session"}), Make("payload"),
                    Make("attachment"), PublisherPut, Back(3) >>
           o == << Opened, Hold({"session"}, {"unused buffer", "entity"}),
                   Hold({"session", "entity"}, {"unused buffer"}),
                   Hold({"session", "entity", "payload"}, {"unused buffer"}),
                   Hold({"session", "entity", "payload", "attachment"}, {"unused buffer"}),
                   Hold({"session", "entity"}, {"unused buffer"}), AtEnd >>
<1> HIDE DEF s, o
<1>1. Leads(s[1], o[1], o[2])
  BY DEF s, o, Leads, Hold, Handles, Optional, Opened, Declare, Stmt, Try
<1>2. Leads(s[2], o[2], o[3])
  BY DEF s, o, Leads, Hold, Handles, Optional, OrReturn, Stmt
<1>3. Leads(s[3], o[3], o[4])
  BY DEF s, o, Leads, Hold, Handles, Optional, Call, Make, Stmt
<1>4. Leads(s[4], o[4], o[5])
  BY DEF s, o, Leads, Hold, Handles, Optional, Call, Make, Stmt
<1>5. Leads(s[5], o[5], o[6])
  BY DEF s, o, Leads, Hold, Handles, Optional, Call, PublisherPut, Stmt
<1>6. Fits(s, o, 6)
  <2>1. s[6] = Back(3) /\ Len(s) = 6
    BY DEF s, o
  <2>2. s[6].op = "jump" /\ s[6].uses = {-3}
    BY <2>1 DEF Back, Jump, Stmt
  <2>3. Weaker(o[6], o[3])
    BY DEF o, Weaker, Hold, Handles, Optional
  <2>4. 6 + (-3) = 3 /\ -3 \in Int /\ 3 \in 1..(Len(s) + 1)
    BY <2>1
  <2> QED
    BY <2>2, <2>3, <2>4, Zenon DEF Fits
<1>7. Len(s) = 6 /\ o[1] = Opened /\ o[7] = AtEnd
  BY DEF s, o
<1>8. /\ Fits(s, o, 1) /\ Fits(s, o, 2) /\ Fits(s, o, 3) /\ Fits(s, o, 4)
      /\ Fits(s, o, 5) /\ Fits(s, o, 6)
  BY <1>1, <1>2, <1>3, <1>4, <1>5, <1>6, Counting, Zenon DEF Fits
<1>9. o[Len(s) + 1] = AtEnd
  BY <1>7, Counting, Zenon
<1>10. Outlined(s, Opened, AtEnd)
  BY <1>7, <1>8, <1>9 DEF Outlined, Follows
<1> QED
  BY <1>10 DEF s

LEMMA SubOutlined ==
  Outlined(<< Declare, OrReturn("entity", {"session"}), Use("entity"), Back(1) >>,
           Opened, AtEnd)
<1> DEFINE s == << Declare, OrReturn("entity", {"session"}), Use("entity"), Back(1) >>
           o == << Opened, Hold({"session"}, {"unused buffer", "entity"}),
                   Hold({"session", "entity"}, {"unused buffer"}),
                   Hold({"session", "entity"}, {"unused buffer"}), AtEnd >>
<1> HIDE DEF s, o
<1>1. Leads(s[1], o[1], o[2])
  BY DEF s, o, Leads, Hold, Handles, Optional, Opened, Declare, Stmt, Try
<1>2. Leads(s[2], o[2], o[3])
  BY DEF s, o, Leads, Hold, Handles, Optional, OrReturn, Stmt
<1>3. Leads(s[3], o[3], o[4])
  BY DEF s, o, Leads, Hold, Handles, Optional, Call, Stmt, Use
<1>4. Fits(s, o, 4)
  <2>1. s[4] = Back(1) /\ Len(s) = 4
    BY DEF s, o
  <2>2. s[4].op = "jump" /\ s[4].uses = {-1}
    BY <2>1 DEF Back, Jump, Stmt
  <2>3. Weaker(o[4], o[3])
    BY DEF o, Weaker, Hold, Handles, Optional
  <2>4. 4 + (-1) = 3 /\ -1 \in Int /\ 3 \in 1..(Len(s) + 1)
    BY <2>1
  <2> QED
    BY <2>2, <2>3, <2>4, Zenon DEF Fits
<1>5. Len(s) = 4 /\ o[1] = Opened /\ o[5] = AtEnd
  BY DEF s, o
<1>6. Fits(s, o, 1) /\ Fits(s, o, 2) /\ Fits(s, o, 3) /\ Fits(s, o, 4)
  BY <1>1, <1>2, <1>3, <1>4, Counting, Zenon DEF Fits
<1>7. o[Len(s) + 1] = AtEnd
  BY <1>5, Counting, Zenon
<1>8. Outlined(s, Opened, AtEnd)
  BY <1>5, <1>6, <1>7 DEF Outlined, Follows
<1> QED
  BY <1>8 DEF s

LEMMA GetOutlined ==
  Outlined(<< Make("query payload"), Make("signal"),
              Call({"session", "keyexpr", "signal"}, {"query payload"}, {}),
              Free("keyexpr"), Free("signal"), Free("session") >>,
           Opened, AtEnd)
<1> DEFINE s == << Make("query payload"), Make("signal"),
                    Call({"session", "keyexpr", "signal"}, {"query payload"}, {}),
                    Free("keyexpr"), Free("signal"), Free("session") >>
           o == << Opened,
                   Hold({"session", "keyexpr", "query payload"}, {"unused buffer"}),
                   Hold({"session", "keyexpr", "query payload", "signal"}, {"unused buffer"}),
                   Hold({"session", "keyexpr", "signal"}, {"unused buffer"}),
                   Hold({"session", "signal"}, {"unused buffer"}), InSession,
                   AtEnd >>
<1> HIDE DEF s, o
<1>1. Leads(s[1], o[1], o[2])
  BY DEF s, o, Leads, Hold, Handles, Optional, Opened, Call, Make, Stmt
<1>2. Leads(s[2], o[2], o[3])
  BY DEF s, o, Leads, Hold, Handles, Optional, Call, Make, Stmt
<1>3. Leads(s[3], o[3], o[4])
  BY DEF s, o, Leads, Hold, Handles, Optional, Call, Stmt
<1>4. Leads(s[4], o[4], o[5])
  BY DEF s, o, Leads, Hold, Handles, Optional, Call, Free, Stmt
<1>5. Leads(s[5], o[5], o[6])
  BY DEF s, o, Leads, Hold, Handles, Optional, InSession, Call, Free, Stmt
<1>6. Leads(s[6], o[6], o[7])
  BY DEF s, o, Leads, Hold, Handles, Optional, AtEnd, InSession, Call, Free,
         Stmt
<1>7. Len(s) = 6 /\ o[1] = Opened /\ o[7] = AtEnd
  BY DEF s, o
<1>8. /\ Fits(s, o, 1) /\ Fits(s, o, 2) /\ Fits(s, o, 3) /\ Fits(s, o, 4)
      /\ Fits(s, o, 5) /\ Fits(s, o, 6)
  BY <1>1, <1>2, <1>3, <1>4, <1>5, <1>6, Counting, Zenon DEF Fits
<1>9. o[Len(s) + 1] = AtEnd
  BY <1>7, Counting, Zenon
<1>10. Outlined(s, Opened, AtEnd)
  BY <1>7, <1>8, <1>9 DEF Outlined, Follows
<1> QED
  BY <1>10 DEF s

LEMMA PubThrOutlined ==
  Outlined(<< Make("block"), Open, OrReturn("session", {"block"}),
              Make("keyexpr"), Declare,
              OrReturn("entity", {"session", "block"}), Make("payload"),
              Call({"payload"}, {}, {"clone"}), Call({"entity"}, {"clone"}, {}),
              Back(2) >>,
           Configured, AtEnd)
<1> DEFINE s == << Make("block"), Open, OrReturn("session", {"block"}),
                    Make("keyexpr"), Declare,
                    OrReturn("entity", {"session", "block"}), Make("payload"),
                    Call({"payload"}, {}, {"clone"}), Call({"entity"}, {"clone"}, {}),
                    Back(2) >>
           o == << Configured, Hold({"config", "block"}, {"unused buffer"}),
                   Hold({"block"}, {"unused buffer", "session"}),
                   Hold({"block", "session"}, {"unused buffer"}),
                   Hold({"block", "session", "keyexpr"}, {"unused buffer"}),
                   Hold({"block", "session"}, {"unused buffer", "entity"}),
                   Hold({"block", "session", "entity"}, {"unused buffer"}),
                   Hold({"block", "session", "entity", "payload"}, {"unused buffer"}),
                   Hold({"block", "session", "entity", "payload", "clone"}, {"unused buffer"}),
                   Hold({"block", "session", "entity", "payload"}, {"unused buffer"}),
                   AtEnd >>
<1> HIDE DEF s, o
<1>1. Leads(s[1], o[1], o[2])
  BY DEF s, o, Leads, Hold, Handles, Optional, Configured, Call, Make, Stmt
<1>2. Leads(s[2], o[2], o[3])
  BY DEF s, o, Leads, Hold, Handles, Optional, Open, Stmt, Try
<1>3. Leads(s[3], o[3], o[4])
  BY DEF s, o, Leads, Hold, Handles, Optional, OrReturn, Stmt
<1>4. Leads(s[4], o[4], o[5])
  BY DEF s, o, Leads, Hold, Handles, Optional, Call, Make, Stmt
<1>5. Leads(s[5], o[5], o[6])
  BY DEF s, o, Leads, Hold, Handles, Optional, Declare, Stmt, Try
<1>6. Leads(s[6], o[6], o[7])
  BY DEF s, o, Leads, Hold, Handles, Optional, OrReturn, Stmt
<1>7. Leads(s[7], o[7], o[8])
  BY DEF s, o, Leads, Hold, Handles, Optional, Call, Make, Stmt
<1>8. Leads(s[8], o[8], o[9])
  <2>1. /\ s[8] = Call({"payload"}, {}, {"clone"})
        /\ o[8] = Hold({"block", "session", "entity", "payload"}, {"unused buffer"})
        /\ o[9] = Hold({"block", "session", "entity", "payload", "clone"}, {"unused buffer"})
    BY DEF s, o
  <2>2. Leads(Call({"payload"}, {}, {"clone"}),
              Hold({"block", "session", "entity", "payload"}, {"unused buffer"}),
              Hold({"block", "session", "entity", "payload", "clone"}, {"unused buffer"}))
    BY DEF Leads, Hold, Handles, Optional, Call, Stmt
  <2> QED
    BY <2>1, <2>2, Zenon
<1>9. Leads(s[9], o[9], o[10])
  <2>1. /\ s[9] = Call({"entity"}, {"clone"}, {})
        /\ o[9] = Hold({"block", "session", "entity", "payload", "clone"}, {"unused buffer"})
        /\ o[10] = Hold({"block", "session", "entity", "payload"}, {"unused buffer"})
    BY DEF s, o
  <2>2. Leads(Call({"entity"}, {"clone"}, {}),
              Hold({"block", "session", "entity", "payload", "clone"}, {"unused buffer"}),
              Hold({"block", "session", "entity", "payload"}, {"unused buffer"}))
    BY DEF Leads, Hold, Handles, Optional, Call, Stmt
  <2> QED
    BY <2>1, <2>2, Zenon
<1>10. Fits(s, o, 10)
  <2>1. s[10] = Back(2) /\ Len(s) = 10
    BY DEF s, o
  <2>2. s[10].op = "jump" /\ s[10].uses = {-2}
    BY <2>1 DEF Back, Jump, Stmt
  <2>3. Weaker(o[10], o[8])
    BY DEF o, Weaker, Hold, Handles, Optional
  <2>4. 10 + (-2) = 8 /\ -2 \in Int /\ 8 \in 1..(Len(s) + 1)
    BY <2>1
  <2> QED
    BY <2>2, <2>3, <2>4, Zenon DEF Fits
<1>11. Len(s) = 10 /\ o[1] = Configured /\ o[11] = AtEnd
  BY DEF s, o
<1>12. /\ Fits(s, o, 1) /\ Fits(s, o, 2) /\ Fits(s, o, 3) /\ Fits(s, o, 4)
       /\ Fits(s, o, 5) /\ Fits(s, o, 6) /\ Fits(s, o, 7) /\ Fits(s, o, 8)
       /\ Fits(s, o, 9) /\ Fits(s, o, 10)
  BY <1>1, <1>2, <1>3, <1>4, <1>5, <1>6, <1>7, <1>8, <1>9, <1>10, Counting,
     Zenon DEF Fits
<1>13. o[Len(s) + 1] = AtEnd
  BY <1>11, Counting, Zenon
<1>14. Outlined(s, Configured, AtEnd)
  BY <1>11, <1>12, <1>13 DEF Outlined, Follows
<1> QED
  BY <1>14 DEF s

LEMMA SubThrOutlined ==
  Outlined(<< Open, OrReturn("session", {}), Make("keyexpr"), Make("block"),
              Try({"session"}, {"keyexpr", "block"}, {"entity"}),
              OrReturn("entity", {"session"}), Use("entity"), Back(1) >>,
           Configured, AtEnd)
<1> DEFINE s == << Open, OrReturn("session", {}), Make("keyexpr"), Make("block"),
                    Try({"session"}, {"keyexpr", "block"}, {"entity"}),
                    OrReturn("entity", {"session"}), Use("entity"), Back(1) >>
           o == << Configured, Hold({}, {"unused buffer", "session"}),
                   InSession, Opened,
                   Hold({"session", "keyexpr", "block"}, {"unused buffer"}),
                   Hold({"session"}, {"unused buffer", "entity"}),
                   Hold({"session", "entity"}, {"unused buffer"}),
                   Hold({"session", "entity"}, {"unused buffer"}), AtEnd >>
<1> HIDE DEF s, o
<1>1. Leads(s[1], o[1], o[2])
  BY DEF s, o, Leads, Hold, Handles, Optional, Configured, Open, Stmt, Try
<1>2. Leads(s[2], o[2], o[3])
  BY DEF s, o, Leads, Hold, Handles, Optional, InSession, OrReturn, Stmt
<1>3. Leads(s[3], o[3], o[4])
  BY DEF s, o, Leads, Hold, Handles, Optional, InSession, Opened, Call, Make,
         Stmt
<1>4. Leads(s[4], o[4], o[5])
  BY DEF s, o, Leads, Hold, Handles, Optional, Opened, Call, Make, Stmt
<1>5. Leads(s[5], o[5], o[6])
  BY DEF s, o, Leads, Hold, Handles, Optional, Stmt, Try
<1>6. Leads(s[6], o[6], o[7])
  BY DEF s, o, Leads, Hold, Handles, Optional, OrReturn, Stmt
<1>7. Leads(s[7], o[7], o[8])
  <2>1. /\ s[7] = Use("entity")
        /\ o[7] = Hold({"session", "entity"}, {"unused buffer"})
        /\ o[8] = Hold({"session", "entity"}, {"unused buffer"})
    BY DEF s, o
  <2>2. Leads(Use("entity"),
              Hold({"session", "entity"}, {"unused buffer"}),
              Hold({"session", "entity"}, {"unused buffer"}))
    BY DEF Leads, Hold, Handles, Optional, Call, Stmt, Use
  <2> QED
    BY <2>1, <2>2, Zenon
<1>8. Fits(s, o, 8)
  <2>1. s[8] = Back(1) /\ Len(s) = 8
    BY DEF s, o
  <2>2. s[8].op = "jump" /\ s[8].uses = {-1}
    BY <2>1 DEF Back, Jump, Stmt
  <2>3. Weaker(o[8], o[7])
    BY DEF o, Weaker, Hold, Handles, Optional
  <2>4. 8 + (-1) = 7 /\ -1 \in Int /\ 7 \in 1..(Len(s) + 1)
    BY <2>1
  <2> QED
    BY <2>2, <2>3, <2>4, Zenon DEF Fits
<1>9. Len(s) = 8 /\ o[1] = Configured /\ o[9] = AtEnd
  BY DEF s, o
<1>10. /\ Fits(s, o, 1) /\ Fits(s, o, 2) /\ Fits(s, o, 3) /\ Fits(s, o, 4)
       /\ Fits(s, o, 5) /\ Fits(s, o, 6) /\ Fits(s, o, 7) /\ Fits(s, o, 8)
  BY <1>1, <1>2, <1>3, <1>4, <1>5, <1>6, <1>7, <1>8, Counting, Zenon DEF Fits
<1>11. o[Len(s) + 1] = AtEnd
  BY <1>9, Counting, Zenon
<1>12. Outlined(s, Configured, AtEnd)
  BY <1>9, <1>10, <1>11 DEF Outlined, Follows
<1> QED
  BY <1>12 DEF s

LEMMA InfoOutlined ==
  Outlined(<< Open, OrReturn("session", {}), Make("string"), Free("string"),
              Call({"session"}, {}, {"array"}) >>,
           Configured, Listed)
<1> DEFINE s == << Open, OrReturn("session", {}), Make("string"), Free("string"),
                    Call({"session"}, {}, {"array"}) >>
           o == << Configured, Hold({}, {"unused buffer", "session"}),
                   InSession, Hold({"session", "string"}, {"unused buffer"}),
                   InSession, Listed >>
<1> HIDE DEF s, o
<1>1. Leads(s[1], o[1], o[2])
  BY DEF s, o, Leads, Hold, Handles, Optional, Configured, Open, Stmt, Try
<1>2. Leads(s[2], o[2], o[3])
  BY DEF s, o, Leads, Hold, Handles, Optional, InSession, OrReturn, Stmt
<1>3. Leads(s[3], o[3], o[4])
  BY DEF s, o, Leads, Hold, Handles, Optional, InSession, Call, Make, Stmt
<1>4. Leads(s[4], o[4], o[5])
  BY DEF s, o, Leads, Hold, Handles, Optional, InSession, Call, Free, Stmt
<1>5. Leads(s[5], o[5], o[6])
  BY DEF s, o, Leads, Hold, Handles, Optional, InSession, Listed, Call, Stmt
<1>6. Len(s) = 5 /\ o[1] = Configured /\ o[6] = Listed
  BY DEF s, o
<1>7. /\ Fits(s, o, 1) /\ Fits(s, o, 2) /\ Fits(s, o, 3) /\ Fits(s, o, 4)
      /\ Fits(s, o, 5)
  BY <1>1, <1>2, <1>3, <1>4, <1>5, Counting, Zenon DEF Fits
<1>8. o[Len(s) + 1] = Listed
  BY <1>6, Counting, Zenon
<1>9. Outlined(s, Configured, Listed)
  BY <1>6, <1>7, <1>8 DEF Outlined, Follows
<1> QED
  BY <1>9 DEF s

LEMMA PrintOutlined == Outlined(PrintZidArray, Listed, InSession)
<1> DEFINE s == PrintZidArray
           o == << Listed,
                   Hold({"session", "array", "string"}, {"unused buffer"}),
                   Listed, InSession >>
<1> HIDE DEF s, o
<1>1. Leads(s[1], o[1], o[2])
  BY DEF s, o, PrintZidArray, Leads, Hold, Handles, Optional, Listed, Call,
         Make, Stmt
<1>2. Leads(s[2], o[2], o[3])
  BY DEF s, o, PrintZidArray, Leads, Hold, Handles, Optional, Listed, Call,
         Free, Stmt
<1>3. Leads(s[3], o[3], o[4])
  BY DEF s, o, PrintZidArray, Leads, Hold, Handles, Optional, InSession,
         Listed, Call, Free, Stmt
<1>4. Len(s) = 3 /\ o[1] = Listed /\ o[4] = InSession
  BY DEF s, o, PrintZidArray
<1>5. Fits(s, o, 1) /\ Fits(s, o, 2) /\ Fits(s, o, 3)
  BY <1>1, <1>2, <1>3, Counting, Zenon DEF Fits
<1>6. o[Len(s) + 1] = InSession
  BY <1>4, Counting, Zenon
<1>7. Outlined(s, Listed, InSession)
  BY <1>4, <1>5, <1>6 DEF Outlined, Follows
<1> QED
  BY <1>7 DEF s

LEMMA PeersOutlined ==
  Outlined(<< Call({"session"}, {}, {"array"}) >>,
           InSession, Listed)
<1> DEFINE s == << Call({"session"}, {}, {"array"}) >>
           o == << InSession, Listed >>
<1> HIDE DEF s, o
<1>1. Leads(s[1], o[1], o[2])
  BY DEF s, o, Leads, Hold, Handles, Optional, InSession, Listed, Call, Stmt
<1>2. Len(s) = 1 /\ o[1] = InSession /\ o[2] = Listed
  BY DEF s, o
<1>3. Fits(s, o, 1)
  BY <1>1, Counting, Zenon DEF Fits
<1>4. o[Len(s) + 1] = Listed
  BY <1>2, Counting, Zenon
<1>5. Outlined(s, InSession, Listed)
  BY <1>2, <1>3, <1>4 DEF Outlined, Follows
<1> QED
  BY <1>5 DEF s

LEMMA CloseOutlined ==
  Outlined(<< Free("session") >>,
           InSession, AtEnd)
<1> DEFINE s == << Free("session") >>
           o == << InSession, AtEnd >>
<1> HIDE DEF s, o
<1>1. Leads(s[1], o[1], o[2])
  BY DEF s, o, Leads, Hold, Handles, Optional, AtEnd, InSession, Call, Free,
         Stmt
<1>2. Len(s) = 1 /\ o[1] = InSession /\ o[2] = AtEnd
  BY DEF s, o
<1>3. Fits(s, o, 1)
  BY <1>1, Counting, Zenon DEF Fits
<1>4. o[Len(s) + 1] = AtEnd
  BY <1>2, Counting, Zenon
<1>5. Outlined(s, InSession, AtEnd)
  BY <1>2, <1>3, <1>4 DEF Outlined, Follows
<1> QED
  BY <1>5 DEF s

LEMMA ScoutOutlined == Outlined(MainScout, Nothing, AtEnd)
<1> DEFINE s == MainScout
           o == << Nothing, WithConfig, Hold({"config"}, {"entity"}),
                   Hold({}, {"entity"}), Hold({"entity"}, {}), AtEnd >>
<1> HIDE DEF s, o
<1>1. Leads(s[1], o[1], o[2])
  BY DEF s, o, MainScout, Leads, Hold, Handles, Optional, Nothing, WithConfig,
         Call, Make, Stmt
<1>2. Leads(s[2], o[2], o[3])
  BY DEF s, o, MainScout, Leads, Hold, Handles, Optional, WithConfig, Stmt,
         Try
<1>3. Leads(s[3], o[3], o[4])
  BY DEF s, o, MainScout, Leads, Hold, Handles, Optional, Call, Free, Stmt
<1>4. Leads(s[4], o[4], o[5])
  BY DEF s, o, MainScout, Leads, Hold, Handles, Optional, OrReturn, Stmt
<1>5. Leads(s[5], o[5], o[6])
  BY DEF s, o, MainScout, Leads, Hold, Handles, Optional, AtEnd, Call, Free,
         Stmt
<1>6. Len(s) = 5 /\ o[1] = Nothing /\ o[6] = AtEnd
  BY DEF s, o, MainScout
<1>7. /\ Fits(s, o, 1) /\ Fits(s, o, 2) /\ Fits(s, o, 3) /\ Fits(s, o, 4)
      /\ Fits(s, o, 5)
  BY <1>1, <1>2, <1>3, <1>4, <1>5, Counting, Zenon DEF Fits
<1>8. o[Len(s) + 1] = AtEnd
  BY <1>6, Counting, Zenon
<1>9. Outlined(s, Nothing, AtEnd)
  BY <1>6, <1>7, <1>8 DEF Outlined, Follows
<1> QED
  BY <1>9 DEF s

LEMMA SampleHandlerOutlined == Outlined(SampleHandler, Nothing, AtEnd)
<1> DEFINE s == SampleHandler
           o == << Nothing, Hold({"string"}, {}),
                   Hold({"string", "bytes"}, {}),
                   Hold({"string", "bytes", "text"}, {}),
                   Hold({"string", "bytes"}, {}), Hold({"bytes"}, {}), AtEnd >>
<1> HIDE DEF s, o
<1>1. Leads(s[1], o[1], o[2])
  BY DEF s, o, SampleHandler, Leads, Hold, Handles, Optional, Nothing, Call,
         Make, Stmt
<1>2. Leads(s[2], o[2], o[3])
  BY DEF s, o, SampleHandler, Leads, Hold, Handles, Optional, Call, Make, Stmt
<1>3. Leads(s[3], o[3], o[4])
  BY DEF s, o, SampleHandler, Leads, Hold, Handles, Optional, Call, Make, Stmt
<1>4. Leads(s[4], o[4], o[5])
  BY DEF s, o, SampleHandler, Leads, Hold, Handles, Optional, Call, Free, Stmt
<1>5. Leads(s[5], o[5], o[6])
  BY DEF s, o, SampleHandler, Leads, Hold, Handles, Optional, Call, Free, Stmt
<1>6. Leads(s[6], o[6], o[7])
  BY DEF s, o, SampleHandler, Leads, Hold, Handles, Optional, AtEnd, Call,
         Free, Stmt
<1>7. Len(s) = 6 /\ o[1] = Nothing /\ o[7] = AtEnd
  BY DEF s, o, SampleHandler
<1>8. /\ Fits(s, o, 1) /\ Fits(s, o, 2) /\ Fits(s, o, 3) /\ Fits(s, o, 4)
      /\ Fits(s, o, 5) /\ Fits(s, o, 6)
  BY <1>1, <1>2, <1>3, <1>4, <1>5, <1>6, Counting, Zenon DEF Fits
<1>9. o[Len(s) + 1] = AtEnd
  BY <1>7, Counting, Zenon
<1>10. Outlined(s, Nothing, AtEnd)
  BY <1>7, <1>8, <1>9 DEF Outlined, Follows
<1> QED
  BY <1>10 DEF s

LEMMA ReplyHandlerOutlined == Outlined(ReplyHandler, Nothing, AtEnd)
<1> DEFINE s == ReplyHandler
           o == << Nothing, Hold({}, {"string"}), Hold({"string"}, {}),
                   Hold({"string", "bytes"}, {}), Hold({"bytes"}, {}), AtEnd >>
<1> HIDE DEF s, o
<1>1. Leads(s[1], o[1], o[2])
  BY DEF s, o, ReplyHandler, Leads, Hold, Handles, Optional, Nothing, Stmt,
         Try
<1>2. Leads(s[2], o[2], o[3])
  BY DEF s, o, ReplyHandler, Leads, Hold, Handles, Optional, OrReturn, Stmt
<1>3. Leads(s[3], o[3], o[4])
  BY DEF s, o, ReplyHandler, Leads, Hold, Handles, Optional, Call, Make, Stmt
<1>4. Leads(s[4], o[4], o[5])
  BY DEF s, o, ReplyHandler, Leads, Hold, Handles, Optional, Call, Free, Stmt
<1>5. Leads(s[5], o[5], o[6])
  BY DEF s, o, ReplyHandler, Leads, Hold, Handles, Optional, AtEnd, Call,
         Free, Stmt
<1>6. Len(s) = 5 /\ o[1] = Nothing /\ o[6] = AtEnd
  BY DEF s, o, ReplyHandler
<1>7. /\ Fits(s, o, 1) /\ Fits(s, o, 2) /\ Fits(s, o, 3) /\ Fits(s, o, 4)
      /\ Fits(s, o, 5)
  BY <1>1, <1>2, <1>3, <1>4, <1>5, Counting, Zenon DEF Fits
<1>8. o[Len(s) + 1] = AtEnd
  BY <1>6, Counting, Zenon
<1>9. Outlined(s, Nothing, AtEnd)
  BY <1>6, <1>7, <1>8 DEF Outlined, Follows
<1> QED
  BY <1>9 DEF s

LEMMA QueryHandlerOutlined == Outlined(QueryHandler, Nothing, AtEnd)
<1> DEFINE s == QueryHandler
           o == << Nothing, Hold({"string"}, {}),
                   Hold({"string", "array"}, {}),
                   Hold({"string", "array", "text"}, {}),
                   Hold({"string", "array"}, {}),
                   Hold({"string", "array", "payload"}, {}),
                   Hold({"string", "array"}, {}), Hold({"array"}, {}), AtEnd >>
<1> HIDE DEF s, o
<1>1. Leads(s[1], o[1], o[2])
  BY DEF s, o, QueryHandler, Leads, Hold, Handles, Optional, Nothing, Call,
         Make, Stmt
<1>2. Leads(s[2], o[2], o[3])
  BY DEF s, o, QueryHandler, Leads, Hold, Handles, Optional, Call, Make, Stmt
<1>3. Leads(s[3], o[3], o[4])
  BY DEF s, o, QueryHandler, Leads, Hold, Handles, Optional, Call, Make, Stmt
<1>4. Leads(s[4], o[4], o[5])
  BY DEF s, o, QueryHandler, Leads, Hold, Handles, Optional, Call, Free, Stmt
<1>5. Leads(s[5], o[5], o[6])
  BY DEF s, o, QueryHandler, Leads, Hold, Handles, Optional, Call, Make, Stmt
<1>6. Leads(s[6], o[6], o[7])
  BY DEF s, o, QueryHandler, Leads, Hold, Handles, Optional, Call, Stmt
<1>7. Leads(s[7], o[7], o[8])
  BY DEF s, o, QueryHandler, Leads, Hold, Handles, Optional, Call, Free, Stmt
<1>8. Leads(s[8], o[8], o[9])
  BY DEF s, o, QueryHandler, Leads, Hold, Handles, Optional, AtEnd, Call,
         Free, Stmt
<1>9. Len(s) = 8 /\ o[1] = Nothing /\ o[9] = AtEnd
  BY DEF s, o, QueryHandler
<1>10. /\ Fits(s, o, 1) /\ Fits(s, o, 2) /\ Fits(s, o, 3) /\ Fits(s, o, 4)
       /\ Fits(s, o, 5) /\ Fits(s, o, 6) /\ Fits(s, o, 7) /\ Fits(s, o, 8)
  BY <1>1, <1>2, <1>3, <1>4, <1>5, <1>6, <1>7, <1>8, Counting, Zenon DEF Fits
<1>11. o[Len(s) + 1] = AtEnd
  BY <1>9, Counting, Zenon
<1>12. Outlined(s, Nothing, AtEnd)
  BY <1>9, <1>10, <1>11 DEF Outlined, Follows
<1> QED
  BY <1>12 DEF s

LEMMA HelloHandlerOutlined == Outlined(HelloHandler, Nothing, AtEnd)
<1> DEFINE s == HelloHandler
           o == << Nothing, Hold({"string"}, {}),
                   Hold({"string", "array"}, {}), Hold({"string"}, {}), AtEnd >>
<1> HIDE DEF s, o
<1>1. Leads(s[1], o[1], o[2])
  BY DEF s, o, HelloHandler, Leads, Hold, Handles, Optional, Nothing, Call,
         Make, Stmt
<1>2. Leads(s[2], o[2], o[3])
  BY DEF s, o, HelloHandler, Leads, Hold, Handles, Optional, Call, Make, Stmt
<1>3. Leads(s[3], o[3], o[4])
  BY DEF s, o, HelloHandler, Leads, Hold, Handles, Optional, Call, Free, Stmt
<1>4. Leads(s[4], o[4], o[5])
  BY DEF s, o, HelloHandler, Leads, Hold, Handles, Optional, AtEnd, Call,
         Free, Stmt
<1>5. Len(s) = 4 /\ o[1] = Nothing /\ o[5] = AtEnd
  BY DEF s, o, HelloHandler
<1>6. Fits(s, o, 1) /\ Fits(s, o, 2) /\ Fits(s, o, 3) /\ Fits(s, o, 4)
  BY <1>1, <1>2, <1>3, <1>4, Counting, Zenon DEF Fits
<1>7. o[Len(s) + 1] = AtEnd
  BY <1>5, Counting, Zenon
<1>8. Outlined(s, Nothing, AtEnd)
  BY <1>5, <1>6, <1>7 DEF Outlined, Follows
<1> QED
  BY <1>8 DEF s

LEMMA TestOpenDropOutlined == Outlined(TestOpenDrop, Nothing, AtEnd)
<1> DEFINE s == TestOpenDrop
           o == << Nothing, WithConfig, WithConfig, Hold({}, {"session"}),
                   Hold({"session"}, {}), AtEnd >>
<1> HIDE DEF s, o
<1>1. Leads(s[1], o[1], o[2])
  BY DEF s, o, TestOpenDrop, Leads, Hold, Handles, Optional, Nothing,
         WithConfig, Call, Make, Stmt
<1>2. Leads(s[2], o[2], o[3])
  BY DEF s, o, TestOpenDrop, Leads, Hold, Handles, Optional, WithConfig,
         OrExit, Stmt
<1>3. Leads(s[3], o[3], o[4])
  BY DEF s, o, TestOpenDrop, Leads, Hold, Handles, Optional, WithConfig, Open,
         Stmt, Try
<1>4. Leads(s[4], o[4], o[5])
  BY DEF s, o, TestOpenDrop, Leads, Hold, Handles, Optional, OrExit, Stmt
<1>5. Leads(s[5], o[5], o[6])
  BY DEF s, o, TestOpenDrop, Leads, Hold, Handles, Optional, AtEnd, Call,
         Free, Stmt
<1>6. Len(s) = 5 /\ o[1] = Nothing /\ o[6] = AtEnd
  BY DEF s, o, TestOpenDrop
<1>7. /\ Fits(s, o, 1) /\ Fits(s, o, 2) /\ Fits(s, o, 3) /\ Fits(s, o, 4)
      /\ Fits(s, o, 5)
  BY <1>1, <1>2, <1>3, <1>4, <1>5, Counting, Zenon DEF Fits
<1>8. o[Len(s) + 1] = AtEnd
  BY <1>6, Counting, Zenon
<1>9. Outlined(s, Nothing, AtEnd)
  BY <1>6, <1>7, <1>8 DEF Outlined, Follows
<1> QED
  BY <1>9 DEF s

LEMMA TestCreateOutlined == Outlined(TestCreate, Nothing, AtEnd)
<1> DEFINE s == TestCreate
           o == << Nothing, Hold({}, {"keyexpr"}), Hold({"keyexpr"}, {}),
                   AtEnd >>
<1> HIDE DEF s, o
<1>1. Leads(s[1], o[1], o[2])
  BY DEF s, o, TestCreate, Leads, Hold, Handles, Optional, Nothing, KeyExpr,
         Stmt, Try
<1>2. Leads(s[2], o[2], o[3])
  BY DEF s, o, TestCreate, Leads, Hold, Handles, Optional, OrExit, Stmt
<1>3. Leads(s[3], o[3], o[4])
  BY DEF s, o, TestCreate, Leads, Hold, Handles, Optional, AtEnd, Call, Free,
         Stmt
<1>4. Len(s) = 3 /\ o[1] = Nothing /\ o[4] = AtEnd
  BY DEF s, o, TestCreate
<1>5. Fits(s, o, 1) /\ Fits(s, o, 2) /\ Fits(s, o, 3)
  BY <1>1, <1>2, <1>3, Counting, Zenon DEF Fits
<1>6. o[Len(s) + 1] = AtEnd
  BY <1>4, Counting, Zenon
<1>7. Outlined(s, Nothing, AtEnd)
  BY <1>4, <1>5, <1>6 DEF Outlined, Follows
<1> QED
  BY <1>7 DEF s

LEMMA TestToStringOutlined == Outlined(TestToString, Nothing, AtEnd)
<1> DEFINE s == TestToString
           o == << Nothing, Hold({}, {"keyexpr"}), Hold({"keyexpr"}, {}),
                   Hold({"keyexpr", "string"}, {}), Hold({"keyexpr"}, {}),
                   AtEnd >>
<1> HIDE DEF s, o
<1>1. Leads(s[1], o[1], o[2])
  BY DEF s, o, TestToString, Leads, Hold, Handles, Optional, Nothing, KeyExpr,
         Stmt, Try
<1>2. Leads(s[2], o[2], o[3])
  BY DEF s, o, TestToString, Leads, Hold, Handles, Optional, OrExit, Stmt
<1>3. Leads(s[3], o[3], o[4])
  BY DEF s, o, TestToString, Leads, Hold, Handles, Optional, Call, Make, Stmt
<1>4. Leads(s[4], o[4], o[5])
  BY DEF s, o, TestToString, Leads, Hold, Handles, Optional, Call, Free, Stmt
<1>5. Leads(s[5], o[5], o[6])
  BY DEF s, o, TestToString, Leads, Hold, Handles, Optional, AtEnd, Call,
         Free, Stmt
<1>6. Len(s) = 5 /\ o[1] = Nothing /\ o[6] = AtEnd
  BY DEF s, o, TestToString
<1>7. /\ Fits(s, o, 1) /\ Fits(s, o, 2) /\ Fits(s, o, 3) /\ Fits(s, o, 4)
      /\ Fits(s, o, 5)
  BY <1>1, <1>2, <1>3, <1>4, <1>5, Counting, Zenon DEF Fits
<1>8. o[Len(s) + 1] = AtEnd
  BY <1>6, Counting, Zenon
<1>9. Outlined(s, Nothing, AtEnd)
  BY <1>6, <1>7, <1>8 DEF Outlined, Follows
<1> QED
  BY <1>9 DEF s

LEMMA TestRelationsOutlined == Outlined(TestRelations, Nothing, AtEnd)
<1> DEFINE s == TestRelations
           o == << Nothing, Hold({}, {"keyexpr"}),
                   Hold({}, {"keyexpr", "other keyexpr"}),
                   Hold({"keyexpr"}, {"other keyexpr"}),
                   Hold({"keyexpr", "other keyexpr"}, {}),
                   Hold({"keyexpr", "other keyexpr"}, {}),
                   Hold({"other keyexpr"}, {}), AtEnd >>
<1> HIDE DEF s, o
<1>1. Leads(s[1], o[1], o[2])
  BY DEF s, o, TestRelations, Leads, Hold, Handles, Optional, Nothing,
         KeyExpr, Stmt, Try
<1>2. Leads(s[2], o[2], o[3])
  BY DEF s, o, TestRelations, Leads, Hold, Handles, Optional, Stmt, Try
<1>3. Leads(s[3], o[3], o[4])
  BY DEF s, o, TestRelations, Leads, Hold, Handles, Optional, OrExit, Stmt
<1>4. Leads(s[4], o[4], o[5])
  BY DEF s, o, TestRelations, Leads, Hold, Handles, Optional, OrExit, Stmt
<1>5. Leads(s[5], o[5], o[6])
  BY DEF s, o, TestRelations, Leads, Hold, Handles, Optional, Call, Stmt
<1>6. Leads(s[6], o[6], o[7])
  BY DEF s, o, TestRelations, Leads, Hold, Handles, Optional, Call, Free, Stmt
<1>7. Leads(s[7], o[7], o[8])
  BY DEF s, o, TestRelations, Leads, Hold, Handles, Optional, AtEnd, Call,
         Free, Stmt
<1>8. Len(s) = 7 /\ o[1] = Nothing /\ o[8] = AtEnd
  BY DEF s, o, TestRelations
<1>9. /\ Fits(s, o, 1) /\ Fits(s, o, 2) /\ Fits(s, o, 3) /\ Fits(s, o, 4)
      /\ Fits(s, o, 5) /\ Fits(s, o, 6) /\ Fits(s, o, 7)
  BY <1>1, <1>2, <1>3, <1>4, <1>5, <1>6, <1>7, Counting, Zenon DEF Fits
<1>10. o[Len(s) + 1] = AtEnd
  BY <1>8, Counting, Zenon
<1>11. Outlined(s, Nothing, AtEnd)
  BY <1>8, <1>9, <1>10 DEF Outlined, Follows
<1> QED
  BY <1>11 DEF s

LEMMA TestConcatJoinOutlined == Outlined(TestConcatJoin, Nothing, AtEnd)
<1> DEFINE s == TestConcatJoin
           o == << Nothing, Hold({"keyexpr"}, {}),
                   Hold({"keyexpr"}, {"other keyexpr"}),
                   Hold({"keyexpr", "other keyexpr"}, {}),
                   Hold({"keyexpr", "other keyexpr", "string"}, {}),
                   Hold({"keyexpr", "other keyexpr"}, {}),
                   Hold({"keyexpr"}, {}), AtEnd >>
<1> HIDE DEF s, o
<1>1. Leads(s[1], o[1], o[2])
  BY DEF s, o, TestConcatJoin, Leads, Hold, Handles, Optional, Nothing, Call,
         Make, Stmt
<1>2. Leads(s[2], o[2], o[3])
  BY DEF s, o, TestConcatJoin, Leads, Hold, Handles, Optional, Stmt, Try
<1>3. Leads(s[3], o[3], o[4])
  BY DEF s, o, TestConcatJoin, Leads, Hold, Handles, Optional, OrExit, Stmt
<1>4. Leads(s[4], o[4], o[5])
  BY DEF s, o, TestConcatJoin, Leads, Hold, Handles, Optional, Call, Make,
         Stmt
<1>5. Leads(s[5], o[5], o[6])
  BY DEF s, o, TestConcatJoin, Leads, Hold, Handles, Optional, Call, Free,
         Stmt
<1>6. Leads(s[6], o[6], o[7])
  BY DEF s, o, TestConcatJoin, Leads, Hold, Handles, Optional, Call, Free,
         Stmt
<1>7. Leads(s[7], o[7], o[8])
  BY DEF s, o, TestConcatJoin, Leads, Hold, Handles, Optional, AtEnd, Call,
         Free, Stmt
<1>8. Len(s) = 7 /\ o[1] = Nothing /\ o[8] = AtEnd
  BY DEF s, o, TestConcatJoin
<1>9. /\ Fits(s, o, 1) /\ Fits(s, o, 2) /\ Fits(s, o, 3) /\ Fits(s, o, 4)
      /\ Fits(s, o, 5) /\ Fits(s, o, 6) /\ Fits(s, o, 7)
  BY <1>1, <1>2, <1>3, <1>4, <1>5, <1>6, <1>7, Counting, Zenon DEF Fits
<1>10. o[Len(s) + 1] = AtEnd
  BY <1>8, Counting, Zenon
<1>11. Outlined(s, Nothing, AtEnd)
  BY <1>8, <1>9, <1>10 DEF Outlined, Follows
<1> QED
  BY <1>11 DEF s

LEMMA TestLeakPubSubOutlined == Outlined(TestLeakPubSub, Nothing, AtEnd)
<1> DEFINE s == TestLeakPubSub
           o == << Nothing, WithConfig, Hold({}, {"peer session"}),
                   Hold({"config"}, {"peer session"}),
                   Hold({}, {"peer session", "session"}),
                   Hold({"peer session"}, {"session"}),
                   Hold({"peer session", "session"}, {}),
                   Hold({"peer session", "session", "keyexpr"}, {}),
                   Hold({"peer session", "session"}, {"entity"}),
                   Hold({"peer session", "session", "entity"}, {}),
                   Hold({"peer session", "session", "entity", "other keyexpr"}, {}),
                   Hold({"peer session", "session", "entity"}, {"peer entity"}),
                   Hold({"peer session", "session", "entity", "peer entity"}, {}),
                   Hold({"peer session", "session", "entity", "peer entity", "payload"}, {}),
                   Hold({"peer session", "session", "entity", "peer entity"}, {}),
                   Hold({"peer session", "session", "entity", "peer entity"}, {}),
                   Hold({"peer session", "session", "entity", "peer entity", "payload"}, {}),
                   Hold({"peer session", "session", "entity", "peer entity"}, {}),
                   Hold({"peer session", "session", "entity", "peer entity"}, {}),
                   Hold({"peer session", "session", "entity"}, {}),
                   Hold({"peer session", "session"}, {}),
                   Hold({"session"}, {}), AtEnd >>
<1> HIDE DEF s, o
<1>1. Leads(s[1], o[1], o[2])
  BY DEF s, o, TestLeakPubSub, Leads, Hold, Handles, Optional, Nothing,
         WithConfig, Call, Make, Stmt
<1>2. Leads(s[2], o[2], o[3])
  BY DEF s, o, TestLeakPubSub, Leads, Hold, Handles, Optional, WithConfig,
         Stmt, Try
<1>3. Leads(s[3], o[3], o[4])
  BY DEF s, o, TestLeakPubSub, Leads, Hold, Handles, Optional, Call, Make,
         Stmt
<1>4. Leads(s[4], o[4], o[5])
  <2>1. /\ s[4] = Open
        /\ o[4] = Hold({"config"}, {"peer session"})
        /\ o[5] = Hold({}, {"peer session", "session"})
    BY DEF s, o, TestLeakPubSub
  <2>2. Leads(Open,
              Hold({"config"}, {"peer session"}),
              Hold({}, {"peer session", "session"}))
    BY DEF Leads, Hold, Handles, Optional, Open, Stmt, Try
  <2> QED
    BY <2>1, <2>2, Zenon
<1>5. Leads(s[5], o[5], o[6])
  BY DEF s, o, TestLeakPubSub, Leads, Hold, Handles, Optional, OrExit, Stmt
<1>6. Leads(s[6], o[6], o[7])
  BY DEF s, o, TestLeakPubSub, Leads, Hold, Handles, Optional, OrExit, Stmt
<1>7. Leads(s[7], o[7], o[8])
  BY DEF s, o, TestLeakPubSub, Leads, Hold, Handles, Optional, Call, Make,
         Stmt
<1>8. Leads(s[8], o[8], o[9])
  BY DEF s, o, TestLeakPubSub, Leads, Hold, Handles, Optional, Declare, Stmt,
         Try
<1>9. Leads(s[9], o[9], o[10])
  <2>1. /\ s[9] = OrExit("entity")
        /\ o[9] = Hold({"peer session", "session"}, {"entity"})
        /\ o[10] = Hold({"peer session", "session", "entity"}, {})
    BY DEF s, o, TestLeakPubSub
  <2>2. Leads(OrExit("entity"),
              Hold({"peer session", "session"}, {"entity"}),
              Hold({"peer session", "session", "entity"}, {}))
    BY DEF Leads, Hold, Handles, Optional, OrExit, Stmt
  <2> QED
    BY <2>1, <2>2, Zenon
<1>10. Leads(s[10], o[10], o[11])
  BY DEF s, o, TestLeakPubSub, Leads, Hold, Handles, Optional, Call, Make,
         Stmt
<1>11. Leads(s[11], o[11], o[12])
  BY DEF s, o, TestLeakPubSub, Leads, Hold, Handles, Optional, Stmt, Try
<1>12. Leads(s[12], o[12], o[13])
  <2>1. /\ s[12] = OrExit("peer entity")
        /\ o[12] = Hold({"peer session", "session", "entity"}, {"peer entity"})
        /\ o[13] = Hold({"peer session", "session", "entity", "peer entity"}, {})
    BY DEF s, o, TestLeakPubSub
  <2>2. Leads(OrExit("peer entity"),
              Hold({"peer session", "session", "entity"}, {"peer entity"}),
              Hold({"peer session", "session", "entity", "peer entity"}, {}))
    BY DEF Leads, Hold, Handles, Optional, OrExit, Stmt
  <2> QED
    BY <2>1, <2>2, Zenon
<1>13. Leads(s[13], o[13], o[14])
  BY DEF s, o, TestLeakPubSub, Leads, Hold, Handles, Optional, Call, Make,
         Stmt
<1>14. Leads(s[14], o[14], o[15])
  BY DEF s, o, TestLeakPubSub, Leads, Hold, Handles, Optional, Call, Stmt
<1>15. Leads(s[15], o[15], o[16])
  BY DEF s, o, TestLeakPubSub, Leads, Hold, Handles, Optional, MayExit, Stmt
<1>16. Leads(s[16], o[16], o[17])
  BY DEF s, o, TestLeakPubSub, Leads, Hold, Handles, Optional, Call, Make,
         Stmt
<1>17. Leads(s[17], o[17], o[18])
  BY DEF s, o, TestLeakPubSub, Leads, Hold, Handles, Optional, Call, Stmt
<1>18. Leads(s[18], o[18], o[19])
  BY DEF s, o, TestLeakPubSub, Leads, Hold, Handles, Optional, MayExit, Stmt
<1>19. Leads(s[19], o[19], o[20])
  BY DEF s, o, TestLeakPubSub, Leads, Hold, Handles, Optional, Call, Free,
         Stmt
<1>20. Leads(s[20], o[20], o[21])
  BY DEF s, o, TestLeakPubSub, Leads, Hold, Handles, Optional, Call, Free,
         Stmt
<1>21. Leads(s[21], o[21], o[22])
  BY DEF s, o, TestLeakPubSub, Leads, Hold, Handles, Optional, Call, Free,
         Stmt
<1>22. Leads(s[22], o[22], o[23])
  BY DEF s, o, TestLeakPubSub, Leads, Hold, Handles, Optional, AtEnd, Call,
         Free, Stmt
<1>23. Len(s) = 22 /\ o[1] = Nothing /\ o[23] = AtEnd
  BY DEF s, o, TestLeakPubSub
<1>24. /\ Fits(s, o, 1) /\ Fits(s, o, 2) /\ Fits(s, o, 3) /\ Fits(s, o, 4)
       /\ Fits(s, o, 5) /\ Fits(s, o, 6) /\ Fits(s, o, 7) /\ Fits(s, o, 8)
       /\ Fits(s, o, 9) /\ Fits(s, o, 10) /\ Fits(s, o, 11) /\ Fits(s, o, 12)
       /\ Fits(s, o, 13) /\ Fits(s, o, 14) /\ Fits(s, o, 15) /\ Fits(s, o, 16)
       /\ Fits(s, o, 17) /\ Fits(s, o, 18) /\ Fits(s, o, 19) /\ Fits(s, o, 20)
       /\ Fits(s, o, 21) /\ Fits(s, o, 22)
  <2>1. /\ Fits(s, o, 1) /\ Fits(s, o, 2) /\ Fits(s, o, 3) /\ Fits(s, o, 4)
        /\ Fits(s, o, 5) /\ Fits(s, o, 6)
    BY <1>1, <1>2, <1>3, <1>4, <1>5, <1>6, Counting, Zenon DEF Fits
  <2>2. /\ Fits(s, o, 7) /\ Fits(s, o, 8) /\ Fits(s, o, 9) /\ Fits(s, o, 10)
        /\ Fits(s, o, 11) /\ Fits(s, o, 12)
    BY <1>7, <1>8, <1>9, <1>10, <1>11, <1>12, Counting, Zenon DEF Fits
  <2>3. /\ Fits(s, o, 13) /\ Fits(s, o, 14) /\ Fits(s, o, 15) /\ Fits(s, o, 16)
        /\ Fits(s, o, 17) /\ Fits(s, o, 18)
    BY <1>13, <1>14, <1>15, <1>16, <1>17, <1>18, Counting, Zenon DEF Fits
  <2>4. Fits(s, o, 19) /\ Fits(s, o, 20) /\ Fits(s, o, 21) /\ Fits(s, o, 22)
    BY <1>19, <1>20, <1>21, <1>22, Counting, Zenon DEF Fits
  <2> QED
    BY <2>1, <2>2, <2>3, <2>4
<1>25. o[Len(s) + 1] = AtEnd
  BY <1>23, Counting, Zenon
<1>26. Outlined(s, Nothing, AtEnd)
  BY <1>23, <1>24, <1>25 DEF Outlined, Follows
<1> QED
  BY <1>26 DEF s

LEMMA EveryProgramIsOutlined ==
  \A p \in DOMAIN Programs : Outlined(Programs[p], Nothing, AtEnd)
<1>0. Outlined(ParseArgs, Nothing, Configured)
  BY ConfigOutlined, ModeOutlined, ListOutlined, CfgOutlined, FlagOutlined, PosArgsOutlined,
     Chain, Zenon DEF ParseArgs, ParseCommonArgs
<1>1. Outlined(OpenAndKeyExpr, Nothing, Opened)
  BY <1>0, OpenOutlined, Chain, Zenon DEF OpenAndKeyExpr
<1>2. Outlined(MainPut, Nothing, AtEnd)
  BY <1>1, PutOutlined, Chain, Zenon DEF MainPut
<1>3. Outlined(MainDelete, Nothing, AtEnd)
  BY <1>1, DeleteOutlined, Chain, Zenon DEF MainDelete
<1>4. Outlined(MainPub, Nothing, AtEnd)
  BY <1>1, PubOutlined, Chain, Zenon DEF MainPub
<1>5. Outlined(MainSub, Nothing, AtEnd) /\ Outlined(MainQueryable, Nothing, AtEnd)
  BY <1>1, SubOutlined, Chain, Zenon DEF MainSub, MainQueryable
<1>6. Outlined(MainGet, Nothing, AtEnd)
  BY <1>1, GetOutlined, Chain, Zenon DEF MainGet
<1>7. Outlined(MainPubThr, Nothing, AtEnd)
  BY <1>0, PubThrOutlined, Chain, Zenon DEF MainPubThr
<1>8. Outlined(MainSubThr, Nothing, AtEnd)
  BY <1>0, SubThrOutlined, Chain, Zenon DEF MainSubThr
<1>9. Outlined(MainInfo, Nothing, AtEnd)
  BY <1>0, InfoOutlined, PrintOutlined, PeersOutlined, CloseOutlined,
     Chain, Zenon DEF MainInfo
<1>10. \A p \in DOMAIN Programs : Programs[p] \in
         {MainPut, MainDelete, MainPub, MainSub, MainQueryable, MainGet, MainPubThr,
          MainSubThr, MainScout, MainInfo, SampleHandler, ReplyHandler, QueryHandler,
          HelloHandler, TestOpenDrop, TestCreate, TestToString, TestRelations,
          TestConcatJoin, TestLeakPubSub}
  BY DEF Programs
<1> QED
  BY <1>2, <1>3, <1>4, <1>5, <1>6, <1>7, <1>8, <1>9, <1>10, ScoutOutlined,
     SampleHandlerOutlined, ReplyHandlerOutlined, QueryHandlerOutlined,
     HelloHandlerOutlined, TestOpenDropOutlined, TestCreateOutlined,
     TestToStringOutlined, TestRelationsOutlined, TestConcatJoinOutlined,
     TestLeakPubSubOutlined

LEMMA ProgramsAreOutlined ==
  ASSUME NEW p \in DOMAIN Programs
  PROVE  IsOutline(Outline(p), p) /\ Len(Programs[p]) \in Nat
<1>1. Outlined(Programs[p], Nothing, AtEnd)
  BY EveryProgramIsOutlined
<1>2. \E o : IsOutline(o, p)
  BY <1>1, Zenon DEF Outlined, IsOutline
<1>3. IsOutline(Outline(p), p)
  BY <1>2, Zenon DEF Outline
<1> QED
  BY <1>1, <1>3 DEF Outlined

-------------------------------------------------------------------------------
(* Every run follows the outline.                                          *)

LEMMA AfterACall ==
  ASSUME NEW takes, NEW gives, NEW value, handle \in [Handles -> {"none", "held", "gone"}],
         value \in {"none", "held"}, handle' = After(takes, gives, value)
  PROVE  /\ handle' \in [Handles -> {"none", "held", "gone"}]
         /\ \A h \in Handles : handle'[h] = IF h \in Asked(gives) THEN value
                                           ELSE IF h \in Asked(takes) THEN "gone" ELSE handle[h]
BY DEF After

LEMMA AskedFor ==
  ASSUME NEW S, NEW h
  PROVE  h \in Asked(S) <=> h \in S /\ h \notin (Optional \ options)
BY DEF Asked

(* What an outline says of the moment before a statement that it allows.   *)
LEMMA Before ==
  ASSUME NEW a, NEW b, NEW s, Agrees(a), Leads(s, a, b)
  PROVE  /\ a.held \cup a.maybe \cup (b.held \cup b.maybe) \subseteq Handles
         /\ \A h \in Handles :
              /\ h \in a.held /\ h \notin (Optional \ options) => handle[h] = "held"
              /\ handle[h] = "held" =>
                   h \in a.held \cup a.maybe /\ h \notin (Optional \ options)
         /\ \/ /\ s.op \in {"call", "try"}
               /\ s.uses \cup s.takes \subseteq a.held /\ s.gives \cap (a.held \cup a.maybe) = {}
               /\ b.held \subseteq (a.held \ s.takes) \cup (IF s.op = "call" THEN s.gives ELSE {})
               /\ ((a.held \cup a.maybe) \ s.takes) \cup s.gives \subseteq b.held \cup b.maybe
            \/ /\ s.op \in {"or exit", "may exit"}
               /\ s.takes \subseteq a.held /\ s.takes \cap Optional = {}
               /\ b.held \subseteq a.held \cup (IF s.op = "or exit" THEN s.uses ELSE {})
               /\ a.held \cup a.maybe \subseteq b.held \cup b.maybe
            \/ /\ s.op = "or return"
               /\ s.takes \subseteq a.held /\ s.takes \cap Optional = {}
               /\ b.held \subseteq a.held \cup s.uses
               /\ a.held \cup a.maybe \subseteq b.held \cup b.maybe
               /\ \A h \in s.uses :
                    (a.held \cup a.maybe) \ ({h} \cup s.takes) \subseteq {"unused buffer"}
<1>1. \A h \in Handles :
        /\ h \in a.held /\ h \notin (Optional \ options) => handle[h] = "held"
        /\ handle[h] = "held" =>
             h \in a.held \cup a.maybe /\ h \notin (Optional \ options)
  BY AskedFor DEF Agrees
<1> QED
  BY <1>1, Zenon DEF Leads

LEMMA WeakerAgrees ==
  ASSUME NEW a, NEW b, Agrees(a), Weaker(a, b)
  PROVE  Agrees(b)
BY AskedFor DEF Agrees, Weaker

(* A statement that the outline allows finds what it needs.                *)
LEMMA Allowed ==
  ASSUME NEW a, NEW b, Agrees(a), Leads(Now, a, b)
  PROVE  LiveArguments /\ NothingOverwritten
<1> DEFINE s == Now
           may == a.held \cup a.maybe
<1>0. may \subseteq Handles /\ b.held \cup b.maybe \subseteq Handles
  BY Before
<1>1. \/ /\ s.op \in {"call", "try"} /\ s.gives \subseteq b.held \cup b.maybe
         /\ s.uses \cup s.takes \subseteq a.held /\ s.gives \cap may = {}
      \/ /\ s.op \in {"or exit", "may exit", "or return"}
         /\ s.takes \subseteq a.held /\ s.takes \cap Optional = {}
  <2>1. \/ /\ s.op \in {"call", "try"} /\ (may \ s.takes) \cup s.gives \subseteq b.held \cup b.maybe
           /\ s.uses \cup s.takes \subseteq a.held /\ s.gives \cap may = {}
        \/ /\ s.op \in {"or exit", "may exit", "or return"}
           /\ s.takes \subseteq a.held /\ s.takes \cap Optional = {}
    BY Before, Zenon
  <2> HIDE DEF s, may
  <2> QED
    BY <2>1
<1>2. \A h \in Handles : /\ h \in a.held /\ h \notin (Optional \ options) => handle[h] = "held"
                         /\ handle[h] = "held" => h \in may
  BY Before
<1> HIDE DEF s
<1>4. LiveArguments
  <2>1. s.op \in {"call", "try"} => \A h \in Asked(s.uses \cup s.takes) : handle[h] = "held"
    <3> SUFFICES ASSUME s.op \in {"call", "try"}, NEW h \in Asked(s.uses \cup s.takes)
                 PROVE  handle[h] = "held"
      OBVIOUS
    <3>1. h \in a.held /\ h \in Handles /\ h \notin (Optional \ options)
      BY <1>0, <1>1, AskedFor
    <3> QED
      BY <1>2, <3>1
  <2>2. s.op \notin {"call", "try"} => \A h \in s.takes : handle[h] = "held"
    BY <1>0, <1>1, <1>2
  <2> QED
    BY <2>1, <2>2 DEF LiveArguments, s
<1>5. NothingOverwritten
  <2>1. s.op \in {"call", "try"} => \A h \in Asked(s.gives) : handle[h] # "held"
    <3> SUFFICES ASSUME s.op \in {"call", "try"}, NEW h \in Asked(s.gives) PROVE handle[h] # "held"
      OBVIOUS
    <3>1. h \notin may /\ h \in Handles
      BY <1>0, <1>1, AskedFor
    <3> QED
      BY <1>2, <3>1
  <2> QED
    BY <2>1 DEF NothingOverwritten, s
<1> QED
  BY <1>4, <1>5

(* What it leaves agrees with the outline again; a function that returns   *)
(* for want of a handle leaves nothing.                                    *)
LEMMA Afterwards ==
  ASSUME handle \in [Handles -> {"none", "held", "gone"}], Running, UNCHANGED options,
         NEW a, NEW b, Agrees(a), Leads(Now, a, b)
  PROVE  /\ DoCall => Agrees(b)'
         /\ NullCheck /\ ended' = "no" => Agrees(b)'
         /\ NullCheck /\ ended' = "returned" => NothingLeft'
         /\ ExitMaybe /\ ended' = "no" => Agrees(b)'
<1> DEFINE s == Now
           may == a.held \cup a.maybe
           later == b.held \cup b.maybe
<1>0. may \cup later \subseteq Handles
  BY Before
<1>1. \/ /\ s.op \in {"call", "try"}
         /\ s.uses \cup s.takes \subseteq a.held /\ s.gives \cap may = {}
         /\ b.held \subseteq (a.held \ s.takes) \cup (IF s.op = "call" THEN s.gives ELSE {})
         /\ (may \ s.takes) \cup s.gives \subseteq later
      \/ /\ s.op \in {"or exit", "may exit"}
         /\ s.takes \subseteq a.held /\ s.takes \cap Optional = {}
         /\ b.held \subseteq a.held \cup (IF s.op = "or exit" THEN s.uses ELSE {})
         /\ may \subseteq later
      \/ /\ s.op = "or return"
         /\ s.takes \subseteq a.held /\ s.takes \cap Optional = {}
         /\ b.held \subseteq a.held \cup s.uses /\ may \subseteq later
         /\ \A h \in s.uses : may \ ({h} \cup s.takes) \subseteq {"unused buffer"}
  BY Before, Zenon
<1>2. \A h \in Handles : /\ h \in a.held /\ h \notin (Optional \ options) => handle[h] = "held"
                         /\ handle[h] = "held" => h \in may /\ h \notin (Optional \ options)
  BY Before
<1>3. ASSUME \A h \in Handles :
               /\ h \in b.held /\ h \notin (Optional \ options) => handle'[h] = "held"
               /\ handle'[h] = "held" => h \in later /\ h \notin (Optional \ options)
      PROVE  Agrees(b)'
  BY <1>3, AskedFor DEF Agrees, Asked
<1> HIDE DEF s
<1>6. ASSUME DoCall PROVE Agrees(b)'
  <2>1. /\ s.op \in {"call", "try"}
        /\ \/ handle' = After(s.takes, s.gives, "held")
           \/ s.op = "try" /\ handle' = After(s.takes, s.gives, "none")
    BY <1>6 DEF DoCall, s
  <2>2. PICK value \in {"held", "none"} :
          handle' = After(s.takes, s.gives, value) /\ (value = "none" => s.op = "try")
    BY <2>1
  <2>3. \A h \in Handles : handle'[h] = IF h \in Asked(s.gives) THEN value
                                       ELSE IF h \in Asked(s.takes) THEN "gone" ELSE handle[h]
    BY <2>2, AfterACall
  <2>4. /\ s.uses \cup s.takes \subseteq a.held /\ s.gives \cap may = {}
        /\ b.held \subseteq (a.held \ s.takes) \cup (IF s.op = "call" THEN s.gives ELSE {})
        /\ (may \ s.takes) \cup s.gives \subseteq later
    BY <1>1, <2>1
  <2>5. ASSUME NEW h \in Handles
        PROVE  /\ h \in b.held /\ h \notin (Optional \ options) => handle'[h] = "held"
               /\ handle'[h] = "held" => h \in later /\ h \notin (Optional \ options)
    BY <1>2, <2>2, <2>3, <2>4, AskedFor
  <2> QED
    BY <1>3, <2>5
<1>7. ASSUME NullCheck, ended' = "no" PROVE Agrees(b)'
  <2>1. /\ s.op \in {"or return", "or exit"} /\ \A h \in s.uses : handle[h] = "held"
        /\ UNCHANGED handle
    BY <1>7, Zenon DEF NullCheck, s
  <2> QED
    BY <1>0, <1>1, <1>2, <1>3, <2>1
<1>8. ASSUME NullCheck, ended' = "returned" PROVE NothingLeft'
  <2>1. /\ s.op \in {"or return", "or exit"} /\ ~(\A h \in s.uses : handle[h] = "held")
        /\ ended' = (IF s.op = "or return" THEN "returned" ELSE "exited")
        /\ handle' = After(s.takes, {}, "none")
    <3>1. Running /\ ended = "no"
      BY DEF Running
    <3>2. /\ s.op \in {"or return", "or exit"}
          /\ \/ UNCHANGED ended
             \/ /\ ~(\A h \in s.uses : handle[h] = "held")
                /\ ended' = (IF s.op = "or return" THEN "returned" ELSE "exited")
                /\ handle' = After(s.takes, {}, "none")
      BY <1>8, Zenon DEF NullCheck, s
    <3> QED
      BY <1>8, <3>1, <3>2
  <2>2. s.op = "or return"
    BY <1>8, <2>1
  <2>3. PICK lost \in s.uses : handle[lost] # "held"
    BY <2>1
  <2>4. s.takes \subseteq a.held /\ may \ ({lost} \cup s.takes) \subseteq {"unused buffer"}
    BY <1>1, <2>2
  <2>5. \A h \in Handles : handle'[h] = IF h \in Asked({}) THEN "none"
                                       ELSE IF h \in Asked(s.takes) THEN "gone" ELSE handle[h]
    BY <2>1 DEF After
  <2>6. \A h \in Handles : handle'[h] = "held" => h = "unused buffer"
    BY <1>2, <2>3, <2>4, <2>5, AskedFor
  <2> QED
    BY <2>6 DEF NothingLeft
<1>9. ASSUME ExitMaybe, ended' = "no" PROVE Agrees(b)'
  <2>1. s.op = "may exit" /\ UNCHANGED handle
    BY <1>9 DEF ExitMaybe, s
  <2> QED
    BY <1>1, <1>2, <1>3, <2>1
<1> QED
  BY <1>6, <1>7, <1>8, <1>9

(* What a program may hold agrees with its outline, at every statement.    *)
THEOREM OutlinesAreFollowed == Spec => []IInv
<1>1. Init => IInv
  <2> SUFFICES ASSUME Init PROVE IInv
    OBVIOUS
  <2>1. /\ program \in DOMAIN Programs /\ at = 1 /\ ended = "no"
        /\ handle = [h \in Handles |-> "none"]
    BY DEF Init
  <2>2. Outline(program)[1] = Nothing /\ Len(Programs[program]) \in Nat
    BY <2>1, ProgramsAreOutlined DEF IsOutline
  <2>3. Nothing.held = {}
    BY DEF Nothing, Hold
  <2>4. Agrees(Nothing)
    BY <2>1, <2>3, AskedFor DEF Agrees
  <2>5. NothingLeft
    BY <2>1 DEF NothingLeft
  <2> QED
    BY <2>1, <2>2, <2>4, <2>5 DEF IInv
<1>2. IInv /\ [Next]_vars => IInv'
  <2> SUFFICES ASSUME IInv, [Next]_vars PROVE IInv'
    OBVIOUS
  <2> DEFINE text == Programs[program]
             o == Outline(program)
  <2>1. /\ program \in DOMAIN Programs /\ Len(text) \in Nat
        /\ handle \in [Handles -> {"none", "held", "gone"}]
        /\ at \in 1..(Len(text) + 1)
        /\ ended = "no" => Agrees(o[at])
    BY ProgramsAreOutlined DEF IInv
  <2>2. o[Len(text) + 1] = AtEnd /\ Follows(text, o)
    BY <2>1, ProgramsAreOutlined DEF IsOutline
  <2> HIDE DEF text, o
  <2>3. UNCHANGED program => text' = text /\ o' = o
    BY DEF text, o
  <2>4. ASSUME Running
        PROVE  /\ Agrees(o[at]) /\ at \in 1..Len(text) /\ at + 1 \in 1..(Len(text) + 1)
               /\ \/ Leads(Now, o[at], o[at + 1])
                  \/ /\ Now.op = "jump"
                     /\ \A d \in Now.uses :
                          at + d \in 1..(Len(text) + 1) /\ Weaker(o[at], o[at + d])
    BY <2>1, <2>2, <2>4 DEF Running, Follows, Fits, Now, text
  <2>5. ASSUME NEW b, Agrees(b)', UNCHANGED <<program, ended>>, Running, o[at'] = b,
               handle' \in [Handles -> {"none", "held", "gone"}], at' \in 1..(Len(text) + 1)
        PROVE  IInv'
    <3>1. Agrees(o[at])'
      BY <2>3, <2>5 DEF Agrees
    <3>2. NothingLeft'
      BY <2>5 DEF Running, NothingLeft
    <3>3. Agrees(Outline(program)[at])' /\ at' \in 1..(Len(Programs[program']) + 1)
      BY <2>3, <2>5, <3>1 DEF o, text
    <3> QED
      BY <2>1, <2>5, <3>2, <3>3 DEF IInv, Running
  <2>6. CASE DoCall \/ (NullCheck /\ ended' = "no") \/ (ExitMaybe /\ ended' = "no")
    <3>1. /\ Running /\ Now.op # "jump" /\ at' = at + 1
          /\ UNCHANGED <<program, options, ended>>
          /\ handle' \in [Handles -> {"none", "held", "gone"}]
      <4>1. CASE DoCall
        <5>1. PICK value \in {"held", "none"} : handle' = After(Now.takes, Now.gives, value)
          BY <4>1, Zenon DEF DoCall
        <5> QED
          BY <2>1, <4>1, <5>1, AfterACall DEF DoCall
      <4>2. CASE NullCheck /\ ended' = "no"
        BY <2>1, <4>2 DEF NullCheck
      <4>3. CASE ExitMaybe /\ ended' = "no"
        BY <2>1, <4>3 DEF ExitMaybe, Running
      <4> QED
        BY <2>6, <4>1, <4>2, <4>3
    <3>2. PICK a, b : a = o[at] /\ b = o[at + 1]
      OBVIOUS
    <3>3. Agrees(b)'
      BY <2>1, <2>4, <2>6, <3>1, <3>2, Afterwards
    <3> QED
      BY <2>4, <2>5, <2>6, <3>1, <3>2, <3>3
  <2>7. CASE (NullCheck \/ ExitMaybe) /\ ended' # "no"
    <3>1. /\ Running /\ UNCHANGED <<program, options, at>>
          /\ ended' \in {"returned", "exited"}
          /\ handle' \in [Handles -> {"none", "held", "gone"}]
          /\ Now.op # "jump"
      <4>1. CASE NullCheck
        <5>1. UNCHANGED handle \/ handle' = After(Now.takes, {}, "none")
          BY <4>1, Zenon DEF NullCheck
        <5>2. handle' \in [Handles -> {"none", "held", "gone"}]
          BY <2>1, <5>1, AfterACall
        <5> QED
          BY <2>7, <4>1, <5>2 DEF NullCheck, Running
      <4>2. CASE ExitMaybe
        <5>1. /\ Running /\ UNCHANGED <<program, options, at>> /\ ended' = "exited"
              /\ Now.op = "may exit" /\ handle' = After(Now.takes, {}, "none")
          BY <2>7, <4>2, Zenon DEF ExitMaybe, Running
        <5>2. handle' \in [Handles -> {"none", "held", "gone"}]
          BY <2>1, <5>1, AfterACall
        <5> QED
          BY <5>1, <5>2
      <4> QED
        BY <2>7, <4>1, <4>2
    <3>2. PICK a, b : a = o[at] /\ b = o[at + 1]
      OBVIOUS
    <3>3. NothingLeft'
      <4>1. CASE NullCheck /\ ended' = "returned"
        BY <2>1, <2>4, <3>1, <3>2, <4>1, Afterwards
      <4>2. CASE ended' # "returned"
        BY <4>2 DEF NothingLeft
      <4>3. ExitMaybe => ended' # "returned"
        BY <3>1 DEF ExitMaybe, Running
      <4> QED
        BY <2>7, <4>1, <4>2, <4>3
    <3> QED
      BY <2>1, <2>3, <3>1, <3>3 DEF IInv, text
  <2>8. CASE JumpSomewhere
    <3>1. /\ Running /\ Now.op = "jump" /\ UNCHANGED <<program, options, ended, handle>>
      BY <2>8 DEF JumpSomewhere
    <3>2. PICK d \in Now.uses : at' = at + d
      BY <2>8 DEF JumpSomewhere
    <3>3. Weaker(o[at], o[at']) /\ at' \in 1..(Len(text) + 1)
      BY <2>4, <3>1, <3>2 DEF Leads
    <3>4. PICK a, b : a = o[at] /\ b = o[at']
      OBVIOUS
    <3>5. Agrees(b)
      BY <2>4, <3>1, <3>3, <3>4, WeakerAgrees
    <3>6. Agrees(b)'
      BY <3>1, <3>5 DEF Agrees, Asked
    <3> QED
      BY <2>1, <2>5, <3>1, <3>3, <3>4, <3>6
  <2>9. CASE Return
    <3>1. /\ ended = "no" /\ at = Len(text) + 1 /\ ended' = "returned"
          /\ UNCHANGED <<program, options, at, handle>>
      BY <2>1, <2>9 DEF Return, text
    <3>2. Agrees(AtEnd)
      BY <2>1, <2>2, <3>1
    <3>3. AtEnd.held \cup AtEnd.maybe = {"unused buffer"}
      BY DEF AtEnd, Hold
    <3>4. \A h \in Handles : handle[h] = "held" => h = "unused buffer"
      BY <3>2, <3>3, AskedFor DEF Agrees
    <3>5. NothingLeft'
      BY <3>1, <3>4 DEF NothingLeft
    <3> QED
      BY <2>1, <2>3, <3>1, <3>5 DEF IInv, text
  <2>10. CASE UNCHANGED vars
    <3>1. UNCHANGED <<program, options, at, ended, handle>>
      BY <2>10 DEF vars
    <3>2. NothingLeft'
      BY <3>1 DEF IInv, NothingLeft
    <3>3. ended = "no" => Agrees(o[at])'
      BY <2>1, <2>3, <3>1 DEF Agrees, Asked
    <3> QED
      BY <2>1, <2>3, <3>1, <3>2, <3>3 DEF IInv, text, o
  <2> QED
    BY <2>6, <2>7, <2>8, <2>9, <2>10 DEF Next
<1> QED
  BY <1>1, <1>2, PTL DEF Spec

LEMMA OutlinesAreSafe == IInv => LiveArguments /\ NothingOverwritten /\ NothingLeft
<1> SUFFICES ASSUME IInv PROVE LiveArguments /\ NothingOverwritten
  BY DEF IInv
<1> DEFINE o == Outline(program)
<1>1. CASE Running /\ Leads(Now, o[at], o[at + 1])
  BY <1>1, Allowed DEF IInv, Running
<1>2. CASE Running /\ Now.op = "jump"
  BY <1>2 DEF LiveArguments, NothingOverwritten
<1>3. CASE ~Running
  BY <1>3 DEF LiveArguments, NothingOverwritten
<1> QED
  BY <1>1, <1>2, <1>3, ProgramsAreOutlined DEF IInv, IsOutline, Follows, Fits, Running, Now

(* No function makes a call with a handle that is NULL, consumed or        *)
(* dropped already, whatever failed before, and no early return drops one. *)
THEOREM ArgumentsAreLive == Spec => []LiveArguments
BY OutlinesAreFollowed, OutlinesAreSafe, PTL

(* No function assigns a variable that still holds something.              *)
THEOREM NoHandleOverwritten == Spec => []NothingOverwritten
BY OutlinesAreFollowed, OutlinesAreSafe, PTL

(* A function that returns, early or not, holds nothing but the byte that  *)
(* every main with a command line leaks.                                   *)
THEOREM NoHandleLeft == Spec => []NothingLeft
BY OutlinesAreFollowed, OutlinesAreSafe, PTL

===============================================================================
