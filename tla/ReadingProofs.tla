----------------------------- MODULE ReadingProofs -----------------------------
(***************************************************************************)
(* The parsing and the reading of a command line from left to right, for   *)
(* every command line: there is at most one reading; where the help texts  *)
(* describe the arguments, an accepted line gave what its reading says;    *)
(* and a line that they describe is never turned down.                     *)
(***************************************************************************)
EXTENDS ParseArgsProofs

-------------------------------------------------------------------------------
(* The tables of options.  No two options of a program have a name or a    *)
(* letter in common: a name has one place in its table, a letter one name. *)

CommonNames == {"config", "mode", "connect", "listen", "cfg", "no-multicast-scouting"}

(* Where an option stands among the program's own or the common ones.      *)
Place(name) ==
  IF name \in {"key", "selector", "priority", "samples", "config"} THEN 1
  ELSE IF name \in {"payload", "express", "number", "mode"} THEN 2
  ELSE IF name \in {"attach", "complete", "timeout", "connect"} THEN 3
  ELSE IF name \in {"add-matching-listener", "target", "listen"} THEN 4
  ELSE IF name = "cfg" THEN 5 ELSE 6

(* The option that a program has for a letter.                             *)
LongOf(p, short) ==
  IF short = "p" THEN (IF p = "z_pub_thr" THEN "priority" ELSE "payload")
  ELSE IF short = "s" THEN (IF p = "z_sub_thr" THEN "samples" ELSE "selector")
  ELSE CHOOSE n \in DOMAIN ShortForms : ShortForms[n] = short

(* What the i-th option of a table is.                                     *)
Row(p, o, i) ==
  /\ Place(o.long) = i
  /\ o.kind \in {"list", "pairs"} => o.long \in Repeatable
  /\ o.kind \notin {"list", "pairs"} => o.long \notin Repeatable
  /\ o.short # "" => LongOf(p, o.short) = o.long

(* An option in its place.                                                 *)
LEMMA OptRow ==
  ASSUME NEW p, NEW kind, NEW short, NEW long, NEW i,
         Place(long) = i,
         kind \in {"list", "pairs"} => long \in Repeatable,
         kind \notin {"list", "pairs"} => long \notin Repeatable,
         short # "" => LongOf(p, short) = long
  PROVE  Row(p, Opt(kind, short, long), i)
BY DEF Row, Opt

(* What the letters are.                                                   *)
LEMMA Letters ==
  ASSUME NEW p
  PROVE /\ LongOf(p, "k") = "key" /\ LongOf(p, "a") = "attach" /\ LongOf(p, "o") = "timeout"
        /\ LongOf(p, "t") = "target" /\ LongOf(p, "n") = "number"
        /\ LongOf(p, "c") = "config" /\ LongOf(p, "m") = "mode" /\ LongOf(p, "e") = "connect"
        /\ LongOf(p, "l") = "listen"
        /\ LongOf("z_pub_thr", "p") = "priority" /\ LongOf("z_sub_thr", "s") = "samples"
        /\ p # "z_pub_thr" => LongOf(p, "p") = "payload"
        /\ p # "z_sub_thr" => LongOf(p, "s") = "selector"
<1> USE DEF LongOf
<1>1. LongOf(p, "k") = "key"
  BY ShortFormsAre
<1>2. LongOf(p, "a") = "attach"
  BY ShortFormsAre
<1>3. LongOf(p, "o") = "timeout"
  BY ShortFormsAre
<1>4. LongOf(p, "t") = "target"
  BY ShortFormsAre
<1>5. LongOf(p, "n") = "number"
  BY ShortFormsAre
<1>6. LongOf(p, "c") = "config"
  BY ShortFormsAre
<1>7. LongOf(p, "m") = "mode" 
  BY ShortFormsAre
<1>8. LongOf(p, "e") = "connect"
  BY ShortFormsAre
<1>9. LongOf(p, "l") = "listen"
  BY ShortFormsAre
<1>10. /\ LongOf("z_pub_thr", "p") = "priority" /\ LongOf("z_sub_thr", "s") = "samples"
       /\ p # "z_pub_thr" => LongOf(p, "p") = "payload"
       /\ p # "z_sub_thr" => LongOf(p, "s") = "selector"
  OBVIOUS
<1> QED
  BY <1>1, <1>2, <1>3, <1>4, <1>5, <1>6, <1>7, <1>8, <1>9, <1>10

(* Where the names stand.                                                  *)
LEMMA Places ==
  /\ Place("key") = 1 /\ Place("selector") = 1 /\ Place("priority") = 1 /\ Place("samples") = 1
  /\ Place("config") = 1
  /\ Place("payload") = 2 /\ Place("express") = 2 /\ Place("number") = 2 /\ Place("mode") = 2
  /\ Place("attach") = 3 /\ Place("complete") = 3 /\ Place("timeout") = 3 /\ Place("connect") = 3
  /\ Place("add-matching-listener") = 4 /\ Place("target") = 4 /\ Place("listen") = 4
  /\ Place("cfg") = 5 /\ Place("no-multicast-scouting") = 6
BY DEF Place

(* The common options.                                                     *)
LEMMA CommonRows ==
  /\ DOMAIN CommonOptions = 1..6
  /\ \A p : \A i \in 1..6 : Row(p, CommonOptions[i], i) /\ CommonOptions[i].long \in CommonNames
<1> DEFINE s == CommonOptions
           Common(p, o, i) == Row(p, o, i) /\ o.long \in CommonNames
<1>1. /\ s[1] = Opt("checked", "c", "config") /\ s[2] = Opt("checked", "m", "mode")
      /\ s[3] = Opt("list", "e", "connect") /\ s[4] = Opt("list", "l", "listen")
      /\ s[5] = Opt("pairs", "", "cfg") /\ s[6] = Opt("checked flag", "", "no-multicast-scouting")
      /\ DOMAIN s = 1..6
  BY DEF CommonOptions
<1>2. ASSUME NEW p, NEW kind, NEW short, NEW long \in CommonNames, NEW i,
             Place(long) = i, short # "" => LongOf(p, short) = long,
             \/ kind \in {"list", "pairs"} /\ long \in Repeatable
             \/ kind \in {"checked", "checked flag"} /\ long \notin Repeatable
      PROVE  Common(p, Opt(kind, short, long), i)
  <2>1. Row(p, Opt(kind, short, long), i)
    BY <1>2, OptRow
  <2> QED
    BY <1>2, <2>1 DEF Opt
<1>3. /\ "config" \in CommonNames /\ "mode" \in CommonNames /\ "connect" \in CommonNames
      /\ "listen" \in CommonNames /\ "cfg" \in CommonNames
      /\ "no-multicast-scouting" \in CommonNames
      /\ "config" \notin Repeatable /\ "mode" \notin Repeatable /\ "connect" \in Repeatable
      /\ "listen" \in Repeatable /\ "cfg" \in Repeatable
      /\ "no-multicast-scouting" \notin Repeatable
  BY DEF CommonNames, Repeatable
<1> HIDE DEF s, Common
<1>4. ASSUME NEW p
      PROVE  /\ Common(p, s[1], 1) /\ Common(p, s[2], 2) /\ Common(p, s[3], 3)
             /\ Common(p, s[4], 4) /\ Common(p, s[5], 5) /\ Common(p, s[6], 6)
  <2>1. Common(p, s[1], 1)
    BY <1>1, <1>2, <1>3, Letters, Places
  <2>2. Common(p, s[2], 2)
    BY <1>1, <1>2, <1>3, Letters, Places
  <2>3. Common(p, s[3], 3)
    BY <1>1, <1>2, <1>3, Letters, Places
  <2>4. Common(p, s[4], 4)
    BY <1>1, <1>2, <1>3, Letters, Places
  <2>5. Common(p, s[5], 5) /\ Common(p, s[6], 6)
    BY <1>1, <1>2, <1>3, Places
  <2> QED
    BY <2>1, <2>2, <2>3, <2>4, <2>5
<1>5. \A i \in 1..6 : i = 1 \/ i = 2 \/ i = 3 \/ i = 4 \/ i = 5 \/ i = 6
  OBVIOUS
<1>6. \A p : \A i \in 1..6 : Common(p, s[i], i)
  BY <1>4, <1>5
<1> QED
  BY <1>1, <1>6, Zenon DEF s, Common

(* A program's own options.                                                *)
LEMMA OwnRows ==
  \A p \in DOMAIN OwnOptions : \A i \in DOMAIN OwnOptions[p] :
    Row(p, OwnOptions[p][i], i) /\ OwnOptions[p][i].long \notin CommonNames
<1> DEFINE Own(p, o, i) == Row(p, o, i) /\ o.long \notin CommonNames
<1>1. ASSUME NEW p, NEW kind \in {"plain", "checked", "flag"}, NEW short, NEW long, NEW i,
             Place(long) = i, long \notin CommonNames, short # "" => LongOf(p, short) = long
      PROVE  Own(p, Opt(kind, short, long), i)
  <2>1. kind \notin {"list", "pairs"} /\ long \notin Repeatable
    BY <1>1 DEF CommonNames, Repeatable
  <2>2. Row(p, Opt(kind, short, long), i)
    BY <1>1, <2>1, OptRow
  <2> QED
    BY <1>1, <2>2 DEF Opt
<1>2. /\ "key" \notin CommonNames /\ "payload" \notin CommonNames /\ "attach" \notin CommonNames
      /\ "add-matching-listener" \notin CommonNames /\ "complete" \notin CommonNames
      /\ "selector" \notin CommonNames /\ "timeout" \notin CommonNames
      /\ "target" \notin CommonNames /\ "priority" \notin CommonNames
      /\ "express" \notin CommonNames /\ "samples" \notin CommonNames
      /\ "number" \notin CommonNames
  BY DEF CommonNames
<1> HIDE DEF Own
<1>3. ASSUME NEW p
      PROVE  /\ Own(p, KeyOption, 1)
             /\ p # "z_pub_thr" => Own(p, PayloadOption, 2)
             /\ Own(p, Opt("plain", "a", "attach"), 3)
             /\ Own(p, Opt("flag", "", "add-matching-listener"), 4)
             /\ Own(p, Opt("flag", "", "complete"), 3)
             /\ p # "z_sub_thr" => Own(p, Opt("plain", "s", "selector"), 1)
             /\ Own(p, Opt("plain", "o", "timeout"), 3)
             /\ Own(p, Opt("checked", "t", "target"), 4)
             /\ Own("z_pub_thr", Opt("checked", "p", "priority"), 1)
             /\ Own(p, Opt("flag", "", "express"), 2)
             /\ Own("z_sub_thr", Opt("plain", "s", "samples"), 1)
             /\ Own(p, Opt("plain", "n", "number"), 2)
  <2>1. /\ Own(p, KeyOption, 1)
        /\ p # "z_pub_thr" => Own(p, PayloadOption, 2)
        /\ Own(p, Opt("plain", "a", "attach"), 3)
    BY <1>1, <1>2, Letters, Places DEF KeyOption, PayloadOption
  <2>2. /\ Own(p, Opt("flag", "", "add-matching-listener"), 4)
        /\ Own(p, Opt("flag", "", "complete"), 3)
        /\ Own(p, Opt("flag", "", "express"), 2)
    BY <1>1, <1>2, Places
  <2>3. /\ p # "z_sub_thr" => Own(p, Opt("plain", "s", "selector"), 1)
        /\ Own(p, Opt("plain", "o", "timeout"), 3)
        /\ Own(p, Opt("checked", "t", "target"), 4)
    BY <1>1, <1>2, Letters, Places
  <2>4. /\ Own("z_pub_thr", Opt("checked", "p", "priority"), 1)
        /\ Own("z_sub_thr", Opt("plain", "s", "samples"), 1)
        /\ Own(p, Opt("plain", "n", "number"), 2)
    BY <1>1, <1>2, Letters, Places
  <2> QED
    BY <2>1, <2>2, <2>3, <2>4
<1>4. /\ \A p, a : Own(p, a, 1) => \A i \in DOMAIN << a >> : Own(p, << a >>[i], i)
      /\ \A p, a, b : Own(p, a, 1) /\ Own(p, b, 2) =>
           \A i \in DOMAIN << a, b >> : Own(p, << a, b >>[i], i)
      /\ \A p, a, b, c : Own(p, a, 1) /\ Own(p, b, 2) /\ Own(p, c, 3) =>
           \A i \in DOMAIN << a, b, c >> : Own(p, << a, b, c >>[i], i)
      /\ \A p, a, b, c, d : Own(p, a, 1) /\ Own(p, b, 2) /\ Own(p, c, 3) /\ Own(p, d, 4) =>
           \A i \in DOMAIN << a, b, c, d >> : Own(p, << a, b, c, d >>[i], i)
  OBVIOUS
<1> DEFINE Table(p, s) == \A i \in DOMAIN s : Own(p, s[i], i)
<1>5. /\ Table("z_put", OptionsOfPut) /\ Table("z_delete", OptionsOfDelete)
      /\ Table("z_sub", OptionsOfSub)
  BY <1>3, <1>4 DEF OptionsOfPut, OptionsOfDelete, OptionsOfSub
<1>6. Table("z_pub", OptionsOfPub) /\ Table("z_queryable", OptionsOfQueryable)
  BY <1>3, <1>4 DEF OptionsOfPub, OptionsOfQueryable
<1>7. Table("z_get", OptionsOfGet)
  BY <1>3, <1>4 DEF OptionsOfGet
<1>8. Table("z_pub_thr", OptionsOfPubThr) /\ Table("z_sub_thr", OptionsOfSubThr)
  BY <1>3, <1>4 DEF OptionsOfPubThr, OptionsOfSubThr
<1>9. Table("z_info", OptionsOfInfo)
  BY DEF OptionsOfInfo
<1> HIDE DEF Table
<1>10. \A p \in DOMAIN OwnOptions : Table(p, OwnOptions[p])
  BY <1>5, <1>6, <1>7, <1>8, <1>9 DEF OwnOptions
<1> QED
  BY <1>10 DEF Table, Own

(* Two sequences in one.                                                   *)
LEMMA Concatenation ==
  ASSUME NEW S, NEW s \in Seq(S), NEW t \in Seq(S)
  PROVE  /\ DOMAIN (s \o t) = 1..(Len(s) + Len(t))
         /\ \A k \in DOMAIN (s \o t) :
              (s \o t)[k] = IF k <= Len(s) THEN s[k] ELSE t[k - Len(s)]
OBVIOUS

(* No two options of a program share a name or a letter, and those that    *)
(* may be repeated are the lists and the pairs.                            *)
LEMMA StepsAreDistinct ==
  ASSUME program \in Programs, NEW j \in DOMAIN Steps
  PROVE  /\ Steps[j].kind \in {"list", "pairs"} => Steps[j].long \in Repeatable
         /\ Steps[j].kind \notin {"list", "pairs"} => Steps[j].long \notin Repeatable
         /\ \A k \in DOMAIN Steps : Steps[k].long = Steps[j].long => k = j
         /\ \A k \in DOMAIN Steps :
              Steps[j].short # "" /\ Steps[k].short = Steps[j].short => k = j
<1> DEFINE own == OwnOptions[program]
           n == Len(own)
           at(k) == IF k <= n THEN k ELSE k - n
<1>1. program \in DOMAIN OwnOptions
  BY ProgramsAssumption
<1>2. own \in Seq(ProgramOptions) /\ CommonOptions \in Seq(ProgramOptions)
  BY <1>1, OwnOptionsAreOptions
<1>3. n \in Nat /\ DOMAIN own = 1..n /\ Len(CommonOptions) = 6
  BY <1>2, CommonRows
<1>4. /\ DOMAIN Steps = 1..(n + 6)
      /\ \A k \in 1..(n + 6) : Steps[k] = IF k <= n THEN own[k] ELSE CommonOptions[k - n]
  <2>1. Steps = own \o CommonOptions
    BY DEF Steps
  <2> HIDE DEF own
  <2>2. /\ DOMAIN Steps = 1..(Len(own) + Len(CommonOptions))
        /\ \A k \in DOMAIN Steps :
             Steps[k] = IF k <= Len(own) THEN own[k] ELSE CommonOptions[k - Len(own)]
    BY <1>2, <2>1, Concatenation
  <2> QED
    BY <1>3, <2>2
<1> HIDE DEF own, n
<1>5. \A k \in 1..n : Row(program, own[k], k) /\ own[k].long \notin CommonNames
  BY <1>1, <1>3, OwnRows DEF own
<1>6. \A k \in DOMAIN Steps :
        /\ Row(program, Steps[k], at(k))
        /\ Steps[k].long \in CommonNames <=> k > n
  <2> SUFFICES ASSUME NEW k \in DOMAIN Steps
               PROVE  /\ Row(program, Steps[k], at(k))
                      /\ Steps[k].long \in CommonNames <=> k > n
    OBVIOUS
  <2>1. CASE k <= n
    BY <1>3, <1>4, <1>5, <2>1
  <2>2. CASE k > n
    <3>1. k - n \in 1..6 /\ Steps[k] = CommonOptions[k - n]
      BY <1>3, <1>4, <2>2
    <3> QED
      BY <1>3, <1>4, <2>2, <3>1, CommonRows
  <2> QED
    BY <1>3, <1>4, <2>1, <2>2
<1>7. ASSUME NEW k \in DOMAIN Steps, Steps[k].long = Steps[j].long
      PROVE  k = j
  <2>1. at(k) = at(j) /\ (k > n <=> j > n)
    BY <1>6, <1>7 DEF Row
  <2> QED
    BY <1>3, <1>4, <2>1
<1>8. ASSUME NEW k \in DOMAIN Steps, Steps[j].short # "", Steps[k].short = Steps[j].short
      PROVE  k = j
  <2>1. Steps[k].long = Steps[j].long
    BY <1>6, <1>8 DEF Row
  <2> QED
    BY <1>7, <2>1
<1> QED
  BY <1>6, <1>7, <1>8 DEF Row

-------------------------------------------------------------------------------
(* Uses and readings.                                                      *)

(* The i-th argument, as parse_opt compares it, is the option o.           *)
IsOption(i, o) ==
  \/ Matches(given[i], Long(o.long))
  \/ o.short # "" /\ Matches(given[i], Short(o.short))

(* A use is of the one option of that name.                                *)
LEMMA UseIsOption ==
  ASSUME program \in Programs, NEW i, NEW j \in DOMAIN Steps
  PROVE  IsUse(i, Steps[j].long) <=> IsOption(i, Steps[j])
<1>1. ASSUME IsUse(i, Steps[j].long) PROVE IsOption(i, Steps[j])
  <2>1. PICK k \in DOMAIN Steps :
          /\ Steps[k].long = Steps[j].long
          /\ \/ Matches(given[i], Long(Steps[j].long))
             \/ Steps[k].short # "" /\ Matches(given[i], Short(Steps[k].short))
    BY <1>1 DEF IsUse
  <2>2. k = j
    BY <2>1, StepsAreDistinct
  <2> QED
    BY <2>1, <2>2, Zenon DEF IsOption
<1>2. ASSUME IsOption(i, Steps[j]) PROVE IsUse(i, Steps[j].long)
  <2>1. Steps[j] \in {Steps[k] : k \in DOMAIN Steps}
    OBVIOUS
  <2> QED
    BY <1>2, <2>1, Zenon DEF IsOption, IsUse
<1> QED
  BY <1>1, <1>2

(* How an argument names an option.                                        *)
LEMMA OptionFields ==
  ASSUME NEW i, NEW o, IsOption(i, o)
  PROVE  \/ given[i].dashes = 2 /\ given[i].name = o.long
         \/ given[i].dashes = 1 /\ given[i].name = o.short /\ o.short # ""
<1>1. \A a, x : /\ Matches(a, Short(x)) => a.dashes = 1 /\ a.name = x
                /\ Matches(a, Long(x)) => a.dashes = 2 /\ a.name = x
  BY DEF Matches, Short, Long, Arg
<1> QED
  BY <1>1, Zenon DEF IsOption

(* An argument is no more than one option.                                 *)
LEMMA OneOption ==
  ASSUME program \in Programs, NEW i, NEW j \in DOMAIN Steps, NEW k \in DOMAIN Steps,
         IsOption(i, Steps[j]), IsOption(i, Steps[k])
  PROVE  j = k
<1>1. /\ \/ given[i].dashes = 2 /\ given[i].name = Steps[j].long
         \/ given[i].dashes = 1 /\ given[i].name = Steps[j].short /\ Steps[j].short # ""
      /\ \/ given[i].dashes = 2 /\ given[i].name = Steps[k].long
         \/ given[i].dashes = 1 /\ given[i].name = Steps[k].short /\ Steps[k].short # ""
  BY OptionFields, Zenon
<1>2. \/ Steps[k].long = Steps[j].long
      \/ Steps[j].short # "" /\ Steps[k].short = Steps[j].short
  <2>1. ~(given[i].dashes = 1 /\ given[i].dashes = 2)
    OBVIOUS
  <2> QED
    BY <1>1, <2>1, Zenon
<1> QED
  BY <1>2, StepsAreDistinct, Zenon

(* A use is of an option that is looked for.                               *)
LEMMA UseHasStep ==
  ASSUME NEW i, NEW name, IsUse(i, name)
  PROVE  \E j \in DOMAIN Steps : Steps[j].long = name
BY DEF IsUse

(* A use has a dash and one option that it is of.                          *)
LEMMA OneName ==
  ASSUME program \in Programs, NEW i, NEW n, NEW m, IsUse(i, n), IsUse(i, m)
  PROVE  n = m /\ given[i].dashes # 0
<1>1. PICK j \in DOMAIN Steps : Steps[j].long = n
  BY UseHasStep
<1>2. PICK k \in DOMAIN Steps : Steps[k].long = m
  BY UseHasStep
<1>3. IsOption(i, Steps[j]) /\ IsOption(i, Steps[k])
  BY <1>1, <1>2, UseIsOption
<1>4. j = k
  BY <1>3, OneOption
<1>5. given[i].dashes # 0
  <2>1. given[i].dashes = 2 \/ given[i].dashes = 1
    BY <1>3, OptionFields, Zenon
  <2> QED
    BY <2>1
<1> QED
  BY <1>1, <1>2, <1>4, <1>5

(* A reading's uses are apart, and cover all that has a dash.              *)
LEMMA ReadingFacts ==
  ASSUME NEW uses \in Readings
  PROVE  /\ uses \in SUBSET ((DOMAIN given) \X OptionNames)
         /\ \A u \in uses :
              /\ IsUse(u[1], u[2])
              /\ PlacesAt(u[1], u[2]) \subseteq DOMAIN given
         /\ \A u, v \in uses :
              u # v => PlacesAt(u[1], u[2]) \cap PlacesAt(v[1], v[2]) = {}
         /\ \A i \in DOMAIN given :
              \/ given[i].dashes = 0
              \/ \E u \in uses : i \in PlacesAt(u[1], u[2])
BY DEF Readings, Uses, Others

(* A use takes its argument and no more than the next.                     *)
LEMMA PlacesAre ==
  ASSUME NEW i, NEW name
  PROVE  i \in PlacesAt(i, name) /\ PlacesAt(i, name) \subseteq {i, i + 1}
BY DEF PlacesAt

(* What ReadAsWritten compares with is one thing: a line has no two        *)
(* readings.                                                               *)
THEOREM OneReading ==
  ASSUME program \in Programs, given \in CommandLines,
         NEW a \in Readings, NEW b \in Readings
  PROVE  a = b
<1> DEFINE In(i, uses, others) == \E n \in OptionNames : <<i, n>> \in uses /\ <<i, n>> \notin others
           Differ == {i \in DOMAIN given : In(i, a, b) \/ In(i, b, a)}
<1>1. PICK n \in Nat : DOMAIN given = 1..n
  BY GivenArguments
<1>2. ASSUME NEW x \in Readings, NEW y \in Readings, NEW i \in DOMAIN given, In(i, x, y),
             \A j \in DOMAIN given : j < i => ~In(j, y, x)
      PROVE  FALSE
  <2>1. PICK name \in OptionNames : <<i, name>> \in x /\ <<i, name>> \notin y
    BY <1>2
  <2>2. IsUse(i, name)
    <3>1. IsUse(<<i, name>>[1], <<i, name>>[2])
      BY <2>1, ReadingFacts
    <3> QED
      BY <3>1
  <2>3. PICK v \in y : i \in PlacesAt(v[1], v[2])
    <3>1. given[i].dashes # 0
      BY <2>2, OneName
    <3> QED
      BY <3>1, ReadingFacts
  <2>4. v \in (DOMAIN given) \X OptionNames /\ v = <<v[1], v[2]>> /\ IsUse(v[1], v[2])
    BY ReadingFacts
  <2>5. v[1] # i
    <3>1. v[1] = i => v[2] = name
      BY <2>2, <2>4, OneName
    <3> QED
      BY <2>1, <2>4, <3>1
  <2>6. v[1] < i
    BY <1>1, <2>3, <2>4, <2>5, PlacesAre
  <2>7. v \in x
    <3>1. ~In(v[1], y, x)
      BY <1>2, <2>4, <2>6
    <3> QED
      BY <2>4, <3>1
  <2>8. v # <<i, name>>
    BY <2>5
  <2>9. PlacesAt(v[1], v[2]) \cap PlacesAt(i, name) = {}
    <3>1. PlacesAt(v[1], v[2]) \cap PlacesAt(<<i, name>>[1], <<i, name>>[2]) = {}
      BY <2>1, <2>7, <2>8, ReadingFacts
    <3> QED
      BY <3>1
  <2> QED
    BY <2>3, <2>9, PlacesAre
<1>3. Differ = {}
  <2> SUFFICES ASSUME Differ # {} PROVE FALSE
    OBVIOUS
  <2> HIDE DEF In
  <2>1. Differ \in SUBSET Nat
    BY <1>1
  <2> DEFINE i == Min(Differ)
  <2>2. i \in Differ /\ \A j \in Differ : i <= j
    BY <2>1, MinIsElement
  <2> HIDE DEF i
  <2>3. \A j \in DOMAIN given : j < i => ~In(j, a, b) /\ ~In(j, b, a)
    BY <1>1, <2>2
  <2> QED
    BY <1>2, <2>2, <2>3
<1>4. ASSUME NEW u \in a \cup b PROVE u \in a /\ u \in b
  <2>1. u \in (DOMAIN given) \X OptionNames
    BY ReadingFacts
  <2>2. PICK i \in DOMAIN given, name \in OptionNames : u = <<i, name>>
    BY <2>1
  <2> QED
    BY <1>3, <1>4, <2>2
<1> QED
  BY <1>4

-------------------------------------------------------------------------------
(* What is recorded.                                                       *)

(* An option that may not be repeated has nothing recorded until it is     *)
(* looked for, and one value at most afterwards.                           *)
OnceEach ==
  \A n \in OptionNames \ (Repeatable \cup {"positional"}) :
    /\ Len(result[n]) <= 1
    /\ \A j \in DOMAIN Steps : step <= j /\ Steps[j].long = n => result[n] = << >>

(* The positional arguments are recorded when the line is accepted.        *)
Positioned ==
  IF outcome = "accepted"
  THEN Cardinality(Left) = Positionals /\ Len(result["positional"]) = Positionals
  ELSE result["positional"] = << >>

(* A step records a value for the option that is looked for, or none.      *)
LEMMA Recording ==
  ASSUME Next
  PROVE  /\ outcome = "parsing" /\ UNCHANGED <<program, given>>
         /\ \/ UNCHANGED result /\ step' \in {step, step + 1} /\ outcome' # "accepted"
            \/ /\ step \in DOMAIN Steps /\ step' \in {step, step + 1} /\ UNCHANGED outcome
               /\ Now.kind \notin {"list", "pairs"} => step' = step + 1
               /\ \E v : Record(v)
            \/ ParsePosArgs
<1>1. outcome = "parsing" /\ UNCHANGED <<program, given>>
  BY DEF Next, CheckHelp, ParseOne, ParsePairs, ListMore, ListClose,
         ListInsert, CheckUnknownOpts, ParsePosArgs, At, Parsing
<1> DEFINE quiet == UNCHANGED result /\ step' \in {step, step + 1} /\ outcome' # "accepted"
<1>2. ASSUME UNCHANGED result, \/ Proceed /\ UNCHANGED outcome
                               \/ UNCHANGED step /\ UNCHANGED outcome
                               \/ UNCHANGED step /\ outcome' \in {"help", "exit", "refused"}
      PROVE  quiet
  BY <1>1, <1>2 DEF Proceed
<1> HIDE DEF quiet
<1>3. CASE CheckHelp
  <2>1. \/ UNCHANGED result /\ Proceed /\ UNCHANGED outcome
        \/ UNCHANGED result /\ UNCHANGED step /\ outcome' = "help"
    BY <1>3, Zenon DEF CheckHelp, End
  <2> QED
    BY <1>1, <1>2, <2>1 DEF quiet
<1>4. CASE ParseOne
  <2>1. \/ UNCHANGED result /\ Proceed /\ UNCHANGED outcome
        \/ (\E v : Record(v)) /\ Proceed /\ UNCHANGED outcome
        \/ UNCHANGED result /\ UNCHANGED step /\ outcome' \in {"exit", "refused"}
    BY <1>4, Zenon DEF ParseOne, End
  <2>2. step \in DOMAIN Steps
    BY <1>4 DEF ParseOne, At
  <2>3. Proceed => step' = step + 1
    BY DEF Proceed
  <2> QED
    BY <1>1, <1>2, <2>1, <2>2, <2>3 DEF quiet
<1>5. CASE ParsePairs \/ ListMore
  <2>1. \/ UNCHANGED result /\ Proceed /\ UNCHANGED outcome
        \/ (\E v : Record(v)) /\ UNCHANGED step /\ UNCHANGED outcome
        \/ UNCHANGED result /\ UNCHANGED step /\ outcome' \in {"exit", "refused"}
    <3>1. CASE ParsePairs
      BY <3>1, Zenon DEF ParsePairs, End
    <3>2. CASE ListMore
      BY <3>2, Zenon DEF ListMore, End
    <3> QED
      BY <1>5, <3>1, <3>2
  <2>2. step \in DOMAIN Steps /\ Now.kind \in {"list", "pairs"}
    BY <1>5 DEF ParsePairs, ListMore, At, Now
  <2> QED
    BY <1>1, <1>2, <2>1, <2>2 DEF quiet
<1>6. CASE ListClose \/ ListInsert
  <2>1. \/ UNCHANGED result /\ Proceed /\ UNCHANGED outcome
        \/ UNCHANGED result /\ UNCHANGED step /\ UNCHANGED outcome
        \/ UNCHANGED result /\ UNCHANGED step /\ outcome' = "refused"
    BY <1>6, Zenon DEF ListClose, ListInsert, End
  <2> QED
    BY <1>1, <1>2, <2>1 DEF quiet
<1>7. CASE CheckUnknownOpts
  <2>1. \/ UNCHANGED result /\ Proceed /\ UNCHANGED outcome
        \/ UNCHANGED result /\ UNCHANGED step /\ outcome' = "exit"
    BY <1>7, Zenon DEF CheckUnknownOpts, End
  <2> QED
    BY <1>1, <1>2, <2>1 DEF quiet
<1> QED
  BY <1>1, <1>3, <1>4, <1>5, <1>6, <1>7 DEF Next, quiet

(* An option that may not be repeated is recorded once at most, and the    *)
(* positional arguments are recorded in the end, when no more and no less  *)
(* than the program takes are left.                                        *)
THEOREM RecordedOnce == Spec => [](OnceEach /\ Positioned)
<1>1. Init => OnceEach /\ Positioned
  <2> SUFFICES ASSUME Init PROVE OnceEach /\ Positioned
    OBVIOUS
  <2>1. \A n \in OptionNames : result[n] = << >>
    BY DEF Init
  <2>2. "positional" \in OptionNames /\ outcome = "parsing"
    BY DEF OptionNames, Init
  <2> QED
    BY <2>1, <2>2 DEF OnceEach, Positioned
<1>2. TypeOK /\ Argued /\ OnceEach /\ Positioned /\ [Next]_vars => (OnceEach /\ Positioned)'
  <2> SUFFICES ASSUME TypeOK, Argued, OnceEach, Positioned, [Next]_vars
               PROVE  OnceEach' /\ Positioned'
    OBVIOUS
  <2>1. Len(Steps) \in Nat /\ DOMAIN Steps = 1..Len(Steps) /\ step \in Nat
    BY StepsAreFinite DEF TypeOK
  <2>2. UNCHANGED <<program, given>> => Steps' = Steps /\ Positionals' = Positionals
    BY DEF Steps, Positionals
  <2>3. CASE UNCHANGED vars
    BY <2>2, <2>3 DEF vars, OnceEach, Positioned, Left
  <2>4. ASSUME Next PROVE /\ outcome = "parsing" /\ Steps' = Steps /\ Positionals' = Positionals
                          /\ result["positional"] = << >>
    BY <2>2, <2>4, Recording DEF Positioned
  <2>5. CASE UNCHANGED result /\ step' \in {step, step + 1} /\ outcome' # "accepted" /\ Next
    <3>1. OnceEach'
      BY <2>1, <2>4, <2>5 DEF OnceEach
    <3> QED
      BY <2>4, <2>5, <3>1 DEF Positioned
  <2>6. CASE /\ Next
             /\ step \in DOMAIN Steps /\ step' \in {step, step + 1} /\ UNCHANGED outcome
             /\ Now.kind \notin {"list", "pairs"} => step' = step + 1
             /\ \E v : Record(v)
    <3> DEFINE name == Steps[step].long
    <3>1. PICK v : result' = [result EXCEPT ![name] = Append(@, v)]
      BY <2>6 DEF Record, Now
    <3>2. /\ name \in OptionNames \ {"positional"}
          /\ name \notin Repeatable => step' = step + 1
          /\ \A j \in DOMAIN Steps : Steps[j].long = name => j = step
      BY <2>6, StepsAreDistinct, OptionsAreNamed DEF TypeOK, Now
    <3> HIDE DEF name
    <3>3. /\ \A n \in OptionNames \ {name} : result'[n] = result[n]
          /\ result'[name] = Append(result[name], v)
      BY <3>1, <3>2 DEF Argued
    <3>4. ASSUME NEW n \in OptionNames \ (Repeatable \cup {"positional"})
          PROVE  /\ Len(result'[n]) <= 1
                 /\ \A j \in DOMAIN Steps :
                      step' <= j /\ Steps[j].long = n => result'[n] = << >>
      <4>1. CASE n # name
        BY <2>1, <2>6, <3>3, <3>4, <4>1 DEF OnceEach
      <4>2. CASE n = name
        <5>1. result[name] = << >>
          BY <2>1, <2>6, <3>4, <4>2 DEF OnceEach, name
        <5>2. Len(result'[name]) = 1
          BY <3>3, <5>1
        <5>3. \A j \in DOMAIN Steps : ~(step' <= j /\ Steps[j].long = name)
          BY <2>1, <3>2, <3>4, <4>2
        <5> QED
          BY <4>2, <5>2, <5>3
      <4> QED
        BY <4>1, <4>2
    <3>5. OnceEach'
      BY <2>4, <2>6, <3>4 DEF OnceEach
    <3>6. Positioned'
      <4>1. result'["positional"] = result["positional"]
        BY <3>2, <3>3 DEF OptionNames
      <4> QED
        BY <2>4, <2>6, <4>1 DEF Positioned
    <3> QED
      BY <3>5, <3>6
  <2>7. CASE ParsePosArgs
    <3>1. /\ UNCHANGED <<argv, step>>
          /\ \/ outcome' = "exit" /\ UNCHANGED result
             \/ /\ Cardinality(Left) = Positionals /\ ~(Cardinality(Left) > 1)
                /\ result' = [result EXCEPT !["positional"] =
                                IF Left = {} THEN << >> ELSE << argv[Min(Left)] >>]
      BY <2>7 DEF ParsePosArgs, End
    <3>2. Next /\ Left' = Left
      BY <2>7, <3>1, Recording DEF Next, Left
    <3>3. CASE outcome' = "exit" /\ UNCHANGED result
      BY <2>1, <2>4, <3>1, <3>2, <3>3 DEF OnceEach, Positioned
    <3>4. CASE /\ Cardinality(Left) = Positionals /\ ~(Cardinality(Left) > 1)
               /\ result' = [result EXCEPT !["positional"] =
                               IF Left = {} THEN << >> ELSE << argv[Min(Left)] >>]
      <4> DEFINE pos == IF Left = {} THEN << >> ELSE << argv[Min(Left)] >>
      <4>1. Len(pos) = Positionals
        <5>1. IsFiniteSet(Left) /\ Cardinality(Left) \in Nat
          <6>1. PICK n \in Nat : given \in [1..n -> Arguments]
            BY GivenArguments DEF Argued
          <6>2. Left \subseteq 1..n /\ IsFiniteSet(1..n)
            BY <6>1, FS_Interval DEF Left, TypeOK
          <6> QED
            BY <6>2, FS_Subset, FS_CardinalityType
        <5>2. Left = {} <=> Cardinality(Left) = 0
          BY <5>1, FS_EmptySet
        <5> QED
          BY <3>4, <5>1, <5>2
      <4> HIDE DEF pos
      <4>2. /\ result'["positional"] = pos
            /\ \A n \in OptionNames \ {"positional"} : result'[n] = result[n]
        BY <3>4 DEF pos, Argued, OptionNames
      <4>3. OnceEach'
        BY <2>4, <3>1, <3>2, <4>2 DEF OnceEach
      <4>4. Positioned'
        <5>1. outcome' \in {"exit", "accepted"}
          BY <2>7 DEF ParsePosArgs, End
        <5>2. outcome' = "accepted"
          BY <2>7, <3>4 DEF ParsePosArgs
        <5> QED
          BY <2>4, <3>2, <3>4, <4>1, <4>2, <5>2 DEF Positioned
      <4> QED
        BY <4>3, <4>4
    <3> QED
      BY <3>1, <3>3, <3>4
  <2> QED
    BY <2>3, <2>5, <2>6, <2>7, Recording
<1> QED
  BY <1>1, <1>2, TypeCorrect, AccountIsKept, PTL DEF Spec

(* If the help texts describe every argument, nothing follows the name of  *)
(* an option and no flag has a value.                                      *)
LEMMA NamedInFull ==
  ASSUME ~Undescribed, NEW a \in Arguments
  PROVE  /\ ~a.more
         /\ a.dashes = 2 /\ a.name \in Flags => a.value = ""
<1> DEFINE Valued == [dashes : {2}, name : Names \ Flags, more : {FALSE}, value : Words]
<1>1. \/ \E w : a = Word(w) \/ a = Short(w) \/ a = Long(w)
      \/ a \in Valued
  <2>1. Arguments =
          {Word(w) : w \in Words}
            \cup {Short(o.short) : o \in {o \in AllOptions : o.long \in Names /\ o.short # ""}}
            \cup {Long(n) : n \in Names}
            \cup Valued \cup {}
    BY Zenon DEF Arguments
  <2> QED
    BY <2>1
<1>2. CASE \E w : a = Word(w) \/ a = Short(w) \/ a = Long(w)
  <2>1. \A w : /\ Word(w).more = FALSE /\ Short(w).more = FALSE /\ Long(w).more = FALSE
               /\ Word(w).value = "" /\ Short(w).value = "" /\ Long(w).value = ""
    BY DEF Word, Short, Long, Arg
  <2>2. a.more = FALSE /\ a.value = ""
    BY <1>2, <2>1
  <2> QED
    BY <2>2
<1>3. CASE a \in Valued
  BY <1>3
<1> QED
  BY <1>1, <1>2, <1>3

(* An account of all that is recorded, when nothing but words is left, is  *)
(* a reading of the line.                                                  *)
LEMMA AccountIsReading ==
  ASSUME ~Undescribed, TypeOK, Argued, OnceEach,
         \A i \in Left : given[i].dashes = 0,
         NEW from \in [Recorded -> DOMAIN given], AccountedBy(from)
  PROVE  \E uses \in Readings :
           /\ Others(uses) = Left
           /\ \A u, v \in uses : u # v /\ u[2] = v[2] => u[2] \in Repeatable
           /\ \A name \in OptionNames \ {"positional"} : ValuesRead(uses, name, result[name])
<1> DEFINE uses == {u \in (DOMAIN given) \X OptionNames : \E r \in Recorded : u = <<from[r], r[1]>>}
<1>1. PICK n \in Nat : given \in [1..n -> Arguments]
  BY GivenArguments DEF Argued
<1>2. \A r \in Recorded : /\ r[1] \in OptionNames \ {"positional"}
                          /\ r[2] \in DOMAIN result[r[1]] /\ r = <<r[1], r[2]>>
  BY RecordedPairs
<1>3. ASSUME NEW r \in Recorded
      PROVE  <<from[r], r[1]>> \in uses
  BY <1>2
<1>4. ASSUME NEW u \in uses
      PROVE  \E r \in Recorded : u[1] = from[r] /\ u[2] = r[1] /\ u = <<from[r], r[1]>>
  OBVIOUS
<1> HIDE DEF uses
<1>5. uses \in SUBSET Uses
  <2> SUFFICES ASSUME NEW u \in uses PROVE u \in Uses
    OBVIOUS
  <2>1. u \in (DOMAIN given) \X OptionNames
    BY DEF uses
  <2>2. IsUse(u[1], u[2])
    BY <1>4 DEF AccountedBy
  <2>3. ~given[u[1]].more
    BY <1>1, <2>1, NamedInFull
  <2>4. u[2] \in Flags => given[u[1]].value = ""
    <3>1. PICK j \in DOMAIN Steps : Steps[j].long = u[2]
      BY <2>2, UseHasStep
    <3>2. IsOption(u[1], Steps[j])
      BY <2>2, <3>1, UseIsOption DEF TypeOK
    <3>3. u[2] \in Flags => Steps[j].short = ""
      BY <3>1, OptionsAreNamed DEF TypeOK
    <3>4. u[2] \in Flags => given[u[1]].dashes = 2 /\ given[u[1]].name = u[2]
      BY <3>1, <3>2, <3>3, OptionFields
    <3> QED
      BY <1>1, <2>1, <3>4, NamedInFull
  <2> QED
    BY <2>1, <2>2, <2>3, <2>4 DEF Uses
<1>6. \A u \in uses : PlacesAt(u[1], u[2]) \subseteq {i \in DOMAIN given : argv[i] = Null}
  BY <1>4 DEF AccountedBy
<1>7. ASSUME NEW u \in uses, NEW v \in uses, u # v
      PROVE  PlacesAt(u[1], u[2]) \cap PlacesAt(v[1], v[2]) = {}
  <2>1. PICK r \in Recorded : u[1] = from[r] /\ u[2] = r[1] /\ u = <<from[r], r[1]>>
    BY <1>4
  <2>2. PICK q \in Recorded : v[1] = from[q] /\ v[2] = q[1] /\ v = <<from[q], q[1]>>
    BY <1>4
  <2>3. r # q
    BY <1>7, <2>1, <2>2
  <2> QED
    BY <2>1, <2>2, <2>3 DEF AccountedBy
<1>8. Others(uses) = Left
  <2>1. ASSUME NEW i \in DOMAIN given
        PROVE  argv[i] = Null <=> \E u \in uses : i \in PlacesAt(u[1], u[2])
    <3>1. ASSUME argv[i] = Null PROVE \E u \in uses : i \in PlacesAt(u[1], u[2])
      <4>1. PICK r \in Recorded : i \in PlacesAt(from[r], r[1])
        BY <3>1 DEF AccountedBy
      <4>2. <<from[r], r[1]>> \in uses
        BY <1>3
      <4> QED
        BY <4>1, <4>2
    <3> QED
      BY <1>6, <3>1
  <2>2. DOMAIN argv = DOMAIN given
    BY DEF TypeOK
  <2> QED
    BY <2>1, <2>2 DEF Others, Left
<1>9. uses \in Readings
  BY <1>5, <1>6, <1>7, <1>8 DEF Readings
<1>10. ASSUME NEW u \in uses, NEW v \in uses, u # v, u[2] = v[2]
       PROVE  u[2] \in Repeatable
  <2>1. PICK r \in Recorded : u[2] = r[1] /\ u = <<from[r], r[1]>>
    BY <1>4
  <2>2. PICK q \in Recorded : v[2] = q[1] /\ v = <<from[q], q[1]>>
    BY <1>4
  <2>3. r # q /\ r[1] = q[1]
    BY <1>10, <2>1, <2>2
  <2>4. r[2] # q[2] /\ r[2] \in DOMAIN result[r[1]] /\ q[2] \in DOMAIN result[r[1]]
    BY <1>2, <2>3
  <2>5. result[r[1]] \in Seq(Given) /\ r[1] \in OptionNames \ {"positional"}
    BY <1>2 DEF Argued
  <2>6. ~(Len(result[r[1]]) <= 1)
    BY <2>4, <2>5
  <2> QED
    BY <2>1, <2>5, <2>6 DEF OnceEach
<1>11. ASSUME NEW name \in OptionNames \ {"positional"}
       PROVE  ValuesRead(uses, name, result[name])
  <2> DEFINE f == [k \in DOMAIN result[name] |-> from[<<name, k>>]]
  <2>1. \A k \in DOMAIN result[name] : <<name, k>> \in Recorded
    BY RecordedPairs
  <2>2. f \in [DOMAIN result[name] -> DOMAIN given]
    BY <2>1
  <2>3. {f[k] : k \in DOMAIN result[name]} = {i \in DOMAIN given : <<i, name>> \in uses}
    <3>1. ASSUME NEW k \in DOMAIN result[name] PROVE <<f[k], name>> \in uses
      <4>1. <<from[<<name, k>>], <<name, k>>[1]>> \in uses
        BY <1>3, <2>1
      <4> QED
        BY <4>1
    <3>2. ASSUME NEW i \in DOMAIN given, <<i, name>> \in uses
          PROVE  \E k \in DOMAIN result[name] : f[k] = i
      <4>1. PICK r \in Recorded : <<i, name>> = <<from[r], r[1]>>
        BY <1>4, <3>2
      <4>2. r[1] = name /\ r[2] \in DOMAIN result[name] /\ r = <<name, r[2]>> /\ from[r] = i
        BY <1>2, <4>1
      <4> QED
        BY <4>2
    <3>3. \A k \in DOMAIN result[name] : f[k] \in DOMAIN given
      BY <2>2
    <3> HIDE DEF f
    <3> QED
      BY <3>1, <3>2, <3>3
  <2>4. \A k \in DOMAIN result[name] : result[name][k] = ValueAt(f[k], name)
    <3> SUFFICES ASSUME NEW k \in DOMAIN result[name]
                 PROVE  result[name][k] = ValueAt(f[k], name)
      OBVIOUS
    <3> DEFINE r == <<name, k>>
    <3>1. r \in Recorded /\ r[1] = name /\ r[2] = k
      BY <2>1
    <3>2. result[r[1]][r[2]] = ValueAt(from[r], r[1])
      BY <3>1 DEF AccountedBy
    <3> QED
      BY <3>1, <3>2
  <2>5. \A k, l \in DOMAIN result[name] : k < l => Before(f[k], f[l])
    <3> SUFFICES ASSUME NEW k \in DOMAIN result[name], NEW l \in DOMAIN result[name], k < l
                 PROVE  Before(f[k], f[l])
      OBVIOUS
    <3> DEFINE r == <<name, k>>
               q == <<name, l>>
    <3>1. r \in Recorded /\ q \in Recorded /\ r[1] = q[1] /\ r[2] = k /\ q[2] = l
      BY <2>1
    <3>2. Before(from[r], from[q])
      BY <3>1 DEF AccountedBy
    <3> QED
      BY <3>2
  <2> HIDE DEF f
  <2> QED
    BY <2>2, <2>3, <2>4, <2>5 DEF ValuesRead
<1> QED
  BY <1>8, <1>9, <1>10, <1>11

(* Where the help texts describe the arguments, whatever line they make    *)
(* up, a program goes on only with what the line says from left to right:  *)
(* each option's values, all of them, in their order, and the positional   *)
(* argument.                                                               *)
THEOREM LineReadAsWritten ==
  ASSUME ~Undescribed
  PROVE  Spec => []ReadAsWritten
<1>1. /\ TypeOK /\ Argued /\ LeftOver /\ Accounts /\ OnceEach /\ Positioned
      => ReadAsWritten
  <2> SUFFICES ASSUME TypeOK, Argued, LeftOver, Accounts, OnceEach, Positioned,
                      outcome = "accepted"
               PROVE  \E uses \in Readings :
                        /\ Described(uses)
                        /\ \A name \in OptionNames \ {"positional"} :
                             ValuesRead(uses, name, result[name])
                        /\ Len(result["positional"]) = Positionals
                        /\ \A i \in Others(uses) : result["positional"] = << given[i] >>
    BY DEF ReadAsWritten
  <2>1. \A i \in Left : given[i].dashes = 0 /\ result["positional"] = << given[i] >>
    BY DEF LeftOver
  <2>2. PICK from \in [Recorded -> DOMAIN given] : AccountedBy(from)
    BY DEF Accounts, AccountKept
  <2>3. PICK uses \in Readings :
          /\ Others(uses) = Left
          /\ \A u, v \in uses : u # v /\ u[2] = v[2] => u[2] \in Repeatable
          /\ \A name \in OptionNames \ {"positional"} : ValuesRead(uses, name, result[name])
    BY <2>1, <2>2, AccountIsReading
  <2>4. Cardinality(Left) = Positionals /\ Len(result["positional"]) = Positionals
    BY DEF Positioned
  <2>5. Described(uses)
    BY <2>3, <2>4 DEF Described
  <2> QED
    BY <2>1, <2>3, <2>4, <2>5
<1> QED
  BY <1>1, TypeCorrect, AccountIsKept, RecordedOnce, PTL

-------------------------------------------------------------------------------
(* A line that the help texts describe.                                    *)

(* parse_opt has taken a use as a whole, or nothing of it, and no word.    *)
Whole(uses) ==
  /\ \A u \in uses : \A p \in PlacesAt(u[1], u[2]) : argv[p] = Null <=> argv[u[1]] = Null
  /\ \A i \in Others(uses) : argv[i] # Null

(* Nothing is left of the options that were looked for.                    *)
Passed(uses) ==
  \A j \in DOMAIN Steps : \A u \in uses :
    (j < step \/ (j = step /\ buf.json)) /\ u[2] = Steps[j].long => argv[u[1]] = Null

(* In a reading whose values are no options, a use of an option is one of  *)
(* the reading's.                                                          *)
LEMMA UseIsRead ==
  ASSUME program \in Programs, NEW uses \in Readings, PlainValues(uses),
         NEW i \in DOMAIN given, NEW name, IsUse(i, name)
  PROVE  \E u \in uses : u[1] = i /\ u[2] = name
<1>1. given[i].dashes # 0
  BY OneName
<1>2. PICK u \in uses : i \in PlacesAt(u[1], u[2])
  BY <1>1, ReadingFacts
<1>3. u[1] = i
  <2> SUFFICES ASSUME u[1] # i PROVE FALSE
    OBVIOUS
  <2>1. i = u[1] + 1 /\ ~(u[2] \in Flags \/ given[u[1]].value # "")
    BY <1>2 DEF PlacesAt
  <2>2. ValueAt(u[1], u[2]) = given[i]
    BY <2>1 DEF ValueAt
  <2> QED
    BY <1>1, <2>2 DEF PlainValues
<1>4. IsUse(u[1], u[2])
  BY ReadingFacts
<1> QED
  BY <1>3, <1>4, OneName

(* Positions are natural numbers.                                          *)
LEMMA NumbersUpTo ==
  ASSUME NEW n \in Nat
  PROVE  \A k \in 1..n : k \in Nat
OBVIOUS

(* A search that finds no value found the option without one.              *)
LEMMA ParseOptLacksValue ==
  ASSUME NEW n \in Nat, NEW args, DOMAIN args = 1..n, NEW opt, NEW has_value,
         has_value \in BOOLEAN, ParseOpt(args, opt, has_value).found = "no value"
  PROVE  \E i \in DOMAIN args :
           /\ Matches(args[i], opt) /\ has_value = TRUE /\ args[i].value = ""
           /\ ~(i + 1 \in DOMAIN args /\ args[i + 1] # Null)
<1> DEFINE hits == {i \in DOMAIN args : Matches(args[i], opt)}
           i == Min(hits)
           r == ParseOpt(args, opt, has_value)
<1>1. \A a, f, v : Found(a, f, v).found = f
  BY DEF Found
<1>2. \/ hits = {} /\ r = Found(args, "no", Null)
      \/ \E a, v : r = Found(a, "yes", v)
      \/ /\ hits # {} /\ has_value /\ ~(args[i].value # "")
         /\ ~(i + 1 \in DOMAIN args /\ args[i + 1] # Null)
  BY Zenon DEF ParseOpt
<1> HIDE DEF r, i
<1>3. r.found = "no value"
  BY DEF r
<1>4. \A a, v : r # Found(a, "yes", v) /\ r # Found(a, "no", v)
  <2>1. \A a, v : Found(a, "yes", v).found = "yes" /\ Found(a, "no", v).found = "no"
    BY <1>1
  <2> QED
    BY <1>3, <2>1
<1>5. /\ hits # {} /\ has_value /\ ~(args[i].value # "")
      /\ ~(i + 1 \in DOMAIN args /\ args[i + 1] # Null)
  BY <1>2, <1>4, Zenon
<1>6. i \in hits
  <2>1. \A k \in 1..n : k \in Nat
    BY NumbersUpTo, Zenon
  <2>2. hits \in SUBSET Nat
    BY <2>1, Zenon
  <2> HIDE DEF hits
  <2> QED
    BY <1>5, <2>2, MinIsElement DEF i
<1>7. has_value = TRUE
  BY <1>5
<1> QED
  BY <1>5, <1>6, <1>7

(* The outcomes of a search.                                               *)
LEMMA ParseOptFinds ==
  ASSUME NEW args, NEW opt, NEW has_value
  PROVE  ParseOpt(args, opt, has_value).found \in {"no", "yes", "no value"}
<1> DEFINE r == ParseOpt(args, opt, has_value)
<1>1. \E a, v : r = Found(a, "no", v) \/ r = Found(a, "yes", v) \/ r = Found(a, "no value", v)
  BY Zenon DEF ParseOpt
<1> HIDE DEF r
<1>2. \A a, f, v : Found(a, f, v).found = f
  BY DEF Found
<1>3. PICK a, v : r = Found(a, "no", v) \/ r = Found(a, "yes", v) \/ r = Found(a, "no value", v)
  BY <1>1
<1>4. r.found = "no" \/ r.found = "yes" \/ r.found = "no value"
  <2>1. /\ Found(a, "no", v).found = "no" /\ Found(a, "yes", v).found = "yes"
        /\ Found(a, "no value", v).found = "no value"
    BY <1>2
  <2> QED
    BY <1>3, <2>1
<1> QED
  BY <1>4 DEF r

(* What a step finds of such a reading: a whole use, or nothing because    *)
(* nothing is left; a value is never missing.                              *)
SearchFinds(uses, o, r) ==
  \/ /\ r.found = "no" /\ r.args = argv
     /\ \A u \in uses : u[2] = o.long => argv[u[1]] = Null
  \/ /\ r.found = "yes"
     /\ \E u \in uses : u[2] = o.long /\ r.args = Erase(argv, PlacesAt(u[1], u[2]))

(* So it is, whatever was found before.                                    *)
LEMMA Search ==
  ASSUME TypeOK, given \in CommandLines, NEW uses \in Readings, PlainValues(uses),
         Whole(uses), NEW j \in DOMAIN Steps
  PROVE  SearchFinds(uses, Steps[j], ParseArg(Steps[j], NeedsValue(Steps[j])))
<1> DEFINE o == Steps[j]
           has_value == NeedsValue(o)
           r == ParseArg(o, has_value)
           short == ParseOpt(argv, Short(o.short), has_value)
           long == ParseOpt(argv, Long(o.long), has_value)
<1>1. PICK n \in Nat : given \in [1..n -> Arguments]
  BY GivenArguments
<1>2. /\ DOMAIN argv = 1..n /\ DOMAIN given = 1..n
      /\ \A i \in 1..n : argv[i] # Null => argv[i] = given[i]
      /\ program \in Programs
  BY <1>1 DEF TypeOK
<1>3. CASE r.found = "yes"
  <2>1. PICK i \in DOMAIN given :
          IsUse(i, o.long) /\ r.args = Erase(argv, PlacesAt(i, o.long))
    BY <1>3, ParseArgTakes, Zenon
  <2> HIDE DEF o, r
  <2>2. PICK u \in uses : u[1] = i /\ u[2] = o.long
    BY <1>2, <2>1, UseIsRead
  <2>3. SearchFinds(uses, o, r)
    BY <1>3, <2>1, <2>2 DEF SearchFinds
  <2> QED
    BY <2>3 DEF o, r
<1>4. CASE r.found = "no"
  <2>1. r.args = argv
    BY <1>4, ParseArgTakesNothing
  <2>2. (o.short = "" \/ short.found = "no") /\ long.found = "no"
    BY <1>4, Zenon DEF ParseArg
  <2>3. \A i \in DOMAIN argv :
          (o.short # "" => ~Matches(argv[i], Short(o.short))) /\ ~Matches(argv[i], Long(o.long))
    BY <1>2, <2>2, ParseOptFindsNone
  <2>4. ASSUME NEW u \in uses, u[2] = o.long, argv[u[1]] # Null PROVE FALSE
    <3>1. u[1] \in DOMAIN given /\ argv[u[1]] = given[u[1]]
      BY <1>2, <2>4, ReadingFacts
    <3>2. IsUse(u[1], o.long)
      BY <2>4, ReadingFacts
    <3>3. IsOption(u[1], o)
      BY <1>2, <3>2, UseIsOption
    <3> QED
      BY <1>2, <2>3, <3>1, <3>3 DEF IsOption
  <2> HIDE DEF o, r
  <2>5. SearchFinds(uses, o, r)
    BY <1>4, <2>1, <2>4 DEF SearchFinds
  <2> QED
    BY <2>5 DEF o, r
<1>5. CASE r.found = "no value"
  <2>1. \E opt :
          /\ ParseOpt(argv, opt, has_value).found = "no value"
          /\ \/ opt = Short(o.short) /\ o.short # ""
             \/ opt = Long(o.long)
    BY <1>5, Zenon DEF ParseArg
  <2>2. PICK opt :
          /\ ParseOpt(argv, opt, has_value).found = "no value"
          /\ \/ opt = Short(o.short) /\ o.short # ""
             \/ opt = Long(o.long)
    BY <2>1
  <2> HIDE DEF has_value
  <2>3. PICK i \in DOMAIN argv :
          /\ Matches(argv[i], opt) /\ has_value = TRUE /\ argv[i].value = ""
          /\ ~(i + 1 \in DOMAIN argv /\ argv[i + 1] # Null)
    <3>1. has_value \in BOOLEAN
      BY DEF NeedsValue, has_value
    <3> HIDE DEF o, r
    <3> QED
      BY <1>1, <1>2, <2>2, <3>1, ParseOptLacksValue, Zenon
  <2>4. argv[i] # Null /\ argv[i] = given[i] /\ i \in DOMAIN given
    BY <1>2, <2>3 DEF Matches
  <2>5. IsUse(i, o.long)
    <3>1. IsOption(i, o)
      BY <2>2, <2>3, <2>4 DEF IsOption
    <3> QED
      BY <1>2, <3>1, UseIsOption
  <2>6. PICK u \in uses : u[1] = i /\ u[2] = o.long
    BY <1>2, <2>4, <2>5, UseIsRead
  <2>7. o.long \notin Flags
    BY <1>2, <2>3, OptionsAreNamed DEF has_value
  <2>8. PlacesAt(i, o.long) = {i, i + 1}
    BY <2>3, <2>4, <2>7 DEF PlacesAt
  <2>9. i + 1 \in DOMAIN argv /\ argv[i + 1] # Null
    BY <1>2, <2>4, <2>6, <2>8, ReadingFacts DEF Whole
  <2> QED
    BY <2>3, <2>9
<1>6. r.found \in {"no", "yes", "no value"}
  BY ParseOptFinds, Zenon DEF ParseArg
<1> QED
  BY <1>3, <1>4, <1>5, <1>6

(* The line stays as it is, and so do its readings.                        *)
LEMMA SameLine ==
  ASSUME UNCHANGED <<program, given>>
  PROVE  /\ Readings' = Readings /\ Steps' = Steps
         /\ \A uses : /\ Others(uses)' = Others(uses)
                      /\ Described(uses)' <=> Described(uses)
                      /\ PlainValues(uses)' <=> PlainValues(uses)
<1>1. \A x, n : /\ PlacesAt(x, n)' = PlacesAt(x, n) /\ ValueAt(x, n)' = ValueAt(x, n)
                /\ IsUse(x, n)' <=> IsUse(x, n)
  BY UsesAreKept
<1>2. Steps' = Steps /\ Positionals' = Positionals
  BY DEF Steps, Positionals
<1>3. Uses' = Uses
  BY <1>1 DEF Uses
<1>4. \A uses : Others(uses)' = Others(uses)
  BY <1>1 DEF Others
<1>5. Readings' = Readings
  BY <1>1, <1>3, <1>4 DEF Readings
<1>6. \A uses : Described(uses)' <=> Described(uses)
  BY <1>2, <1>4 DEF Described
<1>7. \A uses : PlainValues(uses)' <=> PlainValues(uses)
  BY <1>1 DEF PlainValues
<1> QED
  BY <1>2, <1>4, <1>5, <1>6, <1>7

(* A use that is erased is gone; the others are as they were.              *)
LEMMA ErasingAUse ==
  ASSUME TypeOK, UNCHANGED <<program, given>>, NEW uses \in Readings, Whole(uses),
         NEW u \in uses, argv' = Erase(argv, PlacesAt(u[1], u[2]))
  PROVE  /\ Whole(uses)'
         /\ \A v \in uses : argv'[v[1]] = Null <=> v = u \/ argv[v[1]] = Null
<1>1. DOMAIN argv = DOMAIN given
  BY DEF TypeOK
<1>2. \A p \in DOMAIN given :
        argv'[p] = IF p \in PlacesAt(u[1], u[2]) THEN Null ELSE argv[p]
  BY <1>1 DEF Erase
<1>3. \A v \in uses : \A p \in PlacesAt(v[1], v[2]) :
        p \in DOMAIN given /\ (argv'[p] = Null <=> v = u \/ argv[p] = Null)
  BY <1>2, ReadingFacts
<1>4. \A v \in uses : v[1] \in PlacesAt(v[1], v[2])
  BY PlacesAre
<1>5. \A i \in Others(uses) : i \in DOMAIN given /\ i \notin PlacesAt(u[1], u[2])
  BY DEF Others
<1>6. \A v \in uses : argv'[v[1]] = Null <=> v = u \/ argv[v[1]] = Null
  BY <1>3, <1>4
<1>7. \A v \in uses : \A p \in PlacesAt(v[1], v[2]) : argv'[p] = Null <=> argv'[v[1]] = Null
  BY <1>3, <1>6 DEF Whole
<1>8. \A i \in Others(uses) : argv'[i] # Null
  BY <1>2, <1>5 DEF Whole
<1>9. /\ \A x, n : PlacesAt(x, n)' = PlacesAt(x, n)
      /\ Others(uses)' = Others(uses)
  BY UsesAreKept, SameLine
<1>10. Whole(uses)'
  BY <1>7, <1>8, <1>9 DEF Whole
<1> QED
  BY <1>6, <1>10

(* A step that erases nothing leaves the uses whole.                       *)
LEMMA ErasingNothing ==
  ASSUME UNCHANGED <<program, given, argv>>, NEW uses, Whole(uses)
  PROVE  Whole(uses)'
<1>1. /\ \A x, n : PlacesAt(x, n)' = PlacesAt(x, n)
      /\ Others(uses)' = Others(uses)
  BY UsesAreKept, SameLine
<1> QED
  BY <1>1 DEF Whole

(* Nothing is left of the option that is looked for.                       *)
Gone(uses, args) ==
  \A v \in uses : step \in DOMAIN Steps /\ v[2] = Steps[step].long => args[v[1]] = Null

(* A step goes on to the next option when nothing is left of this one.     *)
LEMMA PassingOn ==
  ASSUME TypeOK, UNCHANGED <<program, given>>, NEW uses, Passed(uses),
         \A v \in uses : argv[v[1]] = Null => argv'[v[1]] = Null,
         \/ step' = step /\ (buf.json' => buf.json)
         \/ step' = step /\ Gone(uses, argv')
         \/ step' = step + 1 /\ ~buf.json' /\ Gone(uses, argv')
  PROVE  Passed(uses)'
<1>1. Steps' = Steps
  BY SameLine
<1>2. step \in Nat /\ DOMAIN Steps \subseteq Nat
  BY StepsAreFinite DEF TypeOK
<1>3. ASSUME NEW j \in DOMAIN Steps, NEW v \in uses, v[2] = Steps[j].long,
             j < step' \/ (j = step' /\ buf.json')
      PROVE  argv'[v[1]] = Null
  <2>1. CASE j < step \/ (j = step /\ buf.json)
    BY <1>3, <2>1 DEF Passed
  <2>2. CASE j = step /\ Gone(uses, argv')
    BY <1>3, <2>2 DEF Gone
  <2> QED
    BY <1>2, <1>3, <2>1, <2>2
<1> QED
  BY <1>1, <1>3 DEF Passed

(* The text of a list is closed when nothing is left of the list.          *)
Closed == buf.json => step \in DOMAIN Steps /\ Steps[step].kind = "list"

(* No step leaves a list that is closed without inserting it.              *)
LEMMA StaysClosed ==
  ASSUME TypeOK, Closed, Next
  PROVE  Closed'
<1>1. UNCHANGED <<program, given>> /\ Steps' = Steps
  BY Recording, SameLine
<1>2. step \in Nat /\ DOMAIN Steps = 1..Len(Steps) /\ Len(Steps) \in Nat
  BY StepsAreFinite DEF TypeOK
<1>3. CASE CheckHelp \/ CheckUnknownOpts \/ ParsePosArgs
  <2>1. UNCHANGED buf /\ (step = 0 \/ step = Len(Steps) + 1 \/ step = Len(Steps) + 2)
    BY <1>3, Zenon DEF CheckHelp, CheckUnknownOpts, ParsePosArgs, End
  <2>2. ~(step \in DOMAIN Steps)
    BY <1>2, <2>1
  <2> QED
    BY <2>1, <2>2 DEF Closed
<1>4. CASE ParseOne \/ ParsePairs
  <2>1. UNCHANGED buf
    BY <1>4, Zenon DEF ParseOne, ParsePairs, End
  <2>2. Steps[step].kind # "list"
    BY <1>4 DEF ParseOne, ParsePairs, At
  <2> QED
    BY <2>1, <2>2 DEF Closed
<1>5. CASE ListMore
  <2>1. ~buf.json'
    <3>1. ~buf.json /\ (UNCHANGED buf \/ \E n \in Lengths : buf' = Grow(n))
      BY <1>5, Zenon DEF ListMore, End
    <3>2. \A n : Grow(n).json = FALSE
      BY DEF Grow
    <3> QED
      BY <3>1, <3>2
  <2> QED
    BY <2>1 DEF Closed
<1>6. CASE ListClose
  <2>1. step \in DOMAIN Steps /\ Steps[step].kind = "list" /\ ~buf.json
    BY <1>6 DEF ListClose, At
  <2>2. UNCHANGED step \/ UNCHANGED buf
    BY <1>6, Zenon DEF ListClose
  <2> QED
    BY <1>1, <2>1, <2>2 DEF Closed
<1>7. CASE ListInsert
  <2>1. step \in DOMAIN Steps /\ Steps[step].kind = "list"
    BY <1>7 DEF ListInsert, At
  <2>2. UNCHANGED step \/ buf' = EmptyBuf
    BY <1>7, Zenon DEF ListInsert, End
  <2>3. ~EmptyBuf.json
    BY DEF EmptyBuf
  <2> QED
    BY <1>1, <2>1, <2>2, <2>3 DEF Closed
<1> QED
  BY <1>3, <1>4, <1>5, <1>6, <1>7 DEF Next

(* The search of a step, and what it leaves of its option's uses.          *)
LEMMA SearchLeaves ==
  ASSUME TypeOK, given \in CommandLines, UNCHANGED <<program, given>>,
         NEW uses \in Readings, Described(uses), PlainValues(uses), Whole(uses),
         step \in DOMAIN Steps, NEW has_value, has_value = NeedsValue(Now),
         argv' = ParseArg(Now, has_value).args
  PROVE  /\ ParseArg(Now, has_value).found \in {"no", "yes"}
         /\ Whole(uses)'
         /\ \A v \in uses : argv[v[1]] = Null => argv'[v[1]] = Null
         /\ \/ ParseArg(Now, has_value).found = "no"
            \/ Steps[step].kind \notin {"list", "pairs"}
            => Gone(uses, argv')
<1> DEFINE o == Steps[step]
           r == ParseArg(Now, has_value)
<1>1. SearchFinds(uses, o, r)
  <2>1. r = ParseArg(Steps[step], NeedsValue(Steps[step])) /\ o = Steps[step]
    BY DEF Now
  <2> HIDE DEF o, r
  <2>2. SearchFinds(uses, Steps[step], ParseArg(Steps[step], NeedsValue(Steps[step])))
    BY Search
  <2> QED
    BY <2>1, <2>2
<1>2. argv' = r.args
  OBVIOUS
<1> HIDE DEF r
<1>3. CASE /\ r.found = "no" /\ r.args = argv
           /\ \A u \in uses : u[2] = o.long => argv[u[1]] = Null
  <2>1. UNCHANGED argv
    BY <1>2, <1>3
  <2>2. Whole(uses)'
    BY <2>1, ErasingNothing
  <2>3. Gone(uses, argv')
    BY <1>3, <2>1 DEF Gone
  <2> QED
    BY <1>3, <2>1, <2>2, <2>3 DEF r
<1>4. CASE /\ r.found = "yes"
           /\ \E u \in uses : u[2] = o.long /\ r.args = Erase(argv, PlacesAt(u[1], u[2]))
  <2>1. PICK u \in uses : u[2] = o.long /\ r.args = Erase(argv, PlacesAt(u[1], u[2]))
    BY <1>4
  <2>2. /\ Whole(uses)'
        /\ \A v \in uses : argv'[v[1]] = Null <=> v = u \/ argv[v[1]] = Null
    BY <1>2, <2>1, ErasingAUse
  <2>3. ASSUME o.kind \notin {"list", "pairs"}, NEW v \in uses, v[2] = o.long
        PROVE  v = u
    <3>1. o.long \notin Repeatable
      BY <2>3, StepsAreDistinct DEF TypeOK
    <3> QED
      BY <2>1, <2>3, <3>1 DEF Described
  <2>4. o.kind \notin {"list", "pairs"} => Gone(uses, argv')
    BY <2>2, <2>3 DEF Gone
  <2>5. r.found # "no"
    BY <1>4
  <2> QED
    BY <1>4, <2>2, <2>4, <2>5 DEF r
<1> QED
  BY <1>1, <1>3, <1>4 DEF SearchFinds

(* Once all options are passed, what is left is what the reading leaves.   *)
LEMMA AllPassed ==
  ASSUME TypeOK, NEW uses \in Readings, Whole(uses), Passed(uses), step > Len(Steps)
  PROVE  Left = Others(uses)
<1>1. \A u \in uses : argv[u[1]] = Null
  <2> SUFFICES ASSUME NEW u \in uses PROVE argv[u[1]] = Null
    OBVIOUS
  <2>1. PICK j \in DOMAIN Steps : Steps[j].long = u[2]
    BY ReadingFacts, UseHasStep
  <2>2. j < step
    BY StepsAreFinite DEF TypeOK
  <2> QED
    BY <2>1, <2>2 DEF Passed
<1>2. \A i \in DOMAIN given : i \notin Others(uses) => argv[i] = Null
  BY <1>1 DEF Others, Whole
<1>3. \A i \in Others(uses) : i \in DOMAIN given /\ argv[i] # Null
  BY DEF Others, Whole
<1>4. DOMAIN argv = DOMAIN given
  BY DEF TypeOK
<1> QED
  BY <1>2, <1>3, <1>4 DEF Left

(* No step exits, and each leaves the uses taken as a whole and, of the    *)
(* options that it passes, none.                                           *)
LEMMA StepAccepts ==
  ASSUME TypeOK, given \in CommandLines, Closed, Next,
         NEW uses \in Readings, Described(uses), PlainValues(uses),
         Whole(uses), Passed(uses)
  PROVE  /\ outcome' # "exit"
         /\ outcome' = "parsing" => Whole(uses)' /\ Passed(uses)'
<1>1. outcome = "parsing" /\ UNCHANGED <<program, given>>
  BY Recording
<1>2. step \in Nat /\ DOMAIN Steps = 1..Len(Steps) /\ Len(Steps) \in Nat
  BY StepsAreFinite DEF TypeOK
<1>3. ASSUME UNCHANGED argv,
             \/ step' = step /\ (buf.json' => buf.json)
             \/ step' = step /\ Gone(uses, argv)
             \/ step' = step + 1 /\ ~buf.json' /\ Gone(uses, argv)
      PROVE  Whole(uses)' /\ Passed(uses)'
  <2>1. Whole(uses)'
    BY <1>1, <1>3, ErasingNothing
  <2>2. Passed(uses)'
    BY <1>1, <1>3, PassingOn
  <2> QED
    BY <2>1, <2>2
<1>4. CASE CheckHelp
  <2>1. /\ step = 0
        /\ \/ outcome' = "help"
           \/ /\ argv' = ParseArg(HelpOption, FALSE).args
              /\ ParseArg(HelpOption, FALSE).found = "no"
              /\ Proceed /\ UNCHANGED <<buf, outcome>>
    BY <1>4, Zenon DEF CheckHelp, End
  <2>2. CASE outcome' = "help"
    BY <2>2
  <2>3. CASE /\ argv' = ParseArg(HelpOption, FALSE).args
             /\ ParseArg(HelpOption, FALSE).found = "no"
             /\ Proceed /\ UNCHANGED <<buf, outcome>>
    <3>1. UNCHANGED argv
      BY <2>3, ParseArgTakesNothing
    <3>2. step \notin DOMAIN Steps
      BY <1>2, <2>1
    <3>3. step' = step + 1 /\ ~buf.json' /\ Gone(uses, argv)
      BY <2>3, <3>2 DEF Proceed, Closed, Gone
    <3> QED
      BY <1>1, <1>3, <2>3, <3>1, <3>3
  <2> QED
    BY <2>1, <2>2, <2>3
<1>5. ASSUME step \in DOMAIN Steps, ~buf.json, NEW has_value, has_value = NeedsValue(Now),
             argv' = ParseArg(Now, has_value).args,
             \/ /\ \/ ParseArg(Now, has_value).found = "no"
                   \/ Steps[step].kind \notin {"list", "pairs"}
                /\ Proceed /\ UNCHANGED <<buf, outcome>>
             \/ step' = step /\ ~buf.json' /\ UNCHANGED outcome
             \/ outcome' = "refused"
             \/ ParseArg(Now, has_value).found = "no value"
      PROVE  /\ outcome' # "exit"
             /\ outcome' = "parsing" => Whole(uses)' /\ Passed(uses)'
  <2>1. /\ ParseArg(Now, has_value).found \in {"no", "yes"}
        /\ Whole(uses)'
        /\ \A v \in uses : argv[v[1]] = Null => argv'[v[1]] = Null
        /\ \/ ParseArg(Now, has_value).found = "no"
           \/ Steps[step].kind \notin {"list", "pairs"}
           => Gone(uses, argv')
    BY <1>1, <1>5, SearchLeaves
  <2>2. CASE outcome' = "refused"
    BY <2>2
  <2>3. CASE step' = step /\ ~buf.json' /\ UNCHANGED outcome
    BY <1>1, <2>1, <2>3, PassingOn
  <2>4. CASE /\ \/ ParseArg(Now, has_value).found = "no"
                \/ Steps[step].kind \notin {"list", "pairs"}
             /\ Proceed /\ UNCHANGED <<buf, outcome>>
    <3>1. step' = step + 1 /\ ~buf.json' /\ Gone(uses, argv')
      BY <1>5, <2>1, <2>4 DEF Proceed
    <3> QED
      BY <1>1, <2>1, <2>4, <3>1, PassingOn
  <2> QED
    BY <1>5, <2>1, <2>2, <2>3, <2>4
<1>6. CASE ParseOne
  <2> DEFINE has_value == NeedsValue(Now)
  <2>1. step \in DOMAIN Steps /\ Steps[step].kind \notin {"list", "pairs"}
    BY <1>6 DEF ParseOne, At
  <2>2. ~buf.json
    BY <2>1 DEF Closed
  <2> HIDE DEF has_value
  <2>3. /\ argv' = ParseArg(Now, has_value).args
        /\ \/ Proceed /\ UNCHANGED <<buf, outcome>>
           \/ outcome' = "refused"
           \/ ParseArg(Now, has_value).found = "no value"
    BY <1>6, Zenon DEF ParseOne, End, has_value
  <2>4. has_value = NeedsValue(Now)
    BY DEF has_value
  <2> QED
    BY <1>5, <2>1, <2>2, <2>3, <2>4, Zenon
<1>7. CASE ParsePairs
  <2>1. step \in DOMAIN Steps /\ Steps[step].kind = "pairs" /\ TRUE = NeedsValue(Now)
    BY <1>7 DEF ParsePairs, At, Now, NeedsValue
  <2>2. ~buf.json
    BY <2>1 DEF Closed
  <2>3. /\ argv' = ParseArg(Now, TRUE).args
        /\ \/ ParseArg(Now, TRUE).found = "no" /\ Proceed /\ UNCHANGED <<buf, outcome>>
           \/ UNCHANGED step /\ UNCHANGED buf /\ UNCHANGED outcome
           \/ outcome' = "refused"
           \/ ParseArg(Now, TRUE).found = "no value"
    BY <1>7, Zenon DEF ParsePairs, End
  <2>4. UNCHANGED buf => ~buf.json'
    BY <2>2
  <2> QED
    BY <1>5, <2>1, <2>2, <2>3, <2>4, Zenon
<1>8. CASE ListMore
  <2>1. step \in DOMAIN Steps /\ TRUE = NeedsValue(Now) /\ ~buf.json
    BY <1>8 DEF ListMore, At, Now, NeedsValue
  <2>2. /\ argv' = ParseArg(Now, TRUE).args
        /\ \/ (\E n \in Lengths : buf' = Grow(n)) /\ UNCHANGED step /\ UNCHANGED outcome
           \/ ParseArg(Now, TRUE).found = "no value"
    BY <1>8, Zenon DEF ListMore
  <2>3. (\E n \in Lengths : buf' = Grow(n)) => ~buf.json'
    BY DEF Grow
  <2> QED
    BY <1>5, <2>1, <2>2, <2>3, Zenon
<1>9. CASE ListClose
  <2>1. /\ step \in DOMAIN Steps /\ TRUE = NeedsValue(Now) /\ ~buf.json
        /\ UNCHANGED argv /\ UNCHANGED outcome
    BY <1>9 DEF ListClose, At, Now, NeedsValue
  <2>2. /\ ParseArg(Now, TRUE).found = "no"
        /\ \/ UNCHANGED step
           \/ Proceed /\ UNCHANGED buf
    BY <1>9, Zenon DEF ListClose
  <2>3. argv' = ParseArg(Now, TRUE).args
    <3>1. ParseArg(Now, TRUE).args = argv
      BY <2>2, ParseArgTakesNothing
    <3> QED
      BY <2>1, <3>1
  <2>4. Gone(uses, argv')
    BY <1>1, <2>1, <2>2, <2>3, SearchLeaves
  <2>5. Gone(uses, argv)
    BY <2>1, <2>4
  <2>6. \/ step' = step /\ Gone(uses, argv)
        \/ step' = step + 1 /\ ~buf.json' /\ Gone(uses, argv)
    BY <2>1, <2>2, <2>5 DEF Proceed
  <2>7. Whole(uses)' /\ Passed(uses)'
    BY <1>3, <2>1, <2>6
  <2> QED
    BY <1>1, <2>1, <2>7
<1>10. CASE ListInsert
  <2>1. /\ step \in DOMAIN Steps /\ buf.json /\ UNCHANGED argv
        /\ \/ Proceed /\ buf' = EmptyBuf /\ UNCHANGED outcome
           \/ outcome' = "refused"
    BY <1>10, Zenon DEF ListInsert, At, End
  <2>2. Gone(uses, argv)
    BY <1>2, <2>1 DEF Passed, Gone
  <2>3. ~EmptyBuf.json
    BY DEF EmptyBuf
  <2>4. outcome' = "refused" \/ (step' = step + 1 /\ ~buf.json' /\ Gone(uses, argv))
    BY <2>1, <2>2, <2>3 DEF Proceed
  <2> QED
    BY <1>1, <1>3, <2>1, <2>4
<1>11. CASE CheckUnknownOpts
  <2>1. /\ step = Len(Steps) + 1 /\ UNCHANGED argv
        /\ \/ \E i \in Left : argv[i].dashes > 0
           \/ Proceed /\ UNCHANGED <<buf, outcome>>
    BY <1>11, Zenon DEF CheckUnknownOpts
  <2>2. step > Len(Steps) /\ step \notin DOMAIN Steps
    BY <1>2, <2>1
  <2>3. ~\E i \in Left : argv[i].dashes > 0
    <3>1. Left = Others(uses)
      BY <2>2, AllPassed
    <3>2. \A i \in Left : argv[i] = given[i] /\ given[i].dashes = 0
      BY <3>1 DEF Left, TypeOK, Readings
    <3> QED
      BY <3>2
  <2>4. step' = step + 1 /\ ~buf.json' /\ Gone(uses, argv) /\ UNCHANGED outcome
    BY <2>1, <2>2, <2>3 DEF Proceed, Closed, Gone
  <2> QED
    BY <1>1, <1>3, <2>1, <2>4
<1>12. CASE ParsePosArgs
  <2>1. /\ step = Len(Steps) + 2
        /\ \/ Cardinality(Left) > 1 \/ Cardinality(Left) # Positionals
           \/ outcome' = "accepted"
    BY <1>12, Zenon DEF ParsePosArgs
  <2>2. Left = Others(uses)
    BY <1>2, <2>1, AllPassed
  <2>3. Cardinality(Left) = Positionals
    BY <2>2 DEF Described
  <2>4. outcome' = "accepted"
    BY <2>1, <2>3 DEF Positionals
  <2> QED
    BY <2>4
<1> QED
  BY <1>4, <1>6, <1>7, <1>8, <1>9, <1>10, <1>11, <1>12 DEF Next

(* As long as a described line is parsed its uses are whole and those that *)
(* are passed are erased, and its parsing does not exit.                   *)
Acceptable ==
  /\ outcome = "parsing" =>
       \A uses \in Readings :
         Described(uses) /\ PlainValues(uses) => Whole(uses) /\ Passed(uses)
  /\ outcome = "exit" => \A uses \in Readings : ~(Described(uses) /\ PlainValues(uses))

(* A line that the help texts describe, none of whose values looks like an *)
(* option, is never turned down: each search finds a whole use, or that    *)
(* none is left, and in the end only the positional argument is.           *)
THEOREM DescribedLineAccepted == Spec => []DescribedAccepted
<1>1. Init => Closed /\ Acceptable
  <2> SUFFICES ASSUME Init PROVE Closed /\ Acceptable
    OBVIOUS
  <2>1. /\ given \in CommandLines /\ argv = given /\ step = 0 /\ outcome = "parsing"
        /\ ~buf.json
    BY DEF Init, EmptyBuf
  <2>2. PICK n \in Nat : given \in [1..n -> Arguments]
    BY <2>1, GivenArguments
  <2>3. \A i \in DOMAIN given : argv[i] # Null
    BY <2>1, <2>2, NullAssumption
  <2>4. ASSUME NEW uses \in Readings PROVE Whole(uses) /\ Passed(uses)
    <3>1. Whole(uses)
      <4>1. \A u \in uses : u[1] \in DOMAIN given /\ PlacesAt(u[1], u[2]) \subseteq DOMAIN given
        BY ReadingFacts
      <4> QED
        BY <2>3, <4>1 DEF Whole, Others
    <3>2. Passed(uses)
      <4>1. program \in Programs
        BY DEF Init
      <4>2. \A j \in DOMAIN Steps : ~(j < step)
        BY <2>1, <4>1, StepsAreFinite
      <4> QED
        BY <2>1, <4>2 DEF Passed
    <3> QED
      BY <3>1, <3>2
  <2> QED
    BY <2>1, <2>4 DEF Closed, Acceptable
<1>2. /\ TypeOK /\ Argued /\ Closed /\ Acceptable /\ [Next]_vars
      => (Closed /\ Acceptable)'
  <2> SUFFICES ASSUME TypeOK, Argued, Closed, Acceptable, [Next]_vars
               PROVE  Closed' /\ Acceptable'
    OBVIOUS
  <2>1. CASE Next
    <3>1. /\ outcome = "parsing" /\ UNCHANGED <<program, given>>
          /\ given \in CommandLines
      BY <2>1, Recording DEF Argued
    <3>2. Closed'
      BY <2>1, StaysClosed
    <3>3. ASSUME NEW uses \in Readings, Described(uses), PlainValues(uses)
          PROVE  /\ outcome' # "exit"
                 /\ outcome' = "parsing" => Whole(uses)' /\ Passed(uses)'
      <4>1. Whole(uses) /\ Passed(uses)
        BY <3>1, <3>3 DEF Acceptable
      <4> QED
        BY <2>1, <3>1, <3>3, <4>1, StepAccepts
    <3>4. Acceptable'
      BY <3>1, <3>3, SameLine DEF Acceptable
    <3> QED
      BY <3>2, <3>4
  <2>2. CASE UNCHANGED vars
    <3>1. UNCHANGED <<program, given, argv>> /\ UNCHANGED <<step, buf, outcome>>
      BY <2>2 DEF vars
    <3>2. Closed'
      BY <3>1, SameLine DEF Closed
    <3>3. \A uses : Passed(uses) => Passed(uses)'
      BY <3>1, SameLine DEF Passed
    <3>4. \A uses : Whole(uses) => Whole(uses)'
      BY <3>1, ErasingNothing
    <3>5. Acceptable'
      BY <3>1, <3>3, <3>4, SameLine DEF Acceptable
    <3> QED
      BY <3>2, <3>5
  <2> QED
    BY <2>1, <2>2
<1>3. Acceptable => DescribedAccepted
  BY DEF Acceptable, DescribedAccepted
<1> QED
  BY <1>1, <1>2, <1>3, TypeCorrect, AccountIsKept, PTL DEF Spec

===============================================================================
