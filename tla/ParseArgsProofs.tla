---------------------------- MODULE ParseArgsProofs ----------------------------
(***************************************************************************)
(* What holds of the parsing for every command line, every set of texts    *)
(* and values of every length: the types, that parse_opt only ever erases, *)
(* that no text overruns the block that was made for it, and that every    *)
(* value is accounted for by arguments of its own.                         *)
(***************************************************************************)
EXTENDS ParseArgs, FiniteSetTheorems, WellFoundedInduction, TLAPS

(* A search hands back the arguments with some erased.                     *)
LEMMA ParseOptErases ==
  ASSUME NEW R, NEW args \in [DOMAIN given -> R], NEW opt, NEW has_value
  PROVE  LET after == ParseOpt(args, opt, has_value).args IN
         /\ after \in [DOMAIN given -> R \cup {Null}]
         /\ \A i \in DOMAIN given : after[i] \in {args[i], Null}
BY Zenon DEF ParseOpt, Found, Erase

Erased(args) ==
  /\ args \in [DOMAIN given -> Arguments \cup {Null}]
  /\ \A i \in DOMAIN given : args[i] \in {given[i], Null}

(* So do the searches for the short and the long form.                     *)
LEMMA ParseArgErases ==
  ASSUME Erased(argv), NEW o, NEW has_value
  PROVE  Erased(ParseArg(o, has_value).args)
<1> DEFINE short == ParseOpt(argv, Short(o.short), has_value).args
           long  == ParseOpt(argv, Long(o.long), has_value).args
           R     == Arguments \cup {Null}
<1>1. argv \in [DOMAIN given -> R]
  BY DEF Erased
<1>2. Erased(short)
  <2>1. /\ short \in [DOMAIN given -> R \cup {Null}]
        /\ \A i \in DOMAIN given : short[i] \in {argv[i], Null}
    BY <1>1, ParseOptErases
  <2> QED
    BY <2>1, Zenon DEF Erased
<1>3. Erased(long)
  <2>1. /\ long \in [DOMAIN given -> R \cup {Null}]
        /\ \A i \in DOMAIN given : long[i] \in {argv[i], Null}
    BY <1>1, ParseOptErases
  <2> QED
    BY <2>1, Zenon DEF Erased
<1>4. ParseArg(o, has_value).args \in {short, long}
  BY Zenon DEF ParseArg
<1> QED
  BY <1>2, <1>3, <1>4, Zenon

(* The options of the programs, but for the help that they share: the name *)
(* says whether the option has a value, and what its short form is.        *)
FlagNames ==
  {"no-multicast-scouting", "add-matching-listener", "complete", "express"}

ShortForms ==
  [key |-> "k", payload |-> "p", config |-> "c", mode |-> "m", connect |-> "e",
   listen |-> "l", cfg |-> "", attach |-> "a", selector |-> "s", timeout |-> "o",
   target |-> "t", priority |-> "p", samples |-> "s", number |-> "n"]

ValueOptions ==
  {o \in [kind : {"plain", "checked", "list", "pairs"},
          short : {ShortForms[n] : n \in DOMAIN ShortForms},
          long : DOMAIN ShortForms] : o.short = ShortForms[o.long]}

FlagOptions == [kind : {"flag", "checked flag"}, short : {""}, long : FlagNames]

ProgramOptions == ValueOptions \cup FlagOptions

LEMMA OptionsAre ==
  /\ \A kind \in {"plain", "checked", "list", "pairs"} : \A n \in DOMAIN ShortForms :
       Opt(kind, ShortForms[n], n) \in ProgramOptions
  /\ \A kind \in {"flag", "checked flag"} : \A n \in FlagNames :
       Opt(kind, "", n) \in ProgramOptions
  /\ \A o \in ProgramOptions :
       \/ /\ o.kind \in {"plain", "checked", "list", "pairs"}
          /\ o.long \in DOMAIN ShortForms /\ o.short = ShortForms[o.long]
       \/ o.kind \in {"flag", "checked flag"} /\ o.long \in FlagNames /\ o.short = ""
<1>1. \A kind \in {"plain", "checked", "list", "pairs"} : \A n \in DOMAIN ShortForms :
        Opt(kind, ShortForms[n], n) \in ValueOptions
  BY DEF ValueOptions, Opt
<1>2. \A kind \in {"flag", "checked flag"} : \A n \in FlagNames :
        Opt(kind, "", n) \in FlagOptions
  BY DEF FlagOptions, Opt
<1>3. \A o \in ValueOptions :
        /\ o.kind \in {"plain", "checked", "list", "pairs"}
        /\ o.long \in DOMAIN ShortForms /\ o.short = ShortForms[o.long]
  BY DEF ValueOptions
<1>4. \A o \in FlagOptions :
        o.kind \in {"flag", "checked flag"} /\ o.long \in FlagNames /\ o.short = ""
  BY DEF FlagOptions
<1> QED
  BY <1>1, <1>2, <1>3, <1>4, Zenon DEF ProgramOptions

LEMMA ShortFormsAre ==
  /\ DOMAIN ShortForms
       = {"key", "payload", "config", "mode", "connect", "listen", "cfg", "attach",
          "selector", "timeout", "target", "priority", "samples", "number"}
  /\ ShortForms["key"] = "k" /\ ShortForms["payload"] = "p"
  /\ ShortForms["config"] = "c" /\ ShortForms["mode"] = "m"
  /\ ShortForms["connect"] = "e" /\ ShortForms["listen"] = "l" /\ ShortForms["cfg"] = ""
  /\ ShortForms["attach"] = "a" /\ ShortForms["selector"] = "s"
  /\ ShortForms["timeout"] = "o" /\ ShortForms["target"] = "t"
  /\ ShortForms["priority"] = "p" /\ ShortForms["samples"] = "s"
  /\ ShortForms["number"] = "n"
BY DEF ShortForms

LEMMA TuplesAreSequences ==
  ASSUME NEW S
  PROVE  /\ << >> \in Seq(S) /\ \A a \in S : << a >> \in Seq(S)
         /\ \A a, b \in S : << a, b >> \in Seq(S)
         /\ \A a, b, c \in S : << a, b, c >> \in Seq(S)
         /\ \A a, b, c, d \in S : << a, b, c, d >> \in Seq(S)
         /\ \A a, b, c, d, e, f \in S : << a, b, c, d, e, f >> \in Seq(S)
OBVIOUS

LEMMA OwnOptionsAreOptions ==
  /\ CommonOptions \in Seq(ProgramOptions)
  /\ \A p \in DOMAIN OwnOptions : OwnOptions[p] \in Seq(ProgramOptions)
<1> DEFINE T == ProgramOptions
<1>a. /\ KeyOption \in T /\ PayloadOption \in T
      /\ Opt("checked", "c", "config") \in T /\ Opt("checked", "m", "mode") \in T
      /\ Opt("list", "e", "connect") \in T /\ Opt("list", "l", "listen") \in T
      /\ Opt("pairs", "", "cfg") \in T
      /\ Opt("checked flag", "", "no-multicast-scouting") \in T
  BY OptionsAre, ShortFormsAre DEF FlagNames, KeyOption, PayloadOption
<1>b. /\ Opt("plain", "a", "attach") \in T /\ Opt("plain", "s", "selector") \in T
      /\ Opt("plain", "o", "timeout") \in T /\ Opt("checked", "t", "target") \in T
      /\ Opt("checked", "p", "priority") \in T
      /\ Opt("plain", "s", "samples") \in T /\ Opt("plain", "n", "number") \in T
      /\ Opt("flag", "", "add-matching-listener") \in T
      /\ Opt("flag", "", "complete") \in T /\ Opt("flag", "", "express") \in T
  BY OptionsAre, ShortFormsAre DEF FlagNames
<1> HIDE DEF T
<1>1. CommonOptions \in Seq(T)
  BY <1>a, TuplesAreSequences DEF CommonOptions
<1>2. /\ OptionsOfPut \in Seq(T) /\ OptionsOfDelete \in Seq(T)
      /\ OptionsOfSub \in Seq(T) /\ OptionsOfInfo \in Seq(T)
  BY <1>a, TuplesAreSequences
  DEF OptionsOfPut, OptionsOfDelete, OptionsOfSub, OptionsOfInfo
<1>3. OptionsOfPub \in Seq(T) /\ OptionsOfQueryable \in Seq(T)
  BY <1>a, <1>b, TuplesAreSequences DEF OptionsOfPub, OptionsOfQueryable
<1>4. OptionsOfGet \in Seq(T)
  BY <1>a, <1>b, TuplesAreSequences DEF OptionsOfGet
<1>5. OptionsOfPubThr \in Seq(T) /\ OptionsOfSubThr \in Seq(T)
  BY <1>b, TuplesAreSequences DEF OptionsOfPubThr, OptionsOfSubThr
<1>6. \A p \in DOMAIN OwnOptions : OwnOptions[p] \in Seq(T)
  BY <1>2, <1>3, <1>4, <1>5 DEF OwnOptions
<1> QED
  BY <1>1, <1>6 DEF T

(* Every program looks for finitely many options.                          *)
LEMMA StepsAreFinite ==
  ASSUME program \in Programs
  PROVE  /\ Steps \in Seq(ProgramOptions)
         /\ Len(Steps) \in Nat /\ DOMAIN Steps = 1..Len(Steps)
<1>1. Steps \in Seq(ProgramOptions)
  BY OwnOptionsAreOptions, ProgramsAssumption DEF Steps
<1> QED
  BY <1>1

THEOREM Invariance == Spec => [](TypeOK /\ BufferFits)
<1>1. Init => TypeOK /\ BufferFits
  <2> SUFFICES ASSUME Init PROVE TypeOK /\ BufferFits
    OBVIOUS
  <2>1. Len(Steps) \in Nat
    BY StepsAreFinite DEF Init
  <2>2. Erased(argv)
    BY DEF Init, CommandLines, Erased
  <2> QED
    BY <2>1, <2>2 DEF Init, TypeOK, BufferFits, EmptyBuf, Erased
<1>2. TypeOK /\ BufferFits /\ [Next]_vars => (TypeOK /\ BufferFits)'
  <2> SUFFICES ASSUME TypeOK, BufferFits, [Next]_vars PROVE (TypeOK /\ BufferFits)'
    OBVIOUS
  <2>1. Len(Steps) \in Nat /\ DOMAIN Steps = 1..Len(Steps)
    BY StepsAreFinite DEF TypeOK
  <2>2. Erased(argv)
    BY DEF TypeOK, Erased
  <2>3. CASE UNCHANGED vars
    BY <2>3 DEF vars, TypeOK, BufferFits, Steps
  <2>4. ASSUME Next PROVE UNCHANGED <<program, given, Steps>>
    BY <2>4 DEF Next, CheckHelp, ParseOne, ParsePairs, ListMore, ListClose,
                ListInsert, CheckUnknownOpts, ParsePosArgs, At, Parsing, Steps
  <2>5. ASSUME Next PROVE Erased(argv)'
    <3>1. \/ UNCHANGED argv
          \/ \E has_value : argv' = ParseArg(HelpOption, has_value).args
          \/ \E has_value : argv' = ParseArg(Now, has_value).args
      <4>1. CheckHelp => argv' = ParseArg(HelpOption, FALSE).args
        BY DEF CheckHelp
      <4>2. ParseOne => argv' = ParseArg(Now, NeedsValue(Now)).args
        BY Zenon DEF ParseOne
      <4>3. ParsePairs \/ ListMore => argv' = ParseArg(Now, TRUE).args
        BY Zenon DEF ParsePairs, ListMore
      <4>4. ListClose \/ ListInsert \/ CheckUnknownOpts \/ ParsePosArgs => UNCHANGED argv
        BY Zenon DEF ListClose, ListInsert, CheckUnknownOpts, ParsePosArgs
      <4> QED
        BY <2>5, <4>1, <4>2, <4>3, <4>4, Zenon DEF Next
    <3>2. \/ argv' = argv
          \/ Erased(argv')
      BY <3>1, <2>2, ParseArgErases
    <3> QED
      BY <3>2, <2>2, <2>4, <2>5 DEF Erased
  <2>6. ASSUME Next
        PROVE  /\ step' \in 0..(Len(Steps) + 2)
               /\ outcome' \in {"parsing", "help", "exit", "refused", "accepted"}
               /\ DOMAIN result' = OptionNames
    <3>1. step' = step \/ (Proceed /\ step <= Len(Steps) + 1)
      <4>1. ASSUME NEW kinds, At(kinds) PROVE step <= Len(Steps) + 1
        <5>1. step \in DOMAIN Steps
          BY <4>1, Zenon DEF At
        <5> QED
          BY <2>1, <5>1
      <4>2. CheckHelp \/ CheckUnknownOpts => step <= Len(Steps) + 1
        <5>1. CheckHelp \/ CheckUnknownOpts => step = 0 \/ step = Len(Steps) + 1
          BY Zenon DEF CheckHelp, CheckUnknownOpts
        <5> QED
          BY <2>1, <5>1
      <4>3. CASE CheckHelp
        BY <4>2, <4>3, Zenon DEF CheckHelp, End
      <4>4. CASE ParseOne
        BY <4>1, <4>4, Zenon DEF ParseOne, End
      <4>5. CASE ParsePairs
        BY <4>1, <4>5, Zenon DEF ParsePairs, End
      <4>6. CASE ListMore \/ ListInsert
        BY <4>1, <4>6, Zenon DEF ListMore, ListInsert, End
      <4>7. CASE ListClose
        <5>1. step' = step \/ Proceed
          BY <4>7, Zenon DEF ListClose
        <5>2. At({"list"})
          BY <4>7, Zenon DEF ListClose
        <5> QED
          BY <4>1, <5>1, <5>2, Zenon
      <4>8. CASE CheckUnknownOpts
        BY <4>2, <4>8, Zenon DEF CheckUnknownOpts, End
      <4>9. CASE ParsePosArgs
        BY <4>9, Zenon DEF ParsePosArgs, End
      <4> QED
        BY <2>6, <4>3, <4>4, <4>5, <4>6, <4>7, <4>8, <4>9, Zenon DEF Next
    <3>2. outcome' = outcome \/ outcome' \in {"help", "exit", "refused", "accepted"}
      BY <2>6 DEF Next, CheckHelp, ParseOne, ParsePairs, ListMore, ListClose,
         ListInsert, CheckUnknownOpts, ParsePosArgs, End
    <3>3. DOMAIN result' = DOMAIN result
      BY <2>6 DEF Next, CheckHelp, ParseOne, ParsePairs, ListMore, ListClose,
         ListInsert, CheckUnknownOpts, ParsePosArgs, End, Record
    <3>4. step \in 0..(Len(Steps) + 2) /\ DOMAIN result = OptionNames
      BY DEF TypeOK
    <3>5. step' \in 0..(Len(Steps) + 2)
      BY <2>1, <3>1, <3>4 DEF Proceed
    <3> QED
      BY <3>2, <3>3, <3>4, <3>5 DEF TypeOK
  <2>7. ASSUME Next
        PROVE  /\ buf' \in [length : Nat, size : Nat, json : BOOLEAN]
               /\ buf'.length + 1 <= buf'.size
    <3>1. buf \in [length : Nat, size : Nat, json : BOOLEAN] /\ buf.length + 1 <= buf.size
      BY DEF TypeOK, BufferFits
    <3>2. CASE UNCHANGED buf
      BY <3>1, <3>2
    <3>3. CASE buf' = EmptyBuf
      BY <3>3 DEF EmptyBuf
    <3>4. CASE \E n \in Lengths : buf' = Grow(n)
      BY <3>1, <3>4, ParseAssumption DEF Grow
    <3>5. CASE ListClose /\ buf.length # 0
      <4>1. buf' = [length |-> buf.length - 1 + 2, size |-> buf.length - 1 + 3, json |-> TRUE]
        BY <3>5 DEF ListClose
      <4> QED
        BY <3>1, <3>5, <4>1
    <3> QED
      BY <3>2, <3>3, <3>4, <3>5, <2>7 DEF Next, CheckHelp, ParseOne, ParsePairs,
         ListMore, ListClose, ListInsert, CheckUnknownOpts, ParsePosArgs, End
  <2>8. CASE Next
    BY <2>4, <2>5, <2>6, <2>7, <2>8 DEF TypeOK, BufferFits, Erased
  <2> QED
    BY <2>3, <2>8
<1> QED
  BY <1>1, <1>2, PTL DEF Spec

(* Every variable keeps its type; an argument is erased or as it was given.*)
THEOREM TypeCorrect == Spec => []TypeOK
BY Invariance, PTL

(* parse_args.h's block sizes: value, quotes, comma and nul byte; then      *)
(* brackets in place of the last comma.                                    *)
THEOREM NoTextOverrunsItsBlock == Spec => []BufferFits
BY Invariance, PTL

-------------------------------------------------------------------------------
(* What a search takes.                                                    *)

LEMMA MinIsElement ==
  ASSUME NEW S \in SUBSET Nat, S # {}
  PROVE  Min(S) \in S /\ \A y \in S : Min(S) <= y
<1> DEFINE Less == {ss \in Nat \X Nat : ss[1] < ss[2]}
<1>1. IsWellFoundedOn(Less, Nat)
  BY NatLessThanWellFounded, Zenon DEF OpToRel
<1> HIDE DEF Less
<1>2. PICK x \in S : \A y \in S : ~(<<y, x>> \in Less)
  BY <1>1, WFMin
<1>3. ASSUME NEW y \in S PROVE x <= y
  <2>1. ~(<<y, x>> \in Less)
    BY <1>2
  <2> QED
    BY <2>1 DEF Less
<1> QED
  BY <1>3 DEF Min

(* An option's value that is not in the same argument is the next one.     *)
Apart(arg, has_value) == has_value /\ arg.value = ""

(* parse_opt takes the first argument that is the option and, if it has    *)
(* a value that is not in the same argument, the next one with it.         *)
TakenAt(i, args, opt, has_value) ==
  /\ Matches(args[i], opt)
  /\ \A j \in DOMAIN args : Matches(args[j], opt) => i <= j
  /\ Apart(args[i], has_value) => i + 1 \in DOMAIN args /\ args[i + 1] # Null
  /\ ParseOpt(args, opt, has_value)
     = Found(Erase(args, IF Apart(args[i], has_value) THEN {i, i + 1} ELSE {i}),
             "yes",
             IF ~has_value THEN Word(opt.name)
             ELSE IF Apart(args[i], has_value) THEN args[i + 1]
             ELSE Word(args[i].value))

LEMMA ParseOptTakes ==
  ASSUME NEW n \in Nat, NEW args, DOMAIN args = 1..n, NEW opt, NEW has_value,
         ParseOpt(args, opt, has_value).found = "yes"
  PROVE  \E i \in DOMAIN args : TakenAt(i, args, opt, has_value)
<1> DEFINE hits == {i \in DOMAIN args : Matches(args[i], opt)}
           i == Min(hits)
           r == ParseOpt(args, opt, has_value)
<1>1. r = IF hits = {} THEN Found(args, "no", Null)
          ELSE IF ~has_value THEN Found(Erase(args, {i}), "yes", Word(opt.name))
          ELSE IF args[i].value # "" THEN Found(Erase(args, {i}), "yes", Word(args[i].value))
          ELSE IF i + 1 \in DOMAIN args /\ args[i + 1] # Null
               THEN Found(Erase(args, {i, i + 1}), "yes", args[i + 1])
          ELSE Found(args, "no value", Null)
  BY Zenon DEF ParseOpt
<1>2. \A a, f, v : Found(a, f, v).found = f
  BY DEF Found
<1>3. hits # {}
  <2>1. hits = {} => r = Found(args, "no", Null)
    BY <1>1, Zenon
  <2> HIDE DEF hits
  <2> QED
    BY <1>2, <2>1
<1>4. i \in hits /\ \A j \in hits : i <= j
  <2>1. hits \in SUBSET Nat
    OBVIOUS
  <2> HIDE DEF hits
  <2> QED
    BY <1>3, <2>1, MinIsElement
<1> HIDE DEF i
<1> DEFINE apart == Apart(args[i], has_value)
<1> SUFFICES /\ apart => i + 1 \in DOMAIN args /\ args[i + 1] # Null
             /\ r = Found(Erase(args, IF apart THEN {i, i + 1} ELSE {i}), "yes",
                          IF ~has_value THEN Word(opt.name)
                          ELSE IF apart THEN args[i + 1] ELSE Word(args[i].value))
  BY <1>4, Zenon DEF TakenAt
<1> USE DEF Apart
<1> HIDE DEF r, hits
<1>5. CASE ~has_value
  BY <1>1, <1>3, <1>5
<1>6. CASE has_value /\ args[i].value # ""
  BY <1>1, <1>3, <1>6
<1>7. CASE has_value /\ args[i].value = ""
  <2>1. i + 1 \in DOMAIN args /\ args[i + 1] # Null
    <3>1. \/ i + 1 \in DOMAIN args /\ args[i + 1] # Null
          \/ r = Found(args, "no value", Null)
      BY <1>1, <1>3, <1>7
    <3>2. r.found = "yes" /\ Found(args, "no value", Null).found = "no value"
      BY <1>2 DEF r
    <3> QED
      BY <3>1, <3>2, Zenon
  <2> QED
    BY <1>1, <1>3, <1>7, <2>1
<1> QED
  BY <1>5, <1>6, <1>7

(* A search that does not find the option, or no value for it, takes       *)
(* nothing.                                                                *)
LEMMA ParseOptTakesNothing ==
  ASSUME NEW args, NEW opt, NEW has_value,
         ParseOpt(args, opt, has_value).found # "yes"
  PROVE  ParseOpt(args, opt, has_value).args = args
<1> DEFINE r == ParseOpt(args, opt, has_value)
<1>1. \A a, f, v : Found(a, f, v).found = f /\ Found(a, f, v).args = a
  BY DEF Found
<1>2. \/ r = Found(args, "no", Null) \/ r = Found(args, "no value", Null)
      \/ \E a, v : r = Found(a, "yes", v)
  BY Zenon DEF ParseOpt
<1> HIDE DEF r
<1>3. \A a, v : r # Found(a, "yes", v)
  BY <1>1 DEF r
<1>4. \/ r = Found(args, "no", Null) \/ r = Found(args, "no value", Null)
  BY <1>2, <1>3, Zenon
<1>5. r.args = args
  <2>1. /\ Found(args, "no", Null).args = args
        /\ Found(args, "no value", Null).args = args
    BY <1>1
  <2> QED
    BY <1>4, <2>1, Zenon
<1> QED
  BY <1>5 DEF r

(* A search that finds nothing was not for anything there is.              *)
LEMMA ParseOptFindsNone ==
  ASSUME NEW n \in Nat, NEW args, DOMAIN args = 1..n, NEW opt, NEW has_value,
         ParseOpt(args, opt, has_value).found = "no"
  PROVE  \A j \in DOMAIN args : ~Matches(args[j], opt)
<1> DEFINE hits == {i \in DOMAIN args : Matches(args[i], opt)}
           r == ParseOpt(args, opt, has_value)
<1>1. \A a, f, v : Found(a, f, v).found = f
  BY DEF Found
<1>2. \/ hits = {} \/ r = Found(args, "no value", Null)
      \/ \E a, v : r = Found(a, "yes", v)
  BY Zenon DEF ParseOpt
<1> HIDE DEF r, hits
<1>3. r.found = "no"
  BY DEF r
<1>4. r # Found(args, "no value", Null) /\ \A a, v : r # Found(a, "yes", v)
  <2>1. r # Found(args, "no value", Null)
    <3>1. Found(args, "no value", Null).found = "no value"
      BY <1>1
    <3> QED
      BY <1>3, <3>1
  <2>2. ASSUME NEW a, NEW v, r = Found(a, "yes", v) PROVE FALSE
    <3>1. Found(a, "yes", v).found = "yes"
      BY <1>1
    <3> QED
      BY <1>3, <2>2, <3>1
  <2> QED
    BY <2>1, <2>2
<1>5. hits = {}
  BY <1>2, <1>4, Zenon
<1> QED
  BY <1>5 DEF hits

LEMMA ParseArgTakesNothing ==
  ASSUME NEW o, NEW has_value, ParseArg(o, has_value).found # "yes"
  PROVE  ParseArg(o, has_value).args = argv
<1>1. \/ ParseArg(o, has_value) = ParseOpt(argv, Short(o.short), has_value)
      \/ ParseArg(o, has_value) = ParseOpt(argv, Long(o.long), has_value)
  BY Zenon DEF ParseArg
<1> QED
  BY <1>1, ParseOptTakesNothing

(* The names of the options tell a flag, which has no short form, from an  *)
(* option with a value, and one option's short form from another's.        *)
LEMMA OptionsAreNamed ==
  ASSUME program \in Programs, NEW j \in DOMAIN Steps
  PROVE  /\ Steps[j].long \in OptionNames \ {"positional"}
         /\ NeedsValue(Steps[j]) <=> Steps[j].long \notin Flags
         /\ ~NeedsValue(Steps[j]) => Steps[j].short = ""
         /\ \A k \in DOMAIN Steps :
              Steps[k].long = Steps[j].long => Steps[k].short = Steps[j].short
<1> DEFINE o == Steps[j]
           F == FlagNames \cup {"help"}
<1>1. o \in ProgramOptions
  BY StepsAreFinite
<1>2. \A x \in ProgramOptions :
        /\ x.long # "positional"
        /\ NeedsValue(x) <=> x.long \notin F
        /\ ~NeedsValue(x) => x.short = ""
  <2> SUFFICES ASSUME NEW x \in ProgramOptions
               PROVE  /\ x.long # "positional"
                      /\ NeedsValue(x) <=> x.long \notin F
                      /\ ~NeedsValue(x) => x.short = ""
    OBVIOUS
  <2>1. CASE /\ x.long \in DOMAIN ShortForms
             /\ x.kind \in {"plain", "checked", "list", "pairs"}
    BY <2>1, ShortFormsAre DEF FlagNames, NeedsValue
  <2>2. CASE x.kind \in {"flag", "checked flag"} /\ x.short = "" /\ x.long \in FlagNames
    BY <2>2 DEF FlagNames, NeedsValue
  <2> QED
    BY <2>1, <2>2, OptionsAre
<1>3. o \in AllOptions
  <2>1. DOMAIN OwnOptions[program] = 1..Len(OwnOptions[program])
        /\ Len(OwnOptions[program]) \in Nat
    BY OwnOptionsAreOptions, ProgramsAssumption
  <2>2. o \in {OwnOptions[program][i] : i \in DOMAIN OwnOptions[program]}
              \cup {CommonOptions[i] : i \in DOMAIN CommonOptions}
    BY OwnOptionsAreOptions, ProgramsAssumption DEF Steps
  <2> QED
    BY <2>2 DEF AllOptions
<1>4. \A x \in AllOptions : x = HelpOption \/ x \in ProgramOptions
  <2>1. \A s \in {OwnOptions[p] : p \in Programs} \cup {CommonOptions} :
          \A i \in DOMAIN s : s[i] \in ProgramOptions
    BY OwnOptionsAreOptions, ProgramsAssumption
  <2> QED
    BY <2>1 DEF AllOptions
<1>5. \A x \in AllOptions : ~NeedsValue(x) => x.long \in F
  <2>1. HelpOption.long = "help"
    BY DEF HelpOption, Opt
  <2> QED
    BY <1>2, <1>4, <2>1
<1>6. NeedsValue(o) <=> o.long \notin Flags
  <2>1. ASSUME NeedsValue(o) PROVE o.long \notin Flags
    BY <1>1, <1>2, <1>5, <2>1 DEF Flags
  <2>2. ASSUME ~NeedsValue(o) PROVE o.long \in Flags
    BY <1>3, <2>2 DEF Flags
  <2> QED
    BY <2>1, <2>2
<1> HIDE DEF o, F
<1>7. o.long \in OptionNames \ {"positional"}
  BY <1>1, <1>2, <1>3 DEF OptionNames
<1>8. ~NeedsValue(o) => o.short = ""
  BY <1>1, <1>2
<1>9. \A k \in DOMAIN Steps : Steps[k].long = o.long => Steps[k].short = o.short
  <2>1. \A x \in ProgramOptions :
          x.short = IF x.long \in DOMAIN ShortForms THEN ShortForms[x.long] ELSE ""
    <3> SUFFICES ASSUME NEW x \in ProgramOptions
                 PROVE  x.short = IF x.long \in DOMAIN ShortForms
                                  THEN ShortForms[x.long] ELSE ""
      OBVIOUS
    <3>1. DOMAIN ShortForms \cap FlagNames = {}
      BY ShortFormsAre DEF FlagNames
    <3>2. \/ x.long \in DOMAIN ShortForms /\ x.short = ShortForms[x.long]
          \/ x.long \in FlagNames /\ x.short = ""
      BY OptionsAre
    <3> QED
      BY <3>1, <3>2
  <2>2. \A k \in DOMAIN Steps : Steps[k] \in ProgramOptions
    BY StepsAreFinite
  <2> QED
    BY <1>1, <2>1, <2>2
<1> QED
  BY <1>6, <1>7, <1>8, <1>9 DEF o

(* What is given.                                                          *)
LEMMA GivenArguments ==
  ASSUME given \in CommandLines
  PROVE  \E n \in Nat : given \in [1..n -> Arguments]
BY ParseAssumption DEF CommandLines

LEMMA ArgumentsAreRecords ==
  \A a \in Arguments : a.dashes \in 0..2
<1>1. /\ \A w : Word(w).dashes = 0 /\ Short(w).dashes = 1 /\ Long(w).dashes = 2
      /\ \A n, m, v : Arg(2, n, m, v).dashes = 2
  BY DEF Arg, Word, Short, Long
<1>2. ASSUME NEW a \in Arguments
      PROVE  \/ \E w : a = Word(w) \/ a = Short(w) \/ a = Long(w) \/ a = Arg(2, w, TRUE, "")
             \/ \E N : a \in [dashes : {2}, name : N, more : {FALSE}, value : Words]
  BY <1>2 DEF Arguments
<1>3. ASSUME NEW a \in Arguments PROVE a.dashes \in {0, 1, 2}
  <2>1. CASE \E w : a = Word(w) \/ a = Short(w) \/ a = Long(w) \/ a = Arg(2, w, TRUE, "")
    BY <1>1, <2>1
  <2>2. CASE \E N : a \in [dashes : {2}, name : N, more : {FALSE}, value : Words]
    <3>1. PICK N : a \in [dashes : {2}, name : N, more : {FALSE}, value : Words]
      BY <2>2
    <3> QED
      BY <3>1
  <2> QED
    BY <1>2, <1>3, <2>1, <2>2, Zenon
<1> QED
  BY <1>3

(* What may be recorded as a value.                                        *)
Given ==
  Arguments \cup {Word(a.value) : a \in Arguments} \cup {Word(n) : n \in OptionNames}

(* What a step finds for its option: a use of it of which nothing has been *)
(* erased, which is then erased, and the value that it gives.              *)
LEMMA ParseArgTakes ==
  ASSUME TypeOK, given \in CommandLines, NEW j \in DOMAIN Steps,
         ParseArg(Steps[j], NeedsValue(Steps[j])).found = "yes"
  PROVE  LET name == Steps[j].long
             r    == ParseArg(Steps[j], NeedsValue(Steps[j]))
         IN  \E i \in DOMAIN given :
               /\ IsUse(i, name)
               /\ PlacesAt(i, name) \subseteq DOMAIN given
               /\ \A p \in PlacesAt(i, name) : argv[p] # Null
               /\ \A k \in DOMAIN given \ {i} :
                    argv[k] # Null /\ IsUse(k, name) => Before(i, k)
               /\ r.args = Erase(argv, PlacesAt(i, name))
               /\ r.value = ValueAt(i, name)
<1> DEFINE o == Steps[j]
           has_value == NeedsValue(o)
           r == ParseArg(o, has_value)
           short == ParseOpt(argv, Short(o.short), has_value)
           long == ParseOpt(argv, Long(o.long), has_value)
<1>1. PICK n \in Nat : given \in [1..n -> Arguments]
  BY GivenArguments
<1>2. /\ DOMAIN argv = 1..n /\ DOMAIN given = 1..n
      /\ \A i \in 1..n : argv[i] # Null => argv[i] = given[i]
  BY <1>1 DEF TypeOK
<1>3. /\ o.long \in OptionNames \ {"positional"}
      /\ has_value <=> o.long \notin Flags
      /\ ~has_value => o.short = ""
  BY OptionsAreNamed DEF TypeOK
<1>4. \/ r = short /\ o.short # ""
      \/ r = long /\ (o.short = "" \/ short.found = "no")
  BY Zenon DEF ParseArg
<1>5. r.found = "yes"
  OBVIOUS
<1> HIDE DEF short, long, r, o, has_value
<1>6. \E opt \in {Short(o.short), Long(o.long)} :
        /\ r = ParseOpt(argv, opt, has_value) /\ r.found = "yes"
        /\ opt = Short(o.short) => o.short # ""
        /\ ~has_value => opt.name = o.long
        /\ opt = Long(o.long) =>
             o.short = "" \/ \A k \in DOMAIN argv : ~Matches(argv[k], Short(o.short))
  <2>1. Short(o.short).dashes = 1 /\ Long(o.long).dashes = 2 /\ Long(o.long).name = o.long
    BY DEF Short, Long, Arg
  <2>2. Long(o.long) # Short(o.short)
    BY <2>1
  <2>3. CASE r = short /\ o.short # ""
    BY <1>3, <1>5, <2>2, <2>3, Zenon DEF short
  <2>4. CASE r = long /\ (o.short = "" \/ short.found = "no")
    <3>1. short.found = "no" => \A k \in DOMAIN argv : ~Matches(argv[k], Short(o.short))
      BY <1>2, ParseOptFindsNone DEF short
    <3> QED
      BY <1>5, <2>1, <2>2, <2>4, <3>1, Zenon DEF long
  <2> QED
    BY <1>4, <2>3, <2>4
<1>7. PICK opt \in {Short(o.short), Long(o.long)} :
        /\ r = ParseOpt(argv, opt, has_value) /\ r.found = "yes"
        /\ opt = Short(o.short) => o.short # ""
        /\ ~has_value => opt.name = o.long
        /\ opt = Long(o.long) =>
             o.short = "" \/ \A k \in DOMAIN argv : ~Matches(argv[k], Short(o.short))
  BY <1>6
<1>8. PICK i \in DOMAIN argv : TakenAt(i, argv, opt, has_value)
  <2>1. DOMAIN argv = 1..n /\ ParseOpt(argv, opt, has_value).found = "yes"
    BY <1>2, <1>7
  <2> QED
    BY <2>1, ParseOptTakes, Zenon
<1> DEFINE apart == Apart(given[i], has_value)
<1>9. argv[i] # Null /\ argv[i] = given[i]
  BY <1>2, <1>8 DEF Matches, TakenAt
<1>10. /\ Matches(given[i], opt)
       /\ apart => i + 1 \in DOMAIN given /\ argv[i + 1] # Null /\ argv[i + 1] = given[i + 1]
       /\ r = Found(Erase(argv, IF apart THEN {i, i + 1} ELSE {i}), "yes",
                    IF ~has_value THEN Word(opt.name)
                    ELSE IF apart THEN given[i + 1] ELSE Word(given[i].value))
  <2>1. /\ r = ParseOpt(argv, opt, has_value)
        /\ TakenAt(i, argv, opt, has_value) /\ argv[i] = given[i]
    BY <1>7, <1>8, <1>9
  <2>2. /\ Matches(given[i], opt)
        /\ apart => i + 1 \in DOMAIN argv /\ argv[i + 1] # Null
        /\ r = Found(Erase(argv, IF apart THEN {i, i + 1} ELSE {i}), "yes",
                     IF ~has_value THEN Word(opt.name)
                     ELSE IF apart THEN argv[i + 1] ELSE Word(given[i].value))
    BY <2>1, Zenon DEF TakenAt
  <2>3. apart => argv[i + 1] = given[i + 1] /\ i + 1 \in DOMAIN given
    BY <1>2, <2>2
  <2> QED
    BY <2>2, <2>3, Zenon
<1>11. PlacesAt(i, o.long) = IF apart THEN {i, i + 1} ELSE {i}
  BY <1>3, Zenon DEF PlacesAt, Apart
<1>12. ValueAt(i, o.long) = IF ~has_value THEN Word(opt.name)
                            ELSE IF apart THEN given[i + 1] ELSE Word(given[i].value)
  <2>1. ~has_value => ValueAt(i, o.long) = Word(opt.name)
    BY <1>3, <1>7, Zenon DEF ValueAt
  <2>2. has_value => ValueAt(i, o.long) = IF apart THEN given[i + 1] ELSE Word(given[i].value)
    BY <1>3, Zenon DEF ValueAt, Apart
  <2> QED
    BY <2>1, <2>2, Zenon
<1>13. IsUse(i, o.long)
  <2>1. o \in {Steps[k] : k \in DOMAIN Steps}
    BY DEF o
  <2>2. opt = Long(o.long) \/ (opt = Short(o.short) /\ o.short # "")
    BY <1>7
  <2> QED
    BY <1>10, <2>1, <2>2, Zenon DEF IsUse
<1>14. r.args = Erase(argv, PlacesAt(i, o.long)) /\ r.value = ValueAt(i, o.long)
  <2>1. r = Found(Erase(argv, PlacesAt(i, o.long)), "yes", ValueAt(i, o.long))
    BY <1>10, <1>11, <1>12, Zenon
  <2> QED
    BY <2>1 DEF Found
<1>15. /\ PlacesAt(i, o.long) \subseteq DOMAIN given
       /\ \A p \in PlacesAt(i, o.long) : argv[p] # Null
  BY <1>2, <1>9, <1>10, <1>11
<1>16. i \in DOMAIN given
  BY <1>2
<1>17. ASSUME NEW k \in DOMAIN given \ {i}, argv[k] # Null, IsUse(k, o.long)
       PROVE  Before(i, k)
  <2>1. argv[k] = given[k] /\ k \in DOMAIN argv /\ i \in Nat /\ k \in Nat
    BY <1>2, <1>17
  <2>2. \/ Matches(given[k], Long(o.long))
        \/ o.short # "" /\ Matches(given[k], Short(o.short))
    <3>1. PICK m \in DOMAIN Steps :
            /\ Steps[m].long = o.long
            /\ \/ Matches(given[k], Long(o.long))
               \/ Steps[m].short # "" /\ Matches(given[k], Short(Steps[m].short))
      BY <1>17 DEF IsUse
    <3>2. Steps[m].short = o.short
      BY <3>1, OptionsAreNamed DEF o, TypeOK
    <3> QED
      BY <3>1, <3>2
  <2>3. Matches(argv[k], opt) => i <= k
    BY <1>8, <2>1, Zenon DEF TakenAt
  <2>4. \A a, x : /\ Matches(a, Short(x)) => a.dashes = 1
                  /\ Matches(a, Long(x)) => a.dashes = 2
    BY DEF Matches, Short, Long, Arg
  <2>5. CASE opt = Short(o.short)
    <3>1. given[i].dashes = 1
      BY <1>10, <2>4, <2>5
    <3>2. CASE Matches(given[k], opt)
      <4>1. i <= k /\ given[k].dashes = 1
        BY <2>1, <2>3, <2>4, <2>5, <3>2
      <4> QED
        BY <1>17, <2>1, <3>1, <4>1 DEF Before
    <3>3. CASE Matches(given[k], Long(o.long))
      BY <2>4, <3>1, <3>3 DEF Before
    <3> QED
      BY <2>2, <2>5, <3>2, <3>3
  <2>6. CASE opt = Long(o.long)
    <3>1. Matches(given[k], opt)
      BY <1>7, <2>1, <2>2, <2>6
    <3>2. i <= k /\ given[k].dashes = 2 /\ given[i].dashes = 2
      BY <1>10, <2>1, <2>3, <2>4, <2>6, <3>1
    <3> QED
      BY <1>17, <2>1, <3>2 DEF Before
  <2> QED
    BY <2>5, <2>6
<1> QED
  BY <1>13, <1>14, <1>15, <1>16, <1>17, Zenon DEF r, o, has_value

-------------------------------------------------------------------------------
(* The account.                                                            *)

Argued ==
  /\ given \in CommandLines
  /\ result \in [OptionNames -> Seq(Given)]

(* Once the unknown options are refused, what is left is no option; when   *)
(* the command line is accepted, it is the positional argument.            *)
LeftOver ==
  /\ step = Len(Steps) + 2 => \A i \in Left : given[i].dashes = 0
  /\ outcome = "accepted" =>
       step = Len(Steps) + 2 /\ \A i \in Left : result["positional"] = << given[i] >>

(* The uses that are left of an option come after those that gave a value. *)
Behind(from) ==
  \A r \in Recorded : \A i \in Left : IsUse(i, r[1]) => Before(from[r], i)

LEMMA RecordedPairs ==
  ASSUME NEW r
  PROVE  r \in Recorded <=> \E n \in OptionNames \ {"positional"} :
                              \E k \in DOMAIN result[n] : r = <<n, k>>
BY DEF Recorded

LEMMA AppendFacts ==
  ASSUME NEW S, NEW s \in Seq(S), NEW v \in S
  PROVE  /\ Append(s, v) \in Seq(S)
         /\ DOMAIN Append(s, v) = DOMAIN s \cup {Len(s) + 1}
         /\ Len(s) + 1 \notin DOMAIN s
         /\ \A k \in DOMAIN s : Append(s, v)[k] = s[k]
         /\ Append(s, v)[Len(s) + 1] = v
OBVIOUS

(* The command line stays as it is, and so do its uses.                    *)
LEMMA UsesAreKept ==
  ASSUME UNCHANGED <<program, given>>
  PROVE  \A x, n : /\ PlacesAt(x, n)' = PlacesAt(x, n) /\ ValueAt(x, n)' = ValueAt(x, n)
                   /\ IsUse(x, n)' <=> IsUse(x, n)
<1>1. Steps' = Steps
  BY DEF Steps
<1>2. \A x, n : PlacesAt(x, n)' = PlacesAt(x, n)
  BY DEF PlacesAt
<1>3. \A x, n : ValueAt(x, n)' = ValueAt(x, n)
  BY DEF ValueAt
<1>4. \A x, n : IsUse(x, n)' <=> IsUse(x, n)
  <2> DEFINE Called(steps, arg, n) ==
               \E o \in {steps[j] : j \in DOMAIN steps} :
                 /\ o.long = n
                 /\ \/ Matches(arg, Long(n))
                    \/ o.short # "" /\ Matches(arg, Short(o.short))
  <2>1. \A x, n : /\ IsUse(x, n) <=> Called(Steps, given[x], n)
                  /\ IsUse(x, n)' <=> Called(Steps', given'[x], n)
    BY Zenon DEF IsUse
  <2> HIDE DEF Called
  <2> QED
    BY <1>1, <2>1
<1> QED
  BY <1>2, <1>3, <1>4

LEMMA AccountedUnprimed ==
  ASSUME UNCHANGED <<program, given>>, NEW from,
         {x \in DOMAIN given : argv'[x] = Null}
           = UNION {PlacesAt(from[r], r[1]) : r \in Recorded'},
         \A r, q \in Recorded' :
           r # q => PlacesAt(from[r], r[1]) \cap PlacesAt(from[q], q[1]) = {},
         \A r \in Recorded' :
           IsUse(from[r], r[1]) /\ result'[r[1]][r[2]] = ValueAt(from[r], r[1]),
         \A r, q \in Recorded' :
           r[1] = q[1] /\ r[2] < q[2] => Before(from[r], from[q]),
         \A r \in Recorded' : \A i \in Left' : IsUse(i, r[1]) => Before(from[r], i)
  PROVE  AccountedBy(from)' /\ Behind(from)'
<1>1. \A x, n : /\ PlacesAt(x, n)' = PlacesAt(x, n) /\ ValueAt(x, n)' = ValueAt(x, n)
                /\ IsUse(x, n)' <=> IsUse(x, n)
  BY UsesAreKept
<1>2. {x \in DOMAIN given' : argv'[x] = Null} = {x \in DOMAIN given : argv'[x] = Null}
  OBVIOUS
<1>3. UNION {PlacesAt(from[r], r[1])' : r \in Recorded'}
        = UNION {PlacesAt(from[r], r[1]) : r \in Recorded'}
  BY <1>1
<1>4. \A r, q \in Recorded' :
        r # q => PlacesAt(from[r], r[1])' \cap PlacesAt(from[q], q[1])' = {}
  BY <1>1
<1>5. \A r \in Recorded' :
        IsUse(from[r], r[1])' /\ result'[r[1]][r[2]] = ValueAt(from[r], r[1])'
  BY <1>1
<1>6. \A i, j : Before(i, j)' <=> Before(i, j)
  BY DEF Before
<1>7. /\ \A r, q \in Recorded' :
           r[1] = q[1] /\ r[2] < q[2] => Before(from[r], from[q])'
      /\ \A r \in Recorded' : \A i \in Left' : IsUse(i, r[1])' => Before(from[r], i)'
  BY <1>1, <1>6
<1> QED
  BY <1>2, <1>3, <1>4, <1>5, <1>7, Zenon DEF AccountedBy, Behind

(* A use that is recorded, and of which nothing was erased before, is      *)
(* added to the account.                                                   *)
LEMMA Taking ==
  ASSUME TypeOK, Argued, UNCHANGED <<program, given>>,
         NEW name \in OptionNames \ {"positional"}, NEW i \in DOMAIN given,
         IsUse(i, name), PlacesAt(i, name) \subseteq DOMAIN given,
         \A p \in PlacesAt(i, name) : argv[p] # Null,
         \A j \in DOMAIN given \ {i} : argv[j] # Null /\ IsUse(j, name) => Before(i, j),
         ValueAt(i, name) \in Given,
         argv' = Erase(argv, PlacesAt(i, name)),
         result' = [result EXCEPT ![name] = Append(@, ValueAt(i, name))],
         NEW from \in [Recorded -> DOMAIN given], AccountedBy(from), Behind(from)
  PROVE  \E f \in [Recorded' -> DOMAIN given'] : AccountedBy(f)' /\ Behind(f)'
<1> DEFINE v == ValueAt(i, name)
           k == Len(result[name]) + 1
           new == <<name, k>>
<1>1. /\ result[name] \in Seq(Given) /\ DOMAIN result = OptionNames
      /\ result'[name] = Append(result[name], v)
      /\ DOMAIN result'[name] = DOMAIN result[name] \cup {k}
      /\ k \notin DOMAIN result[name]
      /\ \A j \in DOMAIN result[name] : result'[name][j] = result[name][j]
      /\ result'[name][k] = v
      /\ \A n \in OptionNames \ {name} : result'[n] = result[n]
  <2>1. result[name] \in Seq(Given) /\ v \in Given /\ DOMAIN result = OptionNames
    BY DEF Argued
  <2>2. /\ result'[name] = Append(result[name], v)
        /\ \A n \in OptionNames \ {name} : result'[n] = result[n]
    BY <2>1
  <2> HIDE DEF v
  <2> QED
    BY <2>1, <2>2, AppendFacts
<1> HIDE DEF v, k
<1>2. \A r : r \in Recorded' <=> r \in Recorded \/ r = new
  <2> SUFFICES ASSUME NEW r PROVE r \in Recorded' <=> r \in Recorded \/ r = new
    OBVIOUS
  <2>1. r \in Recorded' <=> \E n \in OptionNames \ {"positional"} :
                              \E j \in DOMAIN result'[n] : r = <<n, j>>
    BY DEF Recorded
  <2>2. r \in Recorded <=> \E n \in OptionNames \ {"positional"} :
                             \E j \in DOMAIN result[n] : r = <<n, j>>
    BY RecordedPairs
  <2> QED
    BY <1>1, <2>1, <2>2
<1>3. new \notin Recorded
  BY <1>1, RecordedPairs
<1>4. \A r \in Recorded : result'[r[1]][r[2]] = result[r[1]][r[2]]
  <2> SUFFICES ASSUME NEW r \in Recorded PROVE result'[r[1]][r[2]] = result[r[1]][r[2]]
    OBVIOUS
  <2>1. \E n \in OptionNames \ {"positional"} : \E j \in DOMAIN result[n] : r = <<n, j>>
    BY RecordedPairs
  <2> QED
    BY <1>1, <2>1
<1>5. new[1] = name /\ new[2] = k
  OBVIOUS
<1> HIDE DEF new
<1>6. PICK f \in [Recorded' -> DOMAIN given] :
        f[new] = i /\ \A r \in Recorded : f[r] = from[r]
  <2> DEFINE g == [r \in Recorded' |-> IF r = new THEN i ELSE from[r]]
  <2>1. g \in [Recorded' -> DOMAIN given] /\ g[new] = i /\ \A r \in Recorded : g[r] = from[r]
    BY <1>2, <1>3
  <2> QED
    BY <2>1
<1> DEFINE places(g, r) == PlacesAt(g[r], r[1])
<1>8. {x \in DOMAIN given : argv'[x] = Null} = UNION {places(f, r) : r \in Recorded'}
  <2>1. \A x \in DOMAIN given : argv'[x] = Null <=> argv[x] = Null \/ x \in PlacesAt(i, name)
    BY DEF TypeOK, Erase
  <2>2. {x \in DOMAIN given : argv[x] = Null} = UNION {places(from, r) : r \in Recorded}
    BY DEF AccountedBy
  <2>3. \A x : x \in DOMAIN given /\ argv[x] = Null <=> \E r \in Recorded : x \in places(from, r)
    BY <2>2
  <2>4. /\ \A r \in Recorded : places(f, r) = places(from, r)
        /\ places(f, new) = PlacesAt(i, name)
    BY <1>5, <1>6
  <2> HIDE DEF places
  <2>5. \A x : (\E r \in Recorded' : x \in places(f, r))
               <=> x \in PlacesAt(i, name) \/ \E r \in Recorded : x \in places(from, r)
    BY <1>2, <2>4
  <2>6. \A x : x \in DOMAIN given /\ argv'[x] = Null <=> \E r \in Recorded' : x \in places(f, r)
    BY <2>1, <2>3, <2>5
  <2> QED
    BY <2>6
<1>9. ASSUME NEW r \in Recorded', NEW q \in Recorded', r # q
      PROVE  PlacesAt(f[r], r[1]) \cap PlacesAt(f[q], q[1]) = {}
  <2>1. \A s \in Recorded : PlacesAt(from[s], s[1]) \cap PlacesAt(i, name) = {}
    <3>1. {x \in DOMAIN given : argv[x] = Null}
            = UNION {PlacesAt(from[s], s[1]) : s \in Recorded}
      BY DEF AccountedBy
    <3> QED
      BY <3>1
  <2>2. \A s, t \in Recorded : s # t => PlacesAt(from[s], s[1]) \cap PlacesAt(from[t], t[1]) = {}
    BY DEF AccountedBy
  <2> QED
    BY <1>2, <1>5, <1>6, <1>9, <2>1, <2>2
<1>10. ASSUME NEW r \in Recorded'
       PROVE  IsUse(f[r], r[1]) /\ result'[r[1]][r[2]] = ValueAt(f[r], r[1])
  <2>1. \A s \in Recorded : IsUse(from[s], s[1]) /\ result[s[1]][s[2]] = ValueAt(from[s], s[1])
    BY DEF AccountedBy
  <2>2. CASE r \in Recorded
    BY <1>4, <1>6, <2>1, <2>2
  <2>3. CASE r = new
    BY <1>1, <1>5, <1>6, <2>3 DEF v
  <2> QED
    BY <1>2, <2>2, <2>3
<1>11. i \in Left /\ Left' \subseteq Left \ {i}
  <2>1. i \in PlacesAt(i, name)
    BY DEF PlacesAt
  <2> QED
    BY <2>1 DEF TypeOK, Erase, Left
<1>12. ASSUME NEW r \in Recorded', NEW q \in Recorded', r[1] = q[1], r[2] < q[2]
       PROVE  Before(f[r], f[q])
  <2>1. CASE r \in Recorded /\ q \in Recorded
    BY <1>6, <1>12, <2>1 DEF AccountedBy
  <2>2. CASE r \in Recorded /\ q = new
    BY <1>5, <1>6, <1>11, <1>12, <2>2 DEF Behind
  <2>3. CASE r = new
    <3>1. q # new /\ q \in Recorded
      BY <1>1, <1>2, <1>5, <1>12, <2>3 DEF k
    <3>2. q[2] \in DOMAIN result[name]
      <4>1. \E n \in OptionNames \ {"positional"} : \E j \in DOMAIN result[n] : q = <<n, j>>
        BY <3>1, RecordedPairs
      <4> QED
        BY <1>5, <1>12, <2>3, <4>1
    <3> QED
      BY <1>1, <1>5, <1>12, <2>3, <3>2 DEF k
  <2> QED
    BY <1>2, <2>1, <2>2, <2>3
<1>13. ASSUME NEW r \in Recorded', NEW j \in Left', IsUse(j, r[1])
       PROVE  Before(f[r], j)
  <2>1. CASE r \in Recorded
    BY <1>6, <1>11, <1>13, <2>1 DEF Behind
  <2>2. CASE r = new
    <3>1. j \in DOMAIN given /\ argv[j] # Null /\ j # i
      BY <1>11 DEF TypeOK, Left
    <3> QED
      BY <1>5, <1>6, <1>13, <2>2, <3>1
  <2> QED
    BY <1>2, <2>1, <2>2
<1>14. AccountedBy(f)' /\ Behind(f)'
  BY <1>8, <1>9, <1>10, <1>12, <1>13, AccountedUnprimed
<1> QED
  BY <1>6, <1>14

AccountKept ==
  \E from \in [Recorded -> DOMAIN given] : AccountedBy(from) /\ Behind(from)

(* What a step records of what it finds keeps the account.                 *)
LEMMA StepTakes ==
  ASSUME TypeOK, Argued, AccountKept, NEW kinds, At(kinds), NEW has_value,
         has_value = NeedsValue(Now), ParseArg(Now, has_value).found = "yes",
         argv' = ParseArg(Now, has_value).args, Record(ParseArg(Now, has_value).value)
  PROVE  AccountKept' /\ Argued'
<1>1. /\ UNCHANGED <<program, given>> /\ step \in DOMAIN Steps /\ given \in CommandLines
      /\ result \in [OptionNames -> Seq(Given)]
  BY DEF At, Parsing, Argued
<1> DEFINE name == Steps[step].long
           r == ParseArg(Steps[step], NeedsValue(Steps[step]))
           TakesAt(i) == /\ IsUse(i, name)
                         /\ PlacesAt(i, name) \subseteq DOMAIN given
                         /\ \A p \in PlacesAt(i, name) : argv[p] # Null
                         /\ \A k \in DOMAIN given \ {i} :
                              argv[k] # Null /\ IsUse(k, name) => Before(i, k)
                         /\ r.args = Erase(argv, PlacesAt(i, name))
                         /\ r.value = ValueAt(i, name)
<1>2. /\ r.found = "yes" /\ argv' = r.args
      /\ result' = [result EXCEPT ![name] = Append(@, r.value)]
  BY Zenon DEF Now, Record
<1>3. \E i \in DOMAIN given : TakesAt(i)
  <2>1. ParseArg(Steps[step], NeedsValue(Steps[step])).found = "yes"
    BY <1>2
  <2> QED
    BY <1>1, <2>1, ParseArgTakes
<1>4. PICK i \in DOMAIN given : TakesAt(i)
  BY <1>3
<1>5. name \in OptionNames \ {"positional"}
  BY <1>1, OptionsAreNamed DEF TypeOK
<1> HIDE DEF r, name
<1>6. ValueAt(i, name) \in Given
  <2>1. given[i] \in Arguments
    BY <1>1, GivenArguments
  <2>2. name \in Flags \/ given[i].value # "" \/ given[i + 1] \in Arguments
    <3>1. CASE name \in Flags \/ given[i].value # ""
      BY <3>1
    <3>2. CASE ~(name \in Flags \/ given[i].value # "")
      <4>1. PlacesAt(i, name) = {i, i + 1}
        BY <3>2, Zenon DEF PlacesAt
      <4> QED
        BY <1>1, <1>4, <4>1, GivenArguments
    <3> QED
      BY <3>1, <3>2
  <2>3. /\ name \in Flags => ValueAt(i, name) = Word(name)
        /\ name \notin Flags /\ given[i].value # "" => ValueAt(i, name) = Word(given[i].value)
        /\ name \notin Flags /\ given[i].value = "" => ValueAt(i, name) = given[i + 1]
    BY Zenon DEF ValueAt
  <2> QED
    BY <1>5, <2>1, <2>2, <2>3 DEF Given
<1>7. PICK from \in [Recorded -> DOMAIN given] : AccountedBy(from) /\ Behind(from)
  BY DEF AccountKept
<1>8. /\ argv' = Erase(argv, PlacesAt(i, name))
      /\ result' = [result EXCEPT ![name] = Append(@, ValueAt(i, name))]
  BY <1>2, <1>4
<1>9. AccountKept'
  <2>1. \E f \in [Recorded' -> DOMAIN given'] : AccountedBy(f)' /\ Behind(f)'
    BY <1>1, <1>4, <1>5, <1>6, <1>7, <1>8, Taking
  <2> QED
    BY <2>1 DEF AccountKept
<1>10. Argued'
  <2>1. result[name] \in Seq(Given) => Append(result[name], ValueAt(i, name)) \in Seq(Given)
    BY <1>6
  <2> HIDE DEF Given
  <2>2. result' \in [OptionNames -> Seq(Given)]
    BY <1>1, <1>5, <1>8, <2>1
  <2> QED
    BY <1>1, <2>2 DEF Argued, Given, CommandLines
<1> QED
  BY <1>9, <1>10

(* A step that erases nothing and records nothing does too.                *)
LEMMA StepKeeps ==
  ASSUME Argued, AccountKept, UNCHANGED <<program, given, argv>>,
         \A n \in OptionNames \ {"positional"} : result'[n] = result[n]
  PROVE  AccountKept'
<1>1. Recorded' = Recorded
  <2>1. \A r : r \in Recorded' <=> \E n \in OptionNames \ {"positional"} :
                                     \E k \in DOMAIN result'[n] : r = <<n, k>>
    BY DEF Recorded
  <2>2. \A r : r \in Recorded' <=> r \in Recorded
    BY <2>1, RecordedPairs
  <2>3. Recorded' \in SUBSET Recorded /\ Recorded \in SUBSET Recorded'
    BY <2>2
  <2> QED
    BY <2>3
<1>2. \A r \in Recorded : result'[r[1]][r[2]] = result[r[1]][r[2]]
  <2> SUFFICES ASSUME NEW r \in Recorded PROVE result'[r[1]][r[2]] = result[r[1]][r[2]]
    OBVIOUS
  <2>1. \E n \in OptionNames \ {"positional"} : \E k \in DOMAIN result[n] : r = <<n, k>>
    BY RecordedPairs
  <2> QED
    BY <2>1
<1>3. PICK from \in [Recorded -> DOMAIN given] : AccountedBy(from) /\ Behind(from)
  BY DEF AccountKept
<1>4. /\ {x \in DOMAIN given : argv'[x] = Null}
           = UNION {PlacesAt(from[r], r[1]) : r \in Recorded'}
      /\ \A r, q \in Recorded' :
           r # q => PlacesAt(from[r], r[1]) \cap PlacesAt(from[q], q[1]) = {}
      /\ \A r \in Recorded' :
           IsUse(from[r], r[1]) /\ result'[r[1]][r[2]] = ValueAt(from[r], r[1])
      /\ \A r, q \in Recorded' :
           r[1] = q[1] /\ r[2] < q[2] => Before(from[r], from[q])
  BY <1>1, <1>2, <1>3 DEF AccountedBy
<1>5. AccountedBy(from)' /\ Behind(from)'
  <2>1. \A r \in Recorded' : \A i \in Left' : IsUse(i, r[1]) => Before(from[r], i)
    BY <1>1, <1>3 DEF Behind, Left
  <2> QED
    BY <1>4, <2>1, AccountedUnprimed
<1> QED
  BY <1>1, <1>3, <1>5 DEF AccountKept

LEMMA InitAccount ==
  ASSUME Init
  PROVE  Argued /\ LeftOver /\ AccountKept
<1>1. Argued
  BY DEF Init, Argued
<1>2. PICK n \in Nat : given \in [1..n -> Arguments]
  BY GivenArguments DEF Init
<1>3. Recorded = {}
  <2>1. \A name \in OptionNames : DOMAIN result[name] = {}
    BY DEF Init
  <2> QED
    BY <2>1, RecordedPairs
<1>4. {i \in DOMAIN given : argv[i] = Null} = {}
  BY <1>2, NullAssumption DEF Init
<1>5. AccountKept
  <2> DEFINE from == [r \in Recorded |-> 0]
  <2>1. from \in [Recorded -> DOMAIN given]
    BY <1>3
  <2>2. AccountedBy(from) /\ Behind(from)
    BY <1>3, <1>4 DEF AccountedBy, Behind
  <2> QED
    BY <2>1, <2>2 DEF AccountKept
<1>6. LeftOver
  <2>1. Len(Steps) \in Nat
    BY StepsAreFinite DEF Init
  <2> QED
    BY <2>1 DEF Init, LeftOver
<1> QED
  BY <1>1, <1>5, <1>6

(* No two are left.                                                        *)
LEMMA OneLeft ==
  ASSUME NEW n \in Nat, NEW S \in SUBSET (1..n), ~(Cardinality(S) > 1), NEW i \in S
  PROVE  S = {i}
<1>1. IsFiniteSet(S) /\ IsFiniteSet(S \ {i}) /\ Cardinality(S \ {i}) \in Nat
  <2>1. IsFiniteSet(1..n)
    BY FS_Interval
  <2>2. IsFiniteSet(S)
    BY <2>1, FS_Subset
  <2>3. IsFiniteSet(S \ {i})
    BY <2>2, FS_Subset
  <2> QED
    BY <2>2, <2>3, FS_CardinalityType
<1>2. Cardinality(S \ {i}) = Cardinality(S) - 1
  BY <1>1, FS_RemoveElement
<1>3. Cardinality(S) \in Nat
  BY <1>1, FS_CardinalityType
<1>4. Cardinality(S \ {i}) = 0
  BY <1>1, <1>2, <1>3
<1>5. S \ {i} = {}
  BY <1>1, <1>4, FS_EmptySet
<1> QED
  BY <1>5

(* A search for the present option, whether it records a value or not.     *)
Searched(has_value) ==
  /\ argv' = ParseArg(Now, has_value).args
  /\ \/ /\ ParseArg(Now, has_value).found # "yes"
        /\ UNCHANGED result /\ outcome' # "accepted"
     \/ /\ ParseArg(Now, has_value).found = "yes"
        /\ Record(ParseArg(Now, has_value).value) /\ UNCHANGED outcome
     \/ UNCHANGED result /\ outcome' \in {"refused", "exit"}

LEMMA SearchKeepsAccount ==
  ASSUME TypeOK, Argued, AccountKept, NEW kinds, At(kinds), NEW has_value,
         has_value = NeedsValue(Now), Searched(has_value)
  PROVE  /\ outcome' # "accepted" /\ Argued'
         /\ outcome' = "parsing" => AccountKept'
<1>1. UNCHANGED <<program, given>> /\ outcome = "parsing"
  BY DEF At, Parsing
<1>2. UNCHANGED result => Argued'
  BY <1>1 DEF Argued, Given, CommandLines
<1>3. CASE ParseArg(Now, has_value).found # "yes" /\ UNCHANGED result /\ outcome' # "accepted"
  <2>1. UNCHANGED argv
    BY <1>3, ParseArgTakesNothing DEF Searched
  <2> QED
    BY <1>1, <1>2, <1>3, <2>1, StepKeeps
<1>4. CASE /\ ParseArg(Now, has_value).found = "yes"
           /\ Record(ParseArg(Now, has_value).value) /\ UNCHANGED outcome
  <2>1. AccountKept' /\ Argued'
    BY <1>4, StepTakes DEF Searched
  <2> QED
    BY <1>1, <1>4, <2>1
<1>5. CASE UNCHANGED result /\ outcome' \in {"refused", "exit"}
  BY <1>2, <1>5
<1> QED
  BY <1>3, <1>4, <1>5 DEF Searched

LEMMA Searches ==
  ASSUME outcome = "parsing", ParseOne \/ ParsePairs \/ ListMore
  PROVE  \E kinds, has_value :
           At(kinds) /\ has_value = NeedsValue(Now) /\ Searched(has_value)
<1>1. CASE ParseOne
  <2> DEFINE has_value == NeedsValue(Now)
  <2>1. At({"plain", "checked", "flag", "checked flag"})
    BY <1>1, Zenon DEF ParseOne
  <2> HIDE DEF has_value
  <2>2. /\ argv' = ParseArg(Now, has_value).args
        /\ \/ /\ ParseArg(Now, has_value).found = "no"
              /\ UNCHANGED result /\ UNCHANGED outcome
           \/ /\ ParseArg(Now, has_value).found = "yes"
              /\ Record(ParseArg(Now, has_value).value) /\ UNCHANGED outcome
           \/ UNCHANGED result /\ outcome' \in {"refused", "exit"}
    BY <1>1, Zenon DEF ParseOne, End, has_value
  <2>3. Searched(has_value)
    BY <2>2 DEF Searched
  <2> QED
    BY <2>1, <2>3, Zenon DEF has_value
<1>2. CASE ParsePairs
  <2>1. TRUE = NeedsValue(Now)
    BY <1>2 DEF ParsePairs, At, Now, NeedsValue
  <2>2. At({"pairs"})
    BY <1>2, Zenon DEF ParsePairs
  <2>3. /\ argv' = ParseArg(Now, TRUE).args
        /\ \/ /\ ParseArg(Now, TRUE).found = "no"
              /\ UNCHANGED result /\ UNCHANGED outcome
           \/ /\ ParseArg(Now, TRUE).found = "yes"
              /\ Record(ParseArg(Now, TRUE).value) /\ UNCHANGED outcome
           \/ UNCHANGED result /\ outcome' \in {"refused", "exit"}
    BY <1>2, Zenon DEF ParsePairs, End
  <2>4. Searched(TRUE)
    BY <2>3 DEF Searched
  <2> QED
    BY <2>1, <2>2, <2>4, Zenon
<1>3. CASE ListMore
  <2>1. TRUE = NeedsValue(Now)
    BY <1>3 DEF ListMore, At, Now, NeedsValue
  <2>2. At({"list"})
    BY <1>3, Zenon DEF ListMore
  <2>3. /\ argv' = ParseArg(Now, TRUE).args
        /\ \/ /\ ParseArg(Now, TRUE).found = "yes"
              /\ Record(ParseArg(Now, TRUE).value) /\ UNCHANGED outcome
           \/ UNCHANGED result /\ outcome' \in {"refused", "exit"}
    BY <1>3, Zenon DEF ListMore, End
  <2>4. Searched(TRUE)
    BY <2>3 DEF Searched
  <2> QED
    BY <2>1, <2>2, <2>4, Zenon
<1> QED
  BY <1>1, <1>2, <1>3

Accounts == outcome \in {"parsing", "accepted"} => AccountKept

(* The account is kept through every step that does not end in a refusal.  *)
THEOREM AccountIsKept == Spec => [](Argued /\ LeftOver /\ Accounts)
<1>1. Init => Argued /\ LeftOver /\ AccountKept
  BY InitAccount
<1>2. /\ Argued /\ LeftOver /\ (outcome \in {"parsing", "accepted"} => AccountKept)
      /\ TypeOK /\ TypeOK' /\ [Next]_vars
      => (Argued /\ LeftOver /\ (outcome \in {"parsing", "accepted"} => AccountKept))'
  <2> SUFFICES ASSUME Argued, LeftOver, TypeOK, TypeOK', [Next]_vars,
                      outcome \in {"parsing", "accepted"} => AccountKept
               PROVE  /\ Argued' /\ LeftOver'
                      /\ outcome' \in {"parsing", "accepted"} => AccountKept'
    OBVIOUS
  <2>1. Len(Steps) \in Nat /\ DOMAIN Steps = 1..Len(Steps)
    BY StepsAreFinite DEF TypeOK
  <2>2. UNCHANGED program => Steps' = Steps
    BY DEF Steps
  <2>3. CASE UNCHANGED vars
    <3>1. Argued'
      BY <2>3 DEF vars, Argued, Given, CommandLines
    <3>2. LeftOver'
      BY <2>2, <2>3 DEF vars, LeftOver, Left
    <3>3. AccountKept => AccountKept'
      BY <2>3, StepKeeps DEF vars
    <3> QED
      BY <2>3, <3>1, <3>2, <3>3 DEF vars
  <2>4. ASSUME Next
        PROVE  /\ outcome = "parsing" /\ UNCHANGED <<program, given>> /\ Steps' = Steps
               /\ AccountKept
    <3>1. outcome = "parsing" /\ UNCHANGED <<program, given>>
      BY <2>4 DEF Next, CheckHelp, ParseOne, ParsePairs, ListMore, ListClose,
                  ListInsert, CheckUnknownOpts, ParsePosArgs, At, Parsing
    <3> QED
      BY <2>2, <3>1
  <2>5. ASSUME Next, UNCHANGED <<argv, result>> PROVE Argued' /\ AccountKept'
    <3>1. Argued'
      BY <2>4, <2>5 DEF Argued, Given, CommandLines
    <3> QED
      BY <2>4, <2>5, <3>1, StepKeeps
  <2>6. CASE CheckHelp
    <3>1. /\ step = 0 /\ argv' = ParseArg(HelpOption, FALSE).args
          /\ UNCHANGED result
          /\ \/ outcome' = "help" /\ step' = step
             \/ ParseArg(HelpOption, FALSE).found = "no" /\ step' = step + 1 /\ UNCHANGED outcome
      BY <2>6, Zenon DEF CheckHelp, End, Proceed
    <3>2. outcome' = "help" \/ UNCHANGED argv
      BY <3>1, ParseArgTakesNothing
    <3>3. Argued'
      BY <2>4, <2>6, <3>1 DEF Next, Argued, Given, CommandLines
    <3>4. outcome' = "help" \/ AccountKept'
      BY <2>4, <2>6, <3>1, <3>2, StepKeeps DEF Next
    <3>5. LeftOver'
      <4>1. outcome = "parsing" /\ Steps' = Steps
        BY <2>4, <2>6 DEF Next
      <4>2. step' # Len(Steps') + 2
        <5>1. step = 0 /\ (step' = step \/ step' = step + 1)
          BY <3>1, Zenon
        <5> QED
          BY <2>1, <4>1, <5>1
      <4>3. outcome' # "accepted"
        BY <3>1, <4>1
      <4> QED
        BY <4>2, <4>3, Zenon DEF LeftOver
    <3> QED
      BY <3>3, <3>4, <3>5
  <2>7. CASE ParseOne \/ ParsePairs \/ ListMore
    <3>1. outcome = "parsing" /\ AccountKept
      BY <2>4, <2>7 DEF Next
    <3>2. PICK kinds, has_value :
            At(kinds) /\ has_value = NeedsValue(Now) /\ Searched(has_value)
      BY <2>7, <3>1, Searches
    <3>3. /\ outcome' # "accepted" /\ Argued'
          /\ outcome' = "parsing" => AccountKept'
      BY <3>1, <3>2, SearchKeepsAccount
    <3>4. step' \in {step, step + 1} /\ step \in DOMAIN Steps
      <4>1. ParseOne => step' = step \/ Proceed
        BY Zenon DEF ParseOne, End
      <4>2. ParsePairs => step' = step \/ Proceed
        BY Zenon DEF ParsePairs, End
      <4>3. ListMore => step' = step
        BY Zenon DEF ListMore, End
      <4>4. step \in DOMAIN Steps
        BY <3>2 DEF At
      <4> QED
        BY <2>7, <4>1, <4>2, <4>3, <4>4 DEF Proceed
    <3>5. LeftOver'
      BY <2>1, <2>4, <2>7, <3>3, <3>4 DEF Next, LeftOver
    <3> QED
      BY <3>3, <3>5
  <2>8. CASE ListClose \/ ListInsert
    <3>1. /\ step \in DOMAIN Steps /\ step' \in {step, step + 1}
          /\ UNCHANGED <<argv, result>> /\ outcome' # "accepted"
      <4>1. CASE ListClose
        BY <2>4, <4>1 DEF Next, ListClose, At, Proceed
      <4>2. CASE ListInsert
        BY <2>4, <4>2 DEF Next, ListInsert, At, Proceed, End
      <4> QED
        BY <2>8, <4>1, <4>2
    <3>2. LeftOver'
      BY <2>1, <2>4, <2>8, <3>1 DEF Next, LeftOver
    <3> QED
      BY <2>5, <2>8, <3>1, <3>2 DEF Next
  <2>9. CASE CheckUnknownOpts
    <3>1. /\ UNCHANGED <<argv, result>> /\ step = Len(Steps) + 1
          /\ \/ outcome' = "exit" /\ step' = step
             \/ /\ ~\E i \in Left : argv[i].dashes > 0
                /\ UNCHANGED outcome
      BY <2>9 DEF CheckUnknownOpts, End
    <3>2. ASSUME ~\E i \in Left : argv[i].dashes > 0, NEW i \in Left
          PROVE  given[i].dashes = 0
      <4>1. argv[i] = given[i] /\ given[i] \in Arguments
        BY GivenArguments DEF TypeOK, Argued, Left
      <4>2. given[i].dashes \in 0..2
        BY <4>1, ArgumentsAreRecords
      <4> QED
        BY <3>2, <4>1, <4>2
    <3>3. UNCHANGED <<given, argv>> => Left' = Left
      BY DEF Left
    <3>4. outcome' # "accepted"
      BY <2>4, <2>9, <3>1 DEF Next
    <3>5. LeftOver'
      BY <2>1, <2>4, <2>9, <3>1, <3>2, <3>3, <3>4 DEF Next, LeftOver
    <3> QED
      BY <2>5, <2>9, <3>1, <3>5 DEF Next
  <2>10. CASE ParsePosArgs
    <3>1. /\ UNCHANGED argv /\ step = Len(Steps) + 2 /\ UNCHANGED step
          /\ \/ outcome' = "exit" /\ UNCHANGED result
             \/ /\ ~(Cardinality(Left) > 1) /\ outcome' = "accepted"
                /\ result' = [result EXCEPT !["positional"] =
                                IF Left = {} THEN << >> ELSE << argv[Min(Left)] >>]
      BY <2>10 DEF ParsePosArgs, End
    <3>2. CASE outcome' = "exit" /\ UNCHANGED result
      <4>1. LeftOver'
        BY <2>4, <2>10, <3>1, <3>2 DEF Next, LeftOver, Left
      <4> QED
        BY <2>5, <2>10, <3>1, <3>2, <4>1 DEF Next
    <3>3. CASE /\ ~(Cardinality(Left) > 1) /\ outcome' = "accepted"
               /\ result' = [result EXCEPT !["positional"] =
                               IF Left = {} THEN << >> ELSE << argv[Min(Left)] >>]
      <4>1. PICK n \in Nat : given \in [1..n -> Arguments]
        BY GivenArguments DEF Argued
      <4>2. Left \in SUBSET (1..n) /\ \A i \in Left : argv[i] = given[i] /\ given[i] \in Arguments
        BY <4>1 DEF TypeOK, Left
      <4>3. \A i \in Left : Left = {i} /\ Min(Left) = i
        <5> SUFFICES ASSUME NEW i \in Left PROVE Left = {i} /\ Min(Left) = i
          OBVIOUS
        <5>1. Left = {i}
          BY <3>3, <4>2, OneLeft
        <5>2. Min(Left) \in Left
          <6>1. Left \in SUBSET Nat /\ Left # {}
            BY <4>2
          <6> QED
            BY <6>1, MinIsElement
        <5> QED
          BY <5>1, <5>2
      <4> DEFINE pos == IF Left = {} THEN << >> ELSE << argv[Min(Left)] >>
      <4>4. \A i \in Left : pos = << given[i] >>
        BY <4>2, <4>3
      <4>5. pos \in Seq(Given)
        <5>1. CASE Left = {}
          BY <5>1
        <5>2. ASSUME NEW i \in Left PROVE pos \in Seq(Given)
          <6>1. given[i] \in Given
            BY <4>2, <5>2 DEF Given
          <6> HIDE DEF pos
          <6>2. pos = << given[i] >>
            BY <4>4, <5>2
          <6> QED
            BY <6>1, <6>2
        <5> QED
          BY <5>1, <5>2
      <4>6. "positional" \in OptionNames /\ result \in [OptionNames -> Seq(Given)]
        BY DEF OptionNames, Argued
      <4> HIDE DEF pos
      <4>7. result' = [result EXCEPT !["positional"] = pos]
        BY <3>3 DEF pos
      <4>8. /\ result'["positional"] = pos /\ result' \in [OptionNames -> Seq(Given)]
            /\ \A m \in OptionNames \ {"positional"} : result'[m] = result[m]
        BY <4>5, <4>6, <4>7
      <4>9. Argued'
        BY <2>4, <2>10, <4>8 DEF Next, Argued, Given, CommandLines
      <4>10. AccountKept'
        BY <2>4, <2>10, <3>1, <4>8, StepKeeps DEF Next
      <4>11. Left' = Left
        BY <2>4, <2>10, <3>1 DEF Next, Left
      <4>12. LeftOver'
        BY <2>4, <2>10, <3>1, <4>4, <4>8, <4>11 DEF Next, LeftOver
      <4> QED
        BY <4>9, <4>10, <4>12
    <3> QED
      BY <3>1, <3>2, <3>3
  <2> QED
    BY <2>3, <2>6, <2>7, <2>8, <2>9, <2>10 DEF Next
<1> QED
  BY <1>1, <1>2, TypeCorrect, PTL DEF Spec, Accounts

(* Whichever order parse_opt's callers look for the options in, each value *)
(* recorded was given for its option, in its turn and by arguments that    *)
(* gave no other, and what they leave is the positional argument.          *)
THEOREM EveryArgumentAccountedFor == Spec => []ArgumentsAccounted
<1>1. Argued /\ LeftOver /\ Accounts => ArgumentsAccounted
  BY DEF LeftOver, Accounts, AccountKept, ArgumentsAccounted
<1> QED
  BY <1>1, AccountIsKept, PTL

===============================================================================
