------------------------------- MODULE ParseArgs -------------------------------
(***************************************************************************)
(* How the examples read their command line.  parse_opt looks for one      *)
(* option at a time and erases what it found, so that the outcome depends  *)
(* on the order of the calls as well as on that of the arguments; what is  *)
(* left over in the end is an error.  ReadAsWritten compares the outcome   *)
(* with a reading of the command line from left to right.                  *)
(*                                                                         *)
(* An argument is a word, "-name", "--name" or "--name=value".  Its text   *)
(* matters only as far as parse_opt compares it, so that a long name is    *)
(* the name of an option, with or without more characters after it.        *)
(***************************************************************************)
EXTENDS Integers, Sequences, FiniteSets, FiniteSetsExt

CONSTANTS
  Programs,   \* the examples that are run
  Names,      \* the long names of the options that are given, or of none
  Words,      \* the texts that begin with no dash
  Undescribed,\* whether more may follow the name of an option or a flag
  MaxArgs,    \* arguments on a command line
  Lengths,    \* lengths of a value in characters
  Null        \* an erased argument, no argument

ASSUME ParseAssumption ==
  /\ Undescribed \in BOOLEAN /\ MaxArgs \in Nat /\ Lengths \subseteq Nat

VARIABLES
  program,    \* the example that runs
  given,      \* its arguments
  argv,       \* what is left of them
  step,       \* the option that is looked for
  result,     \* the values found, in order, for each option
  buf,        \* the text of a list option: its length, the size of its block
  outcome     \* whether and how the parsing ended

vars == <<program, given, argv, step, result, buf, outcome>>

-------------------------------------------------------------------------------
(* Options: "plain" ones have a value, which is taken as it is; a          *)
(* "checked" one may be refused, by a conversion or by the library; a      *)
(* "list" gathers all values into one, "pairs" are inserted one by one.    *)

Opt(kind, short, long) == [kind |-> kind, short |-> short, long |-> long]

HelpOption == Opt("flag", "h", "help")

CommonOptions ==
  << Opt("checked", "c", "config"), Opt("checked", "m", "mode"),
     Opt("list", "e", "connect"), Opt("list", "l", "listen"),
     Opt("pairs", "", "cfg"), Opt("checked flag", "", "no-multicast-scouting") >>

KeyOption     == Opt("plain", "k", "key")
PayloadOption == Opt("plain", "p", "payload")

OptionsOfPut == << KeyOption, PayloadOption >>
OptionsOfDelete == << KeyOption >>
OptionsOfPub ==
  << KeyOption, PayloadOption, Opt("plain", "a", "attach"),
     Opt("flag", "", "add-matching-listener") >>
OptionsOfSub == << KeyOption >>
OptionsOfQueryable == << KeyOption, PayloadOption, Opt("flag", "", "complete") >>
OptionsOfGet ==
  << Opt("plain", "s", "selector"), PayloadOption, Opt("plain", "o", "timeout"),
     Opt("checked", "t", "target") >>
OptionsOfPubThr == << Opt("checked", "p", "priority"), Opt("flag", "", "express") >>
OptionsOfSubThr == << Opt("plain", "s", "samples"), Opt("plain", "n", "number") >>
OptionsOfInfo == << >>

OwnOptions == [
  z_put |-> OptionsOfPut, z_delete |-> OptionsOfDelete, z_pub |-> OptionsOfPub,
  z_sub |-> OptionsOfSub, z_queryable |-> OptionsOfQueryable,
  z_get |-> OptionsOfGet, z_pub_thr |-> OptionsOfPubThr,
  z_sub_thr |-> OptionsOfSubThr, z_info |-> OptionsOfInfo ]

ASSUME ProgramsAssumption == Programs \subseteq DOMAIN OwnOptions

Steps == OwnOptions[program] \o CommonOptions

(* z_pub_thr alone has a positional argument, and requires it.             *)
Positionals == IF program = "z_pub_thr" THEN 1 ELSE 0

-------------------------------------------------------------------------------
(* Arguments.                                                              *)

Arg(dashes, name, more, value) ==
  [dashes |-> dashes, name |-> name, more |-> more, value |-> value]

Word(w)  == Arg(0, w, FALSE, "")
Short(n) == Arg(1, n, FALSE, "")
Long(n)  == Arg(2, n, FALSE, "")

AllOptions ==
  {HelpOption} \cup
  UNION {{s[i] : i \in DOMAIN s} : s \in {OwnOptions[p] : p \in Programs} \cup {CommonOptions}}

NeedsValue(o) == o.kind \notin {"flag", "checked flag"}

Flags == {o.long : o \in {o \in AllOptions : ~NeedsValue(o)}}

(* The last are "--names" and "--flag=word".                               *)
Arguments ==
  {Word(w) : w \in Words}
    \cup {Short(o.short) : o \in {o \in AllOptions : o.long \in Names /\ o.short # ""}}
    \cup {Long(n) : n \in Names}
    \cup [dashes : {2}, name : Names \ Flags, more : {FALSE}, value : Words]
    \cup IF Undescribed
         THEN {Arg(2, n, TRUE, "") : n \in Names}
                \cup [dashes : {2}, name : Flags, more : {FALSE}, value : Words]
         ELSE {}

(* An argument that is given is not NULL.                                  *)
ASSUME NullAssumption == Null \notin Arguments

CommandLines == UNION {[1..n -> Arguments] : n \in 0..MaxArgs}

-------------------------------------------------------------------------------
(* parse_opt.                                                              *)

(* Mutant: the value of an option stays behind.                            *)
EraseFirst(args, erased) ==
  [i \in DOMAIN args |-> IF i \in erased /\ i - 1 \notin erased THEN Null ELSE args[i]]

(* Mutant: the arguments that follow move up.                              *)
EraseMovingUp(args, erased) ==
  [i \in DOMAIN args |->
     IF i < Min(erased) THEN args[i]
     ELSE IF i + Cardinality(erased) \in DOMAIN args THEN args[i + Cardinality(erased)]
     ELSE Null]

Erase(args, erased) ==
  [i \in DOMAIN args |-> IF i \in erased THEN Null ELSE args[i]]

(* strncmp compares a long option over the option's own length.            *)
Matches(arg, opt) ==
  /\ arg # Null
  /\ arg.dashes = opt.dashes /\ arg.name = opt.name

Found(args, found, value) == [args |-> args, found |-> found, value |-> value]

ParseOpt(args, opt, has_value) ==
  LET hits == {i \in DOMAIN args : Matches(args[i], opt)}
      i    == Min(hits)
  IN  IF hits = {} THEN Found(args, "no", Null)
      ELSE IF ~has_value THEN Found(Erase(args, {i}), "yes", Word(opt.name))
      ELSE IF args[i].value # "" THEN Found(Erase(args, {i}), "yes", Word(args[i].value))
      ELSE IF i + 1 \in DOMAIN args /\ args[i + 1] # Null
           THEN Found(Erase(args, {i, i + 1}), "yes", args[i + 1])
      ELSE Found(args, "no value", Null)

(* Mutant: the long form is looked for first.                              *)
ParseArgLongFirst(o, has_value) ==
  LET long == ParseOpt(argv, Long(o.long), has_value)
  IN  IF o.short = "" \/ long.found # "no" THEN long
      ELSE ParseOpt(argv, Short(o.short), has_value)

(* _Z_PARSE_ARG, and without a short form _Z_PARSE_ARG_SINGLE_OPT.         *)
ParseArg(o, has_value) ==
  LET short == ParseOpt(argv, Short(o.short), has_value)
  IN  IF o.short # "" /\ short.found # "no" THEN short
      ELSE ParseOpt(argv, Long(o.long), has_value)

-------------------------------------------------------------------------------
(* The parsing.                                                            *)

EmptyBuf == [length |-> 0, size |-> 1, json |-> FALSE]

OptionNames == {o.long : o \in AllOptions} \cup {"positional"}

Init ==
  /\ program \in Programs
  /\ given \in CommandLines
  /\ argv = given
  /\ step = 0
  /\ result = [n \in OptionNames |-> << >>]
  /\ buf = EmptyBuf
  /\ outcome = "parsing"

Parsing == outcome = "parsing" /\ UNCHANGED <<program, given>>

At(kinds) == Parsing /\ step \in DOMAIN Steps /\ Steps[step].kind \in kinds

Now == Steps[step]

End(how)  == outcome' = how /\ UNCHANGED <<step, result, buf>>
Record(v) == result' = [result EXCEPT ![Now.long] = Append(@, v)]
Proceed   == step' = step + 1

CheckHelp ==
  /\ Parsing /\ step = 0
  /\ LET r == ParseArg(HelpOption, FALSE) IN
       /\ argv' = r.args
       /\ \/ r.found = "yes" /\ End("help")
          \/ r.found = "no" /\ Proceed /\ UNCHANGED <<result, buf, outcome>>

(* Options with one value, and flags.                                      *)
ParseOne ==
  /\ At({"plain", "checked", "flag", "checked flag"})
  /\ LET r == ParseArg(Now, NeedsValue(Now)) IN
       /\ argv' = r.args
       /\ \/ r.found = "no" /\ Proceed /\ UNCHANGED <<result, buf, outcome>>
          \/ r.found = "yes" /\ Record(r.value) /\ Proceed /\ UNCHANGED <<buf, outcome>>
          \/ r.found = "yes" /\ Now.kind \in {"checked", "checked flag"} /\ End("refused")
          \/ r.found = "no value" /\ End("exit")

(* Mutant: the value is looked for once, not until there is none left.     *)
ParsePairsOnce ==
  /\ At({"pairs"})
  /\ LET r == ParseArg(Now, TRUE) IN
       /\ argv' = r.args
       /\ \/ r.found = "no" /\ Proceed /\ UNCHANGED <<result, buf, outcome>>
          \/ r.found = "yes" /\ Record(r.value) /\ Proceed /\ UNCHANGED <<buf, outcome>>
          \/ r.found = "yes" /\ End("refused")
          \/ r.found = "no value" /\ End("exit")

(* parse_zenoh_json_list_cfg: a value without a colon, or one that the     *)
(* library does not take, is refused.                                      *)
ParsePairs ==
  /\ At({"pairs"})
  /\ LET r == ParseArg(Now, TRUE) IN
       /\ argv' = r.args
       /\ \/ r.found = "no" /\ Proceed /\ UNCHANGED <<result, buf, outcome>>
          \/ r.found = "yes" /\ Record(r.value) /\ UNCHANGED <<step, buf, outcome>>
          \/ r.found = "yes" /\ End("refused")
          \/ r.found = "no value" /\ End("exit")

(* parse_zenoh_json_list_config: a new block for one more quoted value and *)
(* a comma.  In the mutant it has no room for the last nul byte.           *)
GrowTightly(n) == [length |-> buf.length + n + 3, size |-> buf.length + n + 3, json |-> FALSE]

Grow(n) == [length |-> buf.length + n + 3, size |-> buf.length + n + 4, json |-> FALSE]

ListMore ==
  /\ At({"list"}) /\ ~buf.json
  /\ LET r == ParseArg(Now, TRUE) IN
       /\ argv' = r.args
       /\ \/ /\ r.found = "yes" /\ Record(r.value)
             /\ \E n \in Lengths : buf' = Grow(n)
             /\ UNCHANGED <<step, outcome>>
          \/ r.found = "no value" /\ End("exit")

(* Without values there is nothing to insert; else the last comma goes and *)
(* the brackets come, in a block of their own.                             *)
ListClose ==
  /\ At({"list"}) /\ ~buf.json
  /\ ParseArg(Now, TRUE).found = "no"
  /\ IF buf.length = 0
     THEN Proceed /\ UNCHANGED buf
     ELSE /\ LET buflen == buf.length - 1
             IN  buf' = [length |-> buflen + 2, size |-> buflen + 3, json |-> TRUE]
          /\ UNCHANGED step
  /\ UNCHANGED <<argv, result, outcome>>

ListInsert ==
  /\ At({"list"}) /\ buf.json
  /\ \/ Proceed /\ buf' = EmptyBuf /\ UNCHANGED <<result, outcome>>
     \/ End("refused")
  /\ UNCHANGED argv

Left == {i \in DOMAIN argv : argv[i] # Null}

CheckUnknownOpts ==
  /\ Parsing /\ step = Len(Steps) + 1
  /\ IF \E i \in Left : argv[i].dashes > 0
     THEN End("exit")
     ELSE Proceed /\ UNCHANGED <<result, buf, outcome>>
  /\ UNCHANGED argv

(* parse_pos_args has room for one argument; the program then looks at     *)
(* whether there is one.                                                   *)
ParsePosArgs ==
  /\ Parsing /\ step = Len(Steps) + 2
  /\ IF Cardinality(Left) > 1 \/ Cardinality(Left) # Positionals
     THEN End("exit")
     ELSE /\ outcome' = "accepted"
          /\ result' = [result EXCEPT !["positional"] =
                          IF Left = {} THEN << >> ELSE << argv[Min(Left)] >>]
          /\ UNCHANGED <<step, buf>>
  /\ UNCHANGED argv

Next ==
  \/ CheckHelp \/ ParseOne \/ ParsePairs
  \/ ListMore \/ ListClose \/ ListInsert
  \/ CheckUnknownOpts \/ ParsePosArgs

Spec == Init /\ [][Next]_vars

-------------------------------------------------------------------------------
(* The reference: the command line as it is written.                       *)

(* The i-th argument, as parse_opt compares it, is the option called name: *)
(* what it gives as the value, and the arguments that takes.               *)
IsUse(i, name) ==
  \E o \in {Steps[j] : j \in DOMAIN Steps} :
    /\ o.long = name
    /\ \/ Matches(given[i], Long(name))
       \/ o.short # "" /\ Matches(given[i], Short(o.short))

ValueAt(i, name) ==
  IF name \in Flags THEN Word(name)
  ELSE IF given[i].value # "" THEN Word(given[i].value) ELSE given[i + 1]

PlacesAt(i, name) ==
  IF name \in Flags \/ given[i].value # "" THEN {i} ELSE {i, i + 1}

(* An option's short forms are taken before its long ones.                 *)
Before(i, j) ==
  \/ given[i].dashes < given[j].dashes
  \/ given[i].dashes = given[j].dashes /\ i < j

(* The uses an argument may be: of the option that it names in full, and   *)
(* without a value if that is a flag.                                      *)
Uses ==
  {u \in (DOMAIN given) \X OptionNames :
     /\ IsUse(u[1], u[2]) /\ ~given[u[1]].more
     /\ u[2] \in Flags => given[u[1]].value = ""}

Others(uses) == DOMAIN given \ UNION {PlacesAt(u[1], u[2]) : u \in uses}

(* A reading divides the line into uses and words.  There is at most one,  *)
(* which a reader finds from left to right.                                *)
Readings ==
  {uses \in SUBSET Uses :
     /\ \A u \in uses : PlacesAt(u[1], u[2]) \subseteq DOMAIN given
     /\ \A u, v \in uses :
          u # v => PlacesAt(u[1], u[2]) \cap PlacesAt(v[1], v[2]) = {}
     /\ \A i \in Others(uses) : given[i].dashes = 0}

Repeatable == {"connect", "listen", "cfg"}

(* The help texts describe the line: no option but the lists is repeated,  *)
(* and there are as many words as the program takes.                       *)
Described(uses) ==
  /\ \A u, v \in uses : u # v /\ u[2] = v[2] => u[2] \in Repeatable
  /\ Cardinality(Others(uses)) = Positionals

(* No value looks like an option.                                          *)
PlainValues(uses) == \A u \in uses : ValueAt(u[1], u[2]).dashes = 0

(* The values of an option's uses, in their order.                         *)
ValuesRead(uses, name, values) ==
  \E f \in [DOMAIN values -> DOMAIN given] :
    /\ {f[k] : k \in DOMAIN values} = {i \in DOMAIN given : <<i, name>> \in uses}
    /\ \A k \in DOMAIN values : values[k] = ValueAt(f[k], name)
    /\ \A k, l \in DOMAIN values : k < l => Before(f[k], f[l])

-------------------------------------------------------------------------------
(* Correctness.                                                            *)

(* Every variable has its type; an argument is erased or as it was given.  *)
TypeOK ==
  /\ program \in Programs
  /\ argv \in [DOMAIN given -> Arguments \cup {Null}]
  /\ \A i \in DOMAIN given : argv[i] \in {given[i], Null}
  /\ step \in 0..(Len(Steps) + 2)
  /\ outcome \in {"parsing", "help", "exit", "refused", "accepted"}
  /\ DOMAIN result = OptionNames
  /\ buf \in [length : Nat, size : Nat, json : BOOLEAN]

(* What a program goes on with is what its command line says, read from    *)
(* left to right: no argument is ignored, taken twice, or given to another *)
(* option, although each option is looked for over the whole line and the  *)
(* order of the calls decides who comes first.                             *)
ReadAsWritten ==
  outcome = "accepted" =>
    \E uses \in Readings :
      /\ Described(uses)
      /\ \A name \in OptionNames \ {"positional"} : ValuesRead(uses, name, result[name])
      /\ Len(result["positional"]) = Positionals
      /\ \A i \in Others(uses) : result["positional"] = << given[i] >>

(* The values recorded: for each option the first, the second, ...         *)
Recorded ==
  UNION {{name} \X DOMAIN result[name] : name \in OptionNames \ {"positional"}}

(* By the arguments "from", each value was given for its option, and none  *)
(* of them gave two; what is erased is what gave a value.  The values of   *)
(* an option come in the order of the line, short forms first.             *)
AccountedBy(from) ==
  /\ {i \in DOMAIN given : argv[i] = Null} = UNION {PlacesAt(from[r], r[1]) : r \in Recorded}
  /\ \A r, q \in Recorded :
       r # q => PlacesAt(from[r], r[1]) \cap PlacesAt(from[q], q[1]) = {}
  /\ \A r \in Recorded :
       IsUse(from[r], r[1]) /\ result[r[1]][r[2]] = ValueAt(from[r], r[1])
  /\ \A r, q \in Recorded :
       r[1] = q[1] /\ r[2] < q[2] => Before(from[r], from[q])

(* Whatever the order of the options and of the calls that look for them,  *)
(* parse_opt's erasing keeps an account: each value a program goes on with *)
(* was given for its option, in its turn and by arguments of its own, and  *)
(* nothing is left in the end but the positional argument.                 *)
ArgumentsAccounted ==
  /\ outcome \in {"parsing", "accepted"} =>
       \E from \in [Recorded -> DOMAIN given] : AccountedBy(from)
  /\ outcome = "accepted" =>
       \A i \in Left : given[i].dashes = 0 /\ result["positional"] = << given[i] >>

(* No command line that the help texts describe is turned down.            *)
DescribedAccepted ==
  outcome = "exit" => \A uses \in Readings : ~(Described(uses) /\ PlainValues(uses))

(* The text of a list and its nul byte fit into the block that was sized   *)
(* by hand for them.                                                       *)
BufferFits == buf.length + 1 <= buf.size

===============================================================================
