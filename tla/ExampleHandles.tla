---------------------------- MODULE ExampleHandles ----------------------------
(***************************************************************************)
(* What the examples and tests own.  Every main, handler and test is       *)
(* a sequence of calls, each of which borrows some handles, consumes some  *)
(* and gives some, and may fail, with early returns, branches and loops.   *)
(* The program text is data here, one definition per C function, and one   *)
(* interpreter runs it against every combination of failures.              *)
(*                                                                         *)
(* A handle is anything that must be given back: an opaque pointer, a      *)
(* by-value payload, a string or array to z_free, a malloc'd block.        *)
(***************************************************************************)
EXTENDS Integers, Sequences

Optional == {"attachment", "text", "query payload"}   \* made only if asked for

Handles == Optional \cup
  {"config", "mode buffer", "buf", "newbuf", "json_list", "pos_args", "session",
   "peer session", "keyexpr", "other keyexpr", "entity", "peer entity", "payload",
   "clone", "block", "signal", "string", "bytes", "array", "unused buffer"}

VARIABLES
  program,     \* the C function that runs
  options,     \* which of the optional handles it was asked to make
  at,          \* the statement it is at
  ended,       \* whether and how it has ended: exit and a failed assert exit
  handle       \* what each of its variables holds

vars == <<program, options, at, ended, handle>>

-------------------------------------------------------------------------------
(* Statements.                                                             *)

Stmt(op, uses, takes, gives) ==
  [op |-> op, uses |-> uses, takes |-> takes, gives |-> gives]

Call(uses, takes, gives) == Stmt("call", uses, takes, gives)
Try(uses, takes, gives)  == Stmt("try", uses, takes, gives)   \* may give NULL
Make(h)                  == Call({}, {}, {h})
Free(h)                  == Call({}, {h}, {})
Use(h)                   == Call({h}, {}, {})
OrReturn(h, drops)       == Stmt("or return", {h}, drops, {}) \* if (!h) ...
OrExit(h)                == Stmt("or exit", {h}, {}, {})      \* exit, assert
MayExit                  == Stmt("may exit", {}, {}, {})
MayExitFreeing(h)        == Stmt("may exit", {}, {h}, {})     \* free(h); exit
Jump(distances)          == Stmt("jump", distances, {}, {})
Back(n)                  == Jump({-n})                        \* end of a loop
Unless(n)                == Jump({1, n})                      \* if, while, else

-------------------------------------------------------------------------------
(* The API calls several programs make, with what the header's prototype   *)
(* and its users say of the arguments.                                     *)

Open == Try({}, {"config"}, {"session"})

KeyExpr == Try({}, {}, {"keyexpr"})

(* The publisher, subscriber or queryable; consumes the key expression,    *)
(* also when it fails.                                                     *)
Declare == Try({"session"}, {"keyexpr"}, {"entity"})

(* z_config_insert_json5 with the text in some blocks.  Its config pointer *)
(* is not const, which is README.md's mark of a consumed z_keyexpr_t; but  *)
(* the callers go on to use the config, which after all their calls is     *)
(* still owned (parse_args.h:221-222), and so it is lent here.             *)
InsertJson5(blocks) == Call({"config"} \cup blocks, {}, {})

SessionPut == Call({"session", "keyexpr"}, {"payload"}, {})

PublisherPut == Call({"entity"}, {"payload", "attachment"}, {})

-------------------------------------------------------------------------------
(* The command line.  What a process holds when it exits is not counted,   *)
(* so that the exits for an option without its value are left out.         *)

(* -m: the mode in quotes.                                                 *)
ParseMode ==
  << Unless(5), Make("mode buffer"), InsertJson5({"mode buffer"}),
     MayExitFreeing("mode buffer"), Free("mode buffer") >>

(* Mutant: the list that a longer one replaces is not freed.               *)
ParseJsonListLeaking ==
  << Make("buf"), Unless(4),
     Call({"buf"}, {}, {"newbuf"}), Call({}, {"newbuf"}, {"buf"}), Back(3),
     Unless(5), Call({"buf"}, {}, {"json_list"}), InsertJson5({"json_list"}),
     MayExitFreeing("json_list"), Free("json_list"), Free("buf") >>

(* parse_zenoh_json_list_config, for -e and for -l: each value makes the   *)
(* list anew.                                                              *)
ParseJsonListConfig ==
  << Make("buf"), Unless(5),
     Call({"buf"}, {}, {"newbuf"}), Free("buf"), Call({}, {"newbuf"}, {"buf"}), Back(4),
     Unless(5), Call({"buf"}, {}, {"json_list"}), InsertJson5({"json_list"}),
     MayExitFreeing("json_list"), Free("json_list"), Free("buf") >>

(* The buffer of parse_zenoh_json_list_cfg is neither used nor freed.      *)
ParseJsonListCfg ==
  << Make("unused buffer"), Unless(5), MayExit, InsertJson5({}), MayExit, Back(4) >>

ParseCommonArgs ==
  << Jump({1, 4}), Try({}, {}, {"config"}), OrExit("config"), Jump({2}),
     Make("config") >>
  \o ParseMode \o ParseJsonListConfig \o ParseJsonListConfig \o ParseJsonListCfg
  \o << Unless(3), InsertJson5({}), MayExit >>

(* How a program's parse_args ends: no option may be left, and no more     *)
(* positional arguments than there is room for (none is returned then) or  *)
(* than the program takes.                                                 *)
ParsePosArgs ==
  << MayExit, Make("pos_args"), Unless(2), Free("pos_args"), OrExit("pos_args"),
     MayExitFreeing("pos_args"), Free("pos_args") >>

ParseArgs == ParseCommonArgs \o ParsePosArgs

(* How the mains of z_put, z_delete, z_pub, z_sub, z_queryable and z_get   *)
(* begin.                                                                  *)
OpenAndKeyExpr ==
  ParseArgs \o
  << Open, OrReturn("session", {}), KeyExpr, OrReturn("keyexpr", {"session"}) >>

-------------------------------------------------------------------------------
(* The mains of the examples.                                              *)

(* Mutant of z_put: the key expression is taken for consumed.              *)
MainPutLeaking ==
  OpenAndKeyExpr \o << Make("payload"), SessionPut, Free("session") >>

MainPut ==
  OpenAndKeyExpr \o
  << Make("payload"), SessionPut, Free("keyexpr"), Free("session") >>

MainDelete ==
  OpenAndKeyExpr \o
  << Call({"session", "keyexpr"}, {}, {}), Free("keyexpr"), Free("session") >>

MainPub ==
  OpenAndKeyExpr \o
  << Declare, OrReturn("entity", {"session"}),
     Make("payload"), Make("attachment"), PublisherPut, Back(3) >>

MainSub ==
  OpenAndKeyExpr \o
  << Declare, OrReturn("entity", {"session"}), Use("entity"), Back(1) >>

MainQueryable ==
  OpenAndKeyExpr \o
  << Declare, OrReturn("entity", {"session"}), Use("entity"), Back(1) >>

MainGet ==
  OpenAndKeyExpr \o
  << Make("query payload"), Make("signal"),
     Call({"session", "keyexpr", "signal"}, {"query payload"}, {}),
     Free("keyexpr"), Free("signal"), Free("session") >>

(* Mutant of z_pub_thr: the master payload is put without being cloned.    *)
MainPubThrUncloned ==
  ParseArgs \o
  << Make("block"), Open, OrReturn("session", {"block"}), Make("keyexpr"),
     Declare, OrReturn("entity", {"session", "block"}),
     Make("payload"), Call({"entity"}, {"payload"}, {}), Back(1) >>

(* The key expression "test/thr" is valid, so that its NULL check, which   *)
(* z_pub_thr and z_sub_thr leave out, has nothing to catch.                *)
MainPubThr ==
  ParseArgs \o
  << Make("block"), Open, OrReturn("session", {"block"}), Make("keyexpr"),
     Declare, OrReturn("entity", {"session", "block"}),
     Make("payload"),
     Call({"payload"}, {}, {"clone"}), Call({"entity"}, {"clone"}, {}), Back(2) >>

(* The statistics block goes to the closure, whose drop frees it.          *)
MainSubThr ==
  ParseArgs \o
  << Open, OrReturn("session", {}), Make("keyexpr"), Make("block"),
     Try({"session"}, {"keyexpr", "block"}, {"entity"}),
     OrReturn("entity", {"session"}), Use("entity"), Back(1) >>

(* z_scout drops the config, which it lent, before it looks at the result. *)
MainScout ==
  << Make("config"), Try({"config"}, {}, {"entity"}), Free("config"),
     OrReturn("entity", {}), Free("entity") >>

PrintZidArray == << Make("string"), Free("string"), Free("array") >>

MainInfo ==
  ParseArgs \o
  << Open, OrReturn("session", {}), Make("string"), Free("string"),
     Call({"session"}, {}, {"array"}) >> \o PrintZidArray \o
  << Call({"session"}, {}, {"array"}) >> \o PrintZidArray \o
  << Free("session") >>

-------------------------------------------------------------------------------
(* The handlers: what they make on the way.  Their argument is the         *)
(* trampoline's.                                                           *)

SampleHandler ==
  << Make("string"), Make("bytes"), Make("text"), Free("text"),
     Free("string"), Free("bytes") >>

(* An error reply has nothing to print.                                    *)
ReplyHandler ==
  << Try({}, {}, {"string"}), OrReturn("string", {}), Make("bytes"),
     Free("string"), Free("bytes") >>

QueryHandler ==
  << Make("string"), Make("array"), Make("text"), Free("text"),
     Make("payload"), Call({"string"}, {"payload"}, {}),
     Free("string"), Free("array") >>

HelloHandler ==
  << Make("string"), Make("array"), Free("array"), Free("string") >>

-------------------------------------------------------------------------------
(* The tests.                                                              *)

TestOpenDrop ==
  << Make("config"), OrExit("config"), Open, OrExit("session"), Free("session") >>

TestCreate ==
  << KeyExpr, OrExit("keyexpr"), Free("keyexpr") >>

TestToString ==
  << KeyExpr, OrExit("keyexpr"), Make("string"), Free("string"), Free("keyexpr") >>

TestRelations ==
  << KeyExpr, Try({}, {}, {"other keyexpr"}), OrExit("keyexpr"),
     OrExit("other keyexpr"), Call({"keyexpr", "other keyexpr"}, {}, {}),
     Free("keyexpr"), Free("other keyexpr") >>

TestConcatJoin ==
  << Make("keyexpr"), Try({"keyexpr"}, {}, {"other keyexpr"}),
     OrExit("other keyexpr"), Make("string"), Free("string"),
     Free("other keyexpr"), Free("keyexpr") >>

(* z_leak_pub_sub_test: the publisher has a session of its own.            *)
TestLeakPubSub ==
  << Make("config"), Try({}, {"config"}, {"peer session"}), Make("config"), Open,
     OrExit("peer session"), OrExit("session"),
     Make("keyexpr"), Declare, OrExit("entity"),
     Make("other keyexpr"),
     Try({"peer session"}, {"other keyexpr"}, {"peer entity"}),
     OrExit("peer entity"),
     Make("payload"), Call({"peer entity"}, {"payload"}, {}), MayExit,
     Make("payload"), Call({"peer entity"}, {"payload"}, {}), MayExit,
     Free("peer entity"), Free("entity"), Free("peer session"), Free("session") >>

Programs == [
  z_put |-> MainPut, z_delete |-> MainDelete, z_pub |-> MainPub,
  z_sub |-> MainSub, z_queryable |-> MainQueryable, z_get |-> MainGet,
  z_pub_thr |-> MainPubThr, z_sub_thr |-> MainSubThr, z_scout |-> MainScout,
  z_info |-> MainInfo,
  data_handler |-> SampleHandler, reply_handler |-> ReplyHandler,
  query_handler |-> QueryHandler, hello_handler |-> HelloHandler,
  test_open_drop |-> TestOpenDrop, test_create |-> TestCreate,
  test_to_string |-> TestToString, test_relations |-> TestRelations,
  test_concat_join |-> TestConcatJoin, z_leak_pub_sub_test |-> TestLeakPubSub ]

-------------------------------------------------------------------------------
(* The interpreter.                                                        *)

Running == ended = "no" /\ at <= Len(Programs[program])

Now == Programs[program][at]

(* The optional handles that were not asked for are NULL and stay so.      *)
Asked(hs) == hs \ (Optional \ options)

(* What the variables hold once some were given back and some were set.    *)
After(takes, gives, value) ==
  [h \in Handles |-> IF h \in Asked(gives) THEN value
                    ELSE IF h \in Asked(takes) THEN "gone" ELSE handle[h]]

Init ==
  /\ program \in DOMAIN Programs
  /\ options \in SUBSET Optional
  /\ at = 1 /\ ended = "no"
  /\ handle = [h \in Handles |-> "none"]

(* A call that can fail then gives NULL, and has consumed what it consumes.*)
DoCall ==
  /\ Running /\ Now.op \in {"call", "try"}
  /\ \/ handle' = After(Now.takes, Now.gives, "held")
     \/ Now.op = "try" /\ handle' = After(Now.takes, Now.gives, "none")
  /\ at' = at + 1
  /\ UNCHANGED <<program, options, ended>>

NullCheck ==
  /\ Running /\ Now.op \in {"or return", "or exit"}
  /\ IF \A h \in Now.uses : handle[h] = "held"
     THEN at' = at + 1 /\ UNCHANGED <<ended, handle>>
     ELSE /\ ended' = IF Now.op = "or return" THEN "returned" ELSE "exited"
          /\ handle' = After(Now.takes, {}, "none")
          /\ UNCHANGED at
  /\ UNCHANGED <<program, options>>

ExitMaybe ==
  /\ Running /\ Now.op = "may exit"
  /\ \/ at' = at + 1 /\ UNCHANGED <<ended, handle>>
     \/ ended' = "exited" /\ handle' = After(Now.takes, {}, "none") /\ UNCHANGED at
  /\ UNCHANGED <<program, options>>

JumpSomewhere ==
  /\ Running /\ Now.op = "jump"
  /\ \E distance \in Now.uses : at' = at + distance
  /\ UNCHANGED <<program, options, ended, handle>>

Return ==
  /\ ended = "no" /\ at > Len(Programs[program])
  /\ ended' = "returned"
  /\ UNCHANGED <<program, options, at, handle>>

Next == DoCall \/ NullCheck \/ ExitMaybe \/ JumpSomewhere \/ Return

Spec == Init /\ [][Next]_vars

-------------------------------------------------------------------------------
(* Correctness.                                                            *)

(* No call is ever made with a handle that is NULL, consumed or dropped    *)
(* already, whatever failed before it; no early return or exit drops one   *)
(* either.  The header's prototypes say what is consumed, except of        *)
(* InsertJson5.                                                            *)
LiveArguments ==
  Running =>
    \/ Now.op = "jump"
    \/ Now.op \in {"call", "try"}
       /\ \A h \in Asked(Now.uses \cup Now.takes) : handle[h] = "held"
    \/ Now.op \notin {"call", "try", "jump"}
       /\ \A h \in Now.takes : handle[h] = "held"

(* No variable is assigned while it still holds something, not even the    *)
(* list that grows with each endpoint of the command line.                 *)
NothingOverwritten ==
  Running /\ Now.op \in {"call", "try"} =>
    \A h \in Asked(Now.gives) : handle[h] # "held"

(* A function that returns, early or not, has given back every handle and  *)
(* every block, those of the command line too, but for the one byte of the *)
(* unused buffer, which every main with a command line leaks.              *)
NothingLeft ==
  ended = "returned" => \A h \in Handles \ {"unused buffer"} : handle[h] # "held"

===============================================================================
