----------------------------- MODULE BuildPipeline -----------------------------
(***************************************************************************)
(* build.rs, CMakeLists.txt and the C programs' calls: how the generated   *)
(* header, the feature header and the library come to agree on the C API,  *)
(* and the programs compiled against them with it.                         *)
(*                                                                         *)
(* What the three can disagree on is the mode: with the feature unstable   *)
(* some functions take one argument more.  They lie in the source tree,    *)
(* under names that do not tell the mode (CMakeLists.txt:66-68), and so    *)
(* are shared by build trees (.gitignore expects several): the library by  *)
(* those of one profile, the headers by all.  A step of generation that    *)
(* fails may only warn and leave the old file.                             *)
(*                                                                         *)
(* cargo is modelled from what CMakeLists.txt relies on: one cargo at a    *)
(* time works in target/<profile>, and build.rs, which names no files to   *)
(* be run again for, is run again at least when the features are not those *)
(* of its last run, when that run was cut short, and when the other        *)
(* profile has written to the package since.  (Its own writes are a reason *)
(* too; that is not needed.)                                               *)
(***************************************************************************)

CONSTANTS
  Trees,       \* build trees: directories cmake was run in
  Programs     \* examples and tests that each tree builds

Mode == {"stable", "unstable"}

(* CMAKE_BUILD_TYPE, as far as cargo is told of it.                        *)
Profile == {"debug", "release"}

(* The programs with #if defined(ZENOH_FLAT_UNSTABLE_API) around a call.   *)
Guarded == {"z_pub_thr", "z_leak_pub_sub_test"}

VARIABLES
  option,      \* each tree's ZENOHFLATC_BUILD_WITH_UNSTABLE_API
  profile,     \* each tree's CMAKE_BUILD_TYPE
  pc,          \* where each tree's build is
  binary,      \* the mode its build has compiled each program for, if yet
  disturbed,   \* whether another cargo has run since the tree's own began
  header,      \* the mode of include/zenoh_flat.h
  config,      \* the mode of include/zenoh_flat_configure.h
  lib,         \* the mode of target/<profile>/libzenoh_flat_c
  script,      \* the mode of build.rs's last run on record, by profile
  warned,      \* whether that run failed to write a header
  touched,     \* whether the other profile has written one since it began
  linked       \* whether the library has been compiled since that run

settings == <<option, profile>>
files == <<header, config, lib>>
cargo == <<script, warned, touched, linked>>
vars == <<settings, pc, binary, disturbed, files, cargo>>

(* A checkout: the headers that are in the repository, nothing built.      *)
Init ==
  /\ option \in [Trees -> Mode] /\ profile \in [Trees -> Profile]
  /\ pc = [t \in Trees |-> "rest"]
  /\ binary = [t \in Trees |-> [p \in Programs |-> "none"]]
  /\ disturbed = [t \in Trees |-> FALSE]
  /\ header = "stable" /\ config = "stable"
  /\ lib = [f \in Profile |-> "none"] /\ script = lib
  /\ warned = [f \in Profile |-> FALSE] /\ touched = warned /\ linked = warned

-------------------------------------------------------------------------------
Goto(t, from, to) == pc[t] = from /\ pc' = [pc EXCEPT ![t] = to]

(* cargo's lock on target/<profile> is held from a cargo's start to its end.*)
InCargo(t) == pc[t] \in {"bindings", "header", "configure", "link"}

Record(var, t, value) == var' = [var EXCEPT ![profile[t]] = value]

(* cmake with another ZENOHFLATC_BUILD_WITH_UNSTABLE_API or build type.    *)
Reconfigure(t) ==
  /\ pc[t] \in {"rest", "built"} /\ pc' = [pc EXCEPT ![t] = "rest"]
  /\ \E m \in Mode, f \in Profile :
       option' = [option EXCEPT ![t] = m] /\ profile' = [profile EXCEPT ![t] = f]
  /\ UNCHANGED <<binary, disturbed, files, cargo>>

(* Mutant: build.rs once run is not run again, as with an OUTPUT rule.     *)
MustGenerateOnce(t) == script[profile[t]] = "none"

(* Mutant: the headers are forgotten, which the other profile writes too.  *)
MustGenerateForMode(t) == script[profile[t]] # option[t]

(* Other features than those on record, or headers.                        *)
MustGenerate(t) == script[profile[t]] # option[t] \/ touched[profile[t]]

(* cmake --build: the cargo target is always out of date, and with it all  *)
(* programs.  Where build.rs need not be run, cargo may still find that it *)
(* has to.  A cargo of the other profile may be running.                   *)
Build(t) ==
  /\ pc[t] \in {"rest", "built"}
  /\ \A u \in Trees : InCargo(u) => profile[u] # profile[t]
  /\ \E at \in {"bindings"} \cup (IF MustGenerate(t) THEN {} ELSE {"link"}) :
       pc' = [pc EXCEPT ![t] = at]
  /\ disturbed' = [u \in Trees |-> u # t \/ \E v \in Trees \ {t} : InCargo(v)]
  /\ binary' = [binary EXCEPT ![t] = [p \in Programs |-> "none"]]
  /\ UNCHANGED <<settings, files, cargo>>

(* generate_flat_bindings: each step that fails panics, and that is the    *)
(* end of this build.  Until build.rs has ended, cargo has no run of it on *)
(* record.                                                                 *)
Bindings(t) ==
  /\ \/ Goto(t, "bindings", "header")
     \/ Goto(t, "bindings", "rest")
  /\ Record(script, t, "none") /\ Record(touched, t, FALSE)
  /\ Record(linked, t, FALSE)
  /\ UNCHANGED <<settings, binary, disturbed, files, warned>>

(* The write shows in the package's files, to cargo in the other profile.  *)
Touch(t) == touched' = [f \in Profile |-> f # profile[t] \/ touched[f]]

(* generate_c_headers: a header that cannot be generated or copied to      *)
(* include/ is a warning.                                                  *)
Header(t) ==
  /\ Goto(t, "header", "configure")
  /\ \/ header' = option[t] /\ Record(warned, t, FALSE) /\ Touch(t)
     \/ Record(warned, t, TRUE) /\ UNCHANGED <<header, touched>>
  /\ UNCHANGED <<settings, binary, disturbed, config, lib, script, linked>>

(* generate_configure_header: so is a feature header that cannot be        *)
(* written; the file is as it was, or cut short and without its macros.    *)
(* build.rs has ended and its run is on record, warnings or not.           *)
Configure(t) ==
  /\ Goto(t, "configure", "link")
  /\ \/ config' = option[t] /\ Touch(t) /\ UNCHANGED warned
     \/ config' = "stable" /\ Touch(t) /\ Record(warned, t, TRUE)
     \/ UNCHANGED <<config, touched>> /\ Record(warned, t, TRUE)
  /\ Record(script, t, option[t])
  /\ UNCHANGED <<settings, binary, disturbed, header, lib, linked>>

(* Mutant: programs are not made to wait for cargo's success.              *)
LinkRegardless(t) ==
  /\ Goto(t, "link", "compile")
  /\ \/ Record(lib, t, option[t]) /\ Record(linked, t, TRUE)
     \/ UNCHANGED <<lib, linked>>
  /\ UNCHANGED <<settings, binary, disturbed, header, config, script, warned, touched>>

(* The generated Rust is compiled, or refused; then the C programs.        *)
Link(t) ==
  /\ \/ /\ Goto(t, "link", "compile")
        /\ Record(lib, t, option[t]) /\ Record(linked, t, TRUE)
     \/ Goto(t, "link", "rest") /\ UNCHANGED <<lib, linked>>
  /\ UNCHANGED <<settings, binary, disturbed, header, config, script, warned, touched>>

(* A program passes the argument more if it is guarded and the macro is    *)
(* defined, and compiles if the prototype in zenoh_flat.h asks for that.   *)
Passes(p) == IF p \in Guarded THEN config ELSE "stable"
Compiles(p) == Passes(p) = header

ToDo(t) == {p \in Programs : binary[t][p] = "none"}

(* Mutant: the build is taken to be done with the first program.           *)
CompileOkFirst(t, p) ==
  /\ Goto(t, "compile", "built") /\ p \in ToDo(t) /\ Compiles(p)
  /\ binary' = [binary EXCEPT ![t][p] = header]
  /\ UNCHANGED <<settings, disturbed, files, cargo>>

CompileOk(t, p) ==
  /\ pc[t] = "compile" /\ p \in ToDo(t) /\ Compiles(p)
  /\ binary' = [binary EXCEPT ![t][p] = header]
  /\ pc' = IF ToDo(t) = {p} THEN [pc EXCEPT ![t] = "built"] ELSE pc
  /\ UNCHANGED <<settings, disturbed, files, cargo>>

(* A program that does not compile ends the build; the others stay.        *)
CompileFails(t, p) ==
  /\ Goto(t, "compile", "rest") /\ p \in ToDo(t) /\ ~Compiles(p)
  /\ UNCHANGED <<settings, binary, disturbed, files, cargo>>

(* Whoever builds may break off between any two steps.                     *)
Interrupt(t) ==
  /\ pc[t] \notin {"rest", "built"} /\ pc' = [pc EXCEPT ![t] = "rest"]
  /\ UNCHANGED <<settings, binary, disturbed, files, cargo>>

Next == \E t \in Trees :
  \/ Reconfigure(t) \/ Build(t) \/ Interrupt(t)
  \/ Bindings(t) \/ Header(t) \/ Configure(t) \/ Link(t)
  \/ \E p \in Programs : CompileOk(t, p) \/ CompileFails(t, p)

Spec == Init /\ [][Next]_vars

-------------------------------------------------------------------------------
(* Correctness.                                                            *)

(* Every variable has its type; a tree is built when all programs are.     *)
TypeOK ==
  /\ option \in [Trees -> Mode] /\ profile \in [Trees -> Profile]
  /\ pc \in [Trees -> {"rest", "bindings", "header", "configure", "link",
                       "compile", "built"}]
  /\ binary \in [Trees -> [Programs -> Mode \cup {"none"}]]
  /\ \A t \in Trees, p \in Programs : pc[t] = "built" => binary[t][p] # "none"
  /\ disturbed \in [Trees -> BOOLEAN]
  /\ header \in Mode /\ config \in Mode
  /\ lib \in [Profile -> Mode \cup {"none"}]
  /\ script \in [Profile -> Mode \cup {"none"}]
  /\ warned \in [Profile -> BOOLEAN] /\ touched \in [Profile -> BOOLEAN]
  /\ linked \in [Profile -> BOOLEAN]

(* build.rs:17-22: the feature header is to tell "the same feature gates   *)
(* the generated ABI was built with".  Once a library has been compiled    *)
(* since build.rs last wrote, and wrote without a warning, the header, the *)
(* feature header and the library are of one mode, whatever builds were    *)
(* cut short or refused on the way, until the other profile writes; and    *)
(* then cargo knows that build.rs must be run again.                       *)
HeadersMatchLibrary ==
  \A f \in Profile : linked[f] /\ ~warned[f] /\ ~touched[f]
    => header = lib[f] /\ config = lib[f]

(* No header was left unwritten and no other cargo has run since, or was   *)
(* running when, the tree's own began.                                     *)
Undisturbed(t) == ~warned[profile[t]] /\ ~disturbed[t]

(* The programs of a tree whose build has gone through undisturbed call    *)
(* the library in the mode it has.                                         *)
ProgramsMatchLibrary ==
  \A t \in Trees : pc[t] = "built" /\ Undisturbed(t)
    => \A p \in Programs : binary[t][p] = lib[profile[t]]

(* The #if around a call keeps a program compiling in both modes.          *)
GuardedCompile ==
  \A t \in Trees : pc[t] = "compile" /\ Undisturbed(t) =>
    \A p \in Programs \cap Guarded : Compiles(p)

(* README.md:105-106: "Examples/tests #if defined(ZENOH_FLAT_UNSTABLE_API) *)
(* to pass the extra reliability argument, so they build under both        *)
(* feature modes".                                                         *)
BuildsInBothModes ==
  \A t \in Trees : pc[t] = "compile" /\ Undisturbed(t) =>
    \A p \in Programs : Compiles(p)

===============================================================================
