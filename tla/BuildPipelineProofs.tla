------------------------- MODULE BuildPipelineProofs -------------------------
(***************************************************************************)
(* What holds of any number of build trees and programs: the headers match *)
(* the library, and an undisturbed tree's programs match both.             *)
(***************************************************************************)
EXTENDS BuildPipeline, TLAPS

(* cargo's lock: in a profile, one tree at a time is between its start and *)
(* its end; and all the others know that they have been disturbed.         *)
OneCargo ==
  \A t, u \in Trees : InCargo(t) /\ t # u =>
    disturbed[u] /\ (profile[u] = profile[t] => ~InCargo(u))

(* What the record of build.rs's last run says of the headers, as long as  *)
(* the other profile has not written them.                                 *)
OnRecord(f) ==
  script[f] # "none" /\ ~warned[f] /\ ~touched[f]
    => header = script[f] /\ config = script[f]

(* While build.rs runs there is no record; cargo compiles what it is of.   *)
Underway(t) == LET f == profile[t] IN
  /\ pc[t] \in {"header", "configure"} => script[f] = "none" /\ ~linked[f]
  /\ pc[t] = "configure" => warned[f] \/ touched[f] \/ header = option[t]
  /\ pc[t] = "link" => script[f] = option[t]

Recorded == (\A f \in Profile : OnRecord(f)) /\ \A t \in Trees : Underway(t)

(* Who goes on undisturbed is the last to have written the headers.        *)
Untouched ==
  \A t \in Trees : pc[t] \notin {"rest", "bindings"} /\ ~disturbed[t]
    => ~touched[profile[t]]

(* A tree that goes on undisturbed has the library it compiled, and the    *)
(* programs it has compiled are of the library's mode.                     *)
Compiled ==
  \A t \in Trees : pc[t] \in {"compile", "built"} /\ Undisturbed(t) =>
    /\ linked[profile[t]]
    /\ \A p \in Programs : binary[t][p] \in {"none", lib[profile[t]]}

(* Nothing is compiled before cargo is done.                               *)
NothingYet ==
  \A t \in Trees, p \in Programs : InCargo(t) => binary[t][p] = "none"

IInv == TypeOK /\ OneCargo /\ Recorded /\ Untouched /\ HeadersMatchLibrary
        /\ NothingYet /\ Compiled

LEMMA InitInvariant == Init => IInv
<1> SUFFICES ASSUME Init PROVE IInv
  OBVIOUS
<1>1. TypeOK
  BY DEF Init, TypeOK, Mode, Profile
<1>2. OneCargo /\ Recorded /\ Untouched /\ Compiled /\ NothingYet
  BY DEF Init, OneCargo, InCargo, Recorded, OnRecord, Underway, Untouched, Compiled, NothingYet
<1>3. HeadersMatchLibrary
  BY DEF Init, HeadersMatchLibrary
<1> QED
  BY <1>1, <1>2, <1>3 DEF IInv

LEMMA TypeStep == TypeOK /\ [Next]_vars => TypeOK'
<1> SUFFICES ASSUME TypeOK, [Next]_vars PROVE TypeOK'
  OBVIOUS
<1> USE DEF TypeOK, Mode, settings, files, cargo, Goto, Record, Touch
<1>1. ASSUME NEW t \in Trees, Reconfigure(t) PROVE TypeOK'
  BY <1>1 DEF Reconfigure
<1>2. ASSUME NEW t \in Trees, Build(t) PROVE TypeOK'
  BY <1>2 DEF Build
<1>3. ASSUME NEW t \in Trees, Interrupt(t) PROVE TypeOK'
  BY <1>3 DEF Interrupt
<1>4. ASSUME NEW t \in Trees, Bindings(t) PROVE TypeOK'
  <2>1. pc' \in [Trees -> {"rest", "bindings", "header", "configure", "link",
                          "compile", "built"}]
        /\ \A u \in Trees : pc'[u] = "built" => pc[u] = "built"
    BY <1>4 DEF Bindings
  <2>2. /\ script' \in [Profile -> Mode \cup {"none"}]
        /\ touched' \in [Profile -> BOOLEAN] /\ linked' \in [Profile -> BOOLEAN]
    BY <1>4 DEF Bindings
  <2> QED
    BY <1>4, <2>1, <2>2 DEF Bindings
<1>5. ASSUME NEW t \in Trees, Header(t) PROVE TypeOK'
  BY <1>5 DEF Header
<1>6. ASSUME NEW t \in Trees, Configure(t) PROVE TypeOK'
  BY <1>6 DEF Configure
<1>7. ASSUME NEW t \in Trees, Link(t) PROVE TypeOK'
  <2>1. pc' \in [Trees -> {"rest", "bindings", "header", "configure", "link",
                          "compile", "built"}]
        /\ \A u \in Trees : pc'[u] = "built" => pc[u] = "built"
    BY <1>7 DEF Link
  <2>2. /\ lib' \in [Profile -> Mode \cup {"none"}]
        /\ linked' \in [Profile -> BOOLEAN]
    BY <1>7 DEF Link
  <2> QED
    BY <1>7, <2>1, <2>2 DEF Link
<1>8. ASSUME NEW t \in Trees, NEW p \in Programs, CompileOk(t, p) PROVE TypeOK'
  BY <1>8 DEF CompileOk, ToDo
<1>9. ASSUME NEW t \in Trees, NEW p \in Programs, CompileFails(t, p) PROVE TypeOK'
  BY <1>9 DEF CompileFails
<1>10. CASE UNCHANGED vars
  BY <1>10 DEF vars
<1> QED
  BY <1>1, <1>2, <1>3, <1>4, <1>5, <1>6, <1>7, <1>8, <1>9, <1>10 DEF Next

LEMMA StepInvariant == IInv /\ [Next]_vars => IInv'
<1> SUFFICES ASSUME IInv, [Next]_vars PROVE IInv'
  OBVIOUS
<1>0. TypeOK'
  BY TypeStep DEF IInv
<1> DEFINE Rest == OneCargo /\ Recorded /\ Untouched /\ HeadersMatchLibrary
                   /\ NothingYet /\ Compiled
<1> USE DEF settings, files, cargo, Goto, IInv, Record, Touch
<1>1. ASSUME NEW t \in Trees, Reconfigure(t) PROVE Rest'
  <2>1. OneCargo'
    BY <1>1 DEF Reconfigure, TypeOK, OneCargo, InCargo
  <2>2. Recorded'
    BY <1>1 DEF Reconfigure, TypeOK, Recorded, OnRecord, Underway, OneCargo, InCargo
  <2>3. Untouched'
    BY <1>1 DEF Reconfigure, TypeOK, Untouched, OneCargo, InCargo
  <2>4. HeadersMatchLibrary'
    BY <1>1 DEF Reconfigure, TypeOK, HeadersMatchLibrary, Recorded, OnRecord, Underway
  <2>5. NothingYet'
    BY <1>1 DEF Reconfigure, TypeOK, NothingYet, InCargo
  <2>6. Compiled'
    BY <1>1 DEF Reconfigure, TypeOK, Compiled, Undisturbed, OneCargo, InCargo
  <2> QED
    BY <2>1, <2>2, <2>3, <2>4, <2>5, <2>6
<1>2. ASSUME NEW t \in Trees, Build(t) PROVE Rest'
  <2>0. /\ \A u \in Trees \ {t} : disturbed'[u] /\ pc'[u] = pc[u]
        /\ \A u \in Trees \ {t} : InCargo(u) => disturbed'[t] /\ profile[u] # profile[t]
        /\ \/ pc'[t] = "bindings"
           \/ pc'[t] = "link" /\ script[profile[t]] = option[t]
                             /\ ~touched[profile[t]]
    <3>1. \/ pc' = [pc EXCEPT ![t] = "bindings"]
          \/ pc' = [pc EXCEPT ![t] = "link"] /\ script[profile[t]] = option[t]
                                           /\ ~touched[profile[t]]
      BY <1>2, Zenon DEF Build, MustGenerate
    <3>2. \A u \in Trees : disturbed'[u] <=> u # t \/ \E v \in Trees \ {t} : InCargo(v)
      BY <1>2, Zenon DEF Build
    <3>3. \A u \in Trees : InCargo(u) => profile[u] # profile[t]
      BY <1>2, Zenon DEF Build
    <3> QED
      BY <3>1, <3>2, <3>3 DEF TypeOK
  <2>1. OneCargo'
    BY <1>2, <2>0 DEF Build, OneCargo, InCargo
  <2>2. Recorded'
    BY <1>2, <2>0 DEF Build, TypeOK, Recorded, OnRecord, Underway
  <2>3. Untouched'
    BY <1>2, <2>0 DEF Build, Untouched
  <2>4. HeadersMatchLibrary'
    BY <1>2 DEF Build, TypeOK, HeadersMatchLibrary, Recorded, OnRecord, Underway
  <2>5. NothingYet'
    BY <1>2 DEF Build, TypeOK, NothingYet, InCargo
  <2>6. Compiled'
    BY <1>2 DEF Build, TypeOK, Compiled, Undisturbed, OneCargo, InCargo
  <2> QED
    BY <2>1, <2>2, <2>3, <2>4, <2>5, <2>6
<1>3. ASSUME NEW t \in Trees, Interrupt(t) PROVE Rest'
  <2>1. OneCargo'
    BY <1>3 DEF Interrupt, TypeOK, OneCargo, InCargo
  <2>2. Recorded'
    BY <1>3 DEF Interrupt, TypeOK, Recorded, OnRecord, Underway, OneCargo, InCargo
  <2>3. Untouched'
    BY <1>3 DEF Interrupt, TypeOK, Untouched, OneCargo, InCargo
  <2>4. HeadersMatchLibrary'
    BY <1>3 DEF Interrupt, TypeOK, HeadersMatchLibrary, Recorded, OnRecord, Underway
  <2>5. NothingYet'
    BY <1>3 DEF Interrupt, TypeOK, NothingYet, InCargo
  <2>6. Compiled'
    BY <1>3 DEF Interrupt, TypeOK, Compiled, Undisturbed, OneCargo, InCargo
  <2> QED
    BY <2>1, <2>2, <2>3, <2>4, <2>5, <2>6
<1>4. ASSUME NEW t \in Trees, Bindings(t) PROVE Rest'
  <2>1. OneCargo'
    BY <1>4 DEF Bindings, TypeOK, OneCargo, InCargo
  <2>2. Recorded'
    BY <1>4 DEF Bindings, TypeOK, Recorded, OnRecord, Underway, OneCargo, InCargo
  <2>3. Untouched'
    BY <1>4 DEF Bindings, TypeOK, Untouched, OneCargo, InCargo
  <2>4. HeadersMatchLibrary'
    BY <1>4 DEF Bindings, TypeOK, HeadersMatchLibrary, Recorded, OnRecord, Underway
  <2>5. NothingYet'
    BY <1>4 DEF Bindings, TypeOK, NothingYet, InCargo
  <2>6. Compiled'
    BY <1>4 DEF Bindings, TypeOK, Compiled, Undisturbed, OneCargo, InCargo
  <2> QED
    BY <2>1, <2>2, <2>3, <2>4, <2>5, <2>6
<1>5. ASSUME NEW t \in Trees, Header(t) PROVE Rest'
  <2>1. OneCargo'
    BY <1>5 DEF Header, TypeOK, OneCargo, InCargo
  <2>2. Recorded'
    <3>0. profile[t] \in Profile /\ script[profile[t]] = "none"
          /\ \A u \in Trees \ {t} : InCargo(u) => profile[u] # profile[t]
      BY <1>5 DEF Header, TypeOK, OneCargo, InCargo, Recorded, Underway
    <3>1. ASSUME NEW f \in Profile PROVE OnRecord(f)'
      BY <1>5, <3>0 DEF Header, TypeOK, Recorded, OnRecord, Underway
    <3>2. ASSUME NEW u \in Trees PROVE Underway(u)'
      <4>1. CASE u = t
        BY <1>5, <3>0, <4>1 DEF Header, TypeOK, Recorded, Underway
      <4>2. CASE u # t
        <5>1. /\ pc'[u] = pc[u] /\ UNCHANGED <<option, profile, script, linked>>
              /\ Underway(u)
          BY <1>5, <4>2 DEF Header, TypeOK, Recorded
        <5>2. pc[u] = "configure" => profile[u] \in Profile /\ profile[u] # profile[t]
          BY <3>0, <4>2 DEF TypeOK, InCargo
        <5>3. ASSUME pc[u] = "configure"
              PROVE  \/ touched'[profile[u]]
                     \/ warned'[profile[u]] = warned[profile[u]] /\ UNCHANGED <<header, touched>>
          <6>1. CASE touched' = [f \in Profile |-> f # profile[t] \/ touched[f]]
            <7>1. profile[u] \in Profile /\ profile[u] # profile[t]
              BY <5>2, <5>3, Zenon
            <7>2. touched'[profile[u]] = (profile[u] # profile[t] \/ touched[profile[u]])
              BY <6>1, <7>1
            <7> QED
              BY <7>1, <7>2, Zenon
          <6>2. CASE /\ warned' = [warned EXCEPT ![profile[t]] = TRUE]
                     /\ UNCHANGED <<header, touched>>
            BY <5>2, <5>3, <6>2 DEF TypeOK
          <6> QED
            BY <1>5, <6>1, <6>2, Zenon DEF Header
        <5> QED
          BY <5>1, <5>3 DEF Underway
      <4> QED
        BY <4>1, <4>2
    <3> QED
      BY <3>1, <3>2 DEF Recorded
  <2>3. Untouched'
    BY <1>5 DEF Header, TypeOK, Untouched, OneCargo, InCargo
  <2>4. HeadersMatchLibrary'
    BY <1>5 DEF Header, TypeOK, HeadersMatchLibrary, Recorded, OnRecord, Underway
  <2>5. NothingYet'
    BY <1>5 DEF Header, TypeOK, NothingYet, InCargo
  <2>6. Compiled'
    BY <1>5 DEF Header, TypeOK, Compiled, Undisturbed, OneCargo, InCargo
  <2> QED
    BY <2>1, <2>2, <2>3, <2>4, <2>5, <2>6
<1>6. ASSUME NEW t \in Trees, Configure(t) PROVE Rest'
  <2>1. OneCargo'
    BY <1>6 DEF Configure, TypeOK, OneCargo, InCargo
  <2>2. Recorded'
    <3>0. profile[t] \in Profile /\ script[profile[t]] = "none"
          /\ \A u \in Trees \ {t} : InCargo(u) => profile[u] # profile[t]
      BY <1>6 DEF Configure, TypeOK, OneCargo, InCargo, Recorded, Underway
    <3>1. ASSUME NEW f \in Profile PROVE OnRecord(f)'
      BY <1>6, <3>0 DEF Configure, TypeOK, Recorded, OnRecord, Underway
    <3>2. ASSUME NEW u \in Trees PROVE Underway(u)'
      <4>1. CASE u = t
        BY <1>6, <3>0, <4>1 DEF Configure, TypeOK, Recorded, Underway
      <4>2. CASE u # t
        BY <1>6, <3>0, <4>2 DEF Configure, TypeOK, InCargo, Recorded, Underway
      <4> QED
        BY <4>1, <4>2
    <3> QED
      BY <3>1, <3>2 DEF Recorded
  <2>3. Untouched'
    BY <1>6 DEF Configure, TypeOK, Untouched, OneCargo, InCargo
  <2>4. HeadersMatchLibrary'
    BY <1>6 DEF Configure, TypeOK, HeadersMatchLibrary, Recorded, OnRecord, Underway
  <2>5. NothingYet'
    BY <1>6 DEF Configure, TypeOK, NothingYet, InCargo
  <2>6. Compiled'
    BY <1>6 DEF Configure, TypeOK, Compiled, Undisturbed, OneCargo, InCargo
  <2> QED
    BY <2>1, <2>2, <2>3, <2>4, <2>5, <2>6
<1>7. ASSUME NEW t \in Trees, Link(t) PROVE Rest'
  <2>1. OneCargo'
    BY <1>7 DEF Link, TypeOK, OneCargo, InCargo
  <2>2. Recorded'
    BY <1>7 DEF Link, TypeOK, Recorded, OnRecord, Underway, OneCargo, InCargo
  <2>3. Untouched'
    BY <1>7 DEF Link, TypeOK, Untouched, OneCargo, InCargo
  <2>4. HeadersMatchLibrary'
    <3> SUFFICES ASSUME NEW f \in Profile, linked'[f], ~warned'[f], ~touched'[f]
                 PROVE  header' = lib'[f] /\ config' = lib'[f]
      BY DEF HeadersMatchLibrary
    <3>1. CASE f = profile[t] /\ lib' = [lib EXCEPT ![f] = option[t]]
      <4>1. script[f] = option[t] /\ option[t] # "none" /\ lib'[f] = option[t]
        BY <1>7, <3>1 DEF Link, TypeOK, Mode, Recorded, Underway
      <4> QED
        BY <1>7, <4>1 DEF Link, Recorded, OnRecord
    <3>2. CASE linked'[f] = linked[f] /\ lib'[f] = lib[f]
      BY <1>7, <3>2 DEF Link, HeadersMatchLibrary
    <3> QED
      BY <1>7, <3>1, <3>2 DEF Link, TypeOK
  <2>5. NothingYet'
    BY <1>7 DEF Link, TypeOK, NothingYet, InCargo
  <2>6. Compiled'
    <3>1. \A u \in Trees \ {t} : disturbed'[u] /\ pc'[u] = pc[u]
      BY <1>7 DEF Link, OneCargo, InCargo, TypeOK
    <3>2. \A p \in Programs : binary'[t][p] = "none"
      BY <1>7 DEF Link, NothingYet, InCargo
    <3>3. pc'[t] = "compile" => linked'[profile[t]]
      BY <1>7 DEF Link, TypeOK
    <3>4. pc'[t] \in {"compile", "rest"} /\ profile' = profile
      BY <1>7 DEF Link, TypeOK
    <3> QED
      BY <3>1, <3>2, <3>3, <3>4 DEF Compiled, Undisturbed
  <2> QED
    BY <2>1, <2>2, <2>3, <2>4, <2>5, <2>6
<1>8. ASSUME NEW t \in Trees, NEW p \in Programs, CompileOk(t, p) PROVE Rest'
  <2>1. OneCargo'
    BY <1>8 DEF CompileOk, TypeOK, OneCargo, InCargo
  <2>2. Recorded'
    BY <1>8 DEF CompileOk, TypeOK, Recorded, OnRecord, Underway, OneCargo, InCargo
  <2>3. Untouched'
    BY <1>8 DEF CompileOk, TypeOK, Untouched, OneCargo, InCargo
  <2>4. HeadersMatchLibrary'
    BY <1>8 DEF CompileOk, TypeOK, HeadersMatchLibrary, Recorded, OnRecord, Underway
  <2>5. NothingYet'
    BY <1>8 DEF CompileOk, TypeOK, NothingYet, InCargo
  <2>6. Compiled'
    <3>0. /\ pc[t] = "compile" /\ header = Passes(p)
          /\ binary' = [binary EXCEPT ![t][p] = header]
          /\ UNCHANGED <<profile, disturbed, lib, warned, linked, touched>>
          /\ \A u \in Trees : pc'[u] \in {"compile", "built"} => pc[u] \in {"compile", "built"}
      BY <1>8 DEF CompileOk, Compiles, TypeOK
    <3> SUFFICES ASSUME NEW u \in Trees, pc[u] \in {"compile", "built"}, Undisturbed(u),
                        NEW r \in Programs
                 PROVE  linked[profile[u]] /\ binary'[u][r] \in {"none", lib[profile[u]]}
      BY <3>0 DEF Compiled, Undisturbed
    <3>1. linked[profile[u]] /\ binary[u][r] \in {"none", lib[profile[u]]}
      BY DEF Compiled
    <3>2. header = lib[profile[u]]
      BY <3>1 DEF Undisturbed, Untouched, HeadersMatchLibrary, TypeOK
    <3>3. binary'[u][r] = binary[u][r] \/ binary'[u][r] = header
      BY <3>0 DEF TypeOK
    <3> QED
      BY <3>1, <3>2, <3>3
  <2> QED
    BY <2>1, <2>2, <2>3, <2>4, <2>5, <2>6
<1>9. ASSUME NEW t \in Trees, NEW p \in Programs, CompileFails(t, p) PROVE Rest'
  <2>1. OneCargo'
    BY <1>9 DEF CompileFails, TypeOK, OneCargo, InCargo
  <2>2. Recorded'
    BY <1>9 DEF CompileFails, TypeOK, Recorded, OnRecord, Underway, OneCargo, InCargo
  <2>3. Untouched'
    BY <1>9 DEF CompileFails, TypeOK, Untouched, OneCargo, InCargo
  <2>4. HeadersMatchLibrary'
    BY <1>9 DEF CompileFails, TypeOK, HeadersMatchLibrary, Recorded, OnRecord, Underway
  <2>5. NothingYet'
    BY <1>9 DEF CompileFails, TypeOK, NothingYet, InCargo
  <2>6. Compiled'
    BY <1>9 DEF CompileFails, TypeOK, Compiled, Undisturbed, OneCargo, InCargo
  <2> QED
    BY <2>1, <2>2, <2>3, <2>4, <2>5, <2>6
<1>10. CASE UNCHANGED vars
  <2>1. OneCargo' /\ Untouched' /\ NothingYet' /\ Compiled'
    BY <1>10 DEF vars, OneCargo, InCargo, Untouched, NothingYet, Compiled, Undisturbed
  <2>2. Recorded' /\ HeadersMatchLibrary'
    BY <1>10 DEF vars, Recorded, OnRecord, Underway, HeadersMatchLibrary
  <2> QED
    BY <1>0, <2>1, <2>2
<1> QED
  BY <1>0, <1>1, <1>2, <1>3, <1>4, <1>5, <1>6, <1>7, <1>8, <1>9, <1>10 DEF Next

(* IInv is an invariant of every build.                                    *)
THEOREM Invariance == Spec => []IInv
BY InitInvariant, StepInvariant, PTL DEF Spec

(* Every variable has its type, for any number of trees and programs.      *)
THEOREM TypeCorrect == Spec => []TypeOK
<1>1. IInv => TypeOK
  BY DEF IInv
<1> QED
  BY <1>1, Invariance, PTL

(* Whatever builds were refused or broken off, a library that was compiled *)
(* after both headers were written is of their mode.                       *)
THEOREM HeadersFollowTheLibrary == Spec => []HeadersMatchLibrary
<1>1. IInv => HeadersMatchLibrary
  BY DEF IInv
<1> QED
  BY <1>1, Invariance, PTL

(* The programs of a tree that was built undisturbed are of the mode of    *)
(* the library.                                                            *)
THEOREM ProgramsFollowTheLibrary == Spec => []ProgramsMatchLibrary
<1>1. IInv => ProgramsMatchLibrary
  BY DEF IInv, TypeOK, Compiled, ProgramsMatchLibrary
<1> QED
  BY <1>1, Invariance, PTL

(* A guarded program compiles in either mode.                              *)
THEOREM GuardedProgramsCompile == Spec => []GuardedCompile
<1>1. IInv => GuardedCompile
  BY DEF IInv, TypeOK, Compiled, Untouched, HeadersMatchLibrary, GuardedCompile,
         Undisturbed, Compiles, Passes
<1> QED
  BY <1>1, Invariance, PTL

===============================================================================
