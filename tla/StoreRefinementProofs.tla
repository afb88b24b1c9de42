------------------------ MODULE StoreRefinementProofs ------------------------
(***************************************************************************)
(* Proof that BuildGenerator implements the abstract module store of       *)
(* ModuleStore under the refinement mapping of BuildGenerator (Store),     *)
(* for every value of the constants, under the two facts of the real       *)
(* inputs.  Every step maps to one abstract step or to a stutter; the     *)
(* guards of the abstract steps follow from the engine's own checks and   *)
(* from the invariant CallInv of BuildGeneratorCallProofs.                *)
(***************************************************************************)
EXTENDS BuildGeneratorCallProofs

\* The abstract view of the tables, as the refinement mapping gives it.
TraceView == [ar |-> ar, cc_link |-> cc_link,
              cc_compilelink |-> cc_compilelink,
              cc_libraries |-> cc_libraries, install |-> install]

\* The abstract record of one generated module.
View(m) == [kind |-> m.kind, target |-> m.target, call |-> m.pass,
            static |-> m.static]

(* A step that keeps the modules, the call and the visible tables is an   *)
(* abstract stutter.                                                       *)
LEMMA StoreStutter ==
    ASSUME UNCHANGED <<bp, pass, ar, cc_link, cc_compilelink, cc_libraries,
                       install>>
    PROVE  UNCHANGED Store!avars
BY DEF Store!avars, StoreMods

(***************************************************************************)
(* A test that passed the name, library and duplicate checks of the first *)
(* call is stored under a free name with its static libraries: the        *)
(* abstract AddTest.                                                       *)
(***************************************************************************)
LEMMA ExeEmitRefines ==
    ASSUME ScriptNamesDistinct, CallInv, status = "running", pass = 1,
           NEW t \in File, t \in DOMAIN cc_compilelink \cup DOMAIN cc_link,
           BaseName[t] \notin DisabledTests,
           cc_libraries[t] \cap DisabledLibs = {},
           BaseName[t] \notin ltp_names_used,
           NEW cflags, NEW incs, NEW viaLink,
           ExeEmit(t, cflags, incs, cc_libraries[t], viaLink),
           UNCHANGED loopFrame
    PROVE  Store!AddTest(t)
<1>. DEFINE custom == t \in DOMAIN CustomCflags
            flags  == IF custom THEN cflags \cup CustomCflags[t] ELSE cflags
            static == cc_libraries[t] \cap LtpLibs
            shared == (cc_libraries[t] \ BionicBuiltinLibs) \ LtpLibs
            key    == <<"ltp", BaseName[t]>>
            m      == MkModule("exe", t, flags, incs \ {DefaultInclude},
                               static, shared)
<1>1. key \notin DOMAIN StoreMods
  <2>1. key \notin DOMAIN bp
    BY ExeKeyFree
  <2>. QED
    BY <2>1 DEF StoreMods
<1>2. bp' = SetKey(bp, key, m)
  BY DEF ExeEmit
<1>3. View(m) = [kind |-> "exe", target |-> t, call |-> pass,
                 static |-> cc_libraries[t] \cap LtpLibs]
  BY DEF View, MkModule
<1>4. StoreMods' = [x \in DOMAIN StoreMods \cup {key} |->
                       IF x = key THEN View(m) ELSE StoreMods[x]]
  BY <1>2 DEF StoreMods, SetKey, View
<1>5. UNCHANGED <<pass, ar, cc_link, cc_compilelink, cc_libraries, install>>
  BY DEF loopFrame
<1>. QED
  BY <1>1, <1>3, <1>4, <1>5
     DEF Store!AddTest, Store!Store, Store!ArchivedLibs, LtpLibs

(***************************************************************************)
(* A compile-link or link step is a stutter (a disabled, excluded or      *)
(* duplicate test, or an exception) or the abstract AddTest: the test     *)
(* passed the disabled-test check and, through Excluded, the disabled-    *)
(* library check on the libraries it is built with.                        *)
(***************************************************************************)
LEMMA ExeLoopRefines ==
    ASSUME ScriptNamesDistinct, CallInv, NEW t \in todo,
           CompileLink(t) \/ Link(t)
    PROVE  [Store!Next]_Store!avars
<1>1. t \in DOMAIN cc_compilelink \cup DOMAIN cc_link
  <2>1. TypeOK
    BY DEF CallInv
  <2>. QED
    BY <2>1, TodoInTable DEF CompileLink, Link
<1>2. pass = 1 /\ t \in File
  BY <1>1 DEF CallInv, CallRest, Pass2NoExe, TypeOK, Passes, Rules,
              IsRuleTable, IsTable
<1>3. status = "running"
  BY DEF CompileLink, Link
<1>4. CASE UNCHANGED <<loopFrame, bp>>
  BY <1>4, StoreStutter DEF loopFrame
<1>5. CASE /\ BaseName[t] \notin DisabledTests
           /\ cc_libraries[t] \cap DisabledLibs = {}
           /\ \E cflags, incs, viaLink :
                 BuildExecutable(t, cflags, incs, cc_libraries[t], viaLink)
           /\ UNCHANGED loopFrame
  <2>1. PICK cflags, incs, viaLink :
            BuildExecutable(t, cflags, incs, cc_libraries[t], viaLink)
    BY <1>5
  <2>2. CASE UNCHANGED bp
    BY <1>5, <2>2, StoreStutter DEF loopFrame
  <2>3. CASE BaseName[t] \notin ltp_names_used
             /\ ExeEmit(t, cflags, incs, cc_libraries[t], viaLink)
    <3>1. Store!AddTest(t)
      BY <1>1, <1>2, <1>3, <1>5, <2>3, ExeEmitRefines
    <3>. QED
      BY <1>2, <3>1 DEF Store!Next
  <2>. QED
    BY <2>1, <2>2, <2>3 DEF BuildExecutable, exeVars, ExeCustomCrash
<1>. QED
  BY <1>4, <1>5 DEF CompileLink, Link, exeVars, Excluded

(***************************************************************************)
(* A built archive is the abstract AddStaticLib: its library is in        *)
(* ltp_libs_used, so by TrackersAgree a test of this call links it.       *)
(***************************************************************************)
LEMMA ArRefines ==
    ASSUME CallInv, NEW a \in todo, Ar(a)
    PROVE  [Store!Next]_Store!avars
<1>1. a \in DOMAIN ar /\ a \in File /\ status = "running"
  <2>1. TypeOK
    BY DEF CallInv
  <2>2. a \in DOMAIN ar
    BY <2>1, TodoInTable DEF Ar
  <2>. QED
    BY <2>1, <2>2 DEF Ar, TypeOK, Rules, IsRuleTable, IsTable
<1>2. CASE UNCHANGED <<loopFrame, bp>>
  BY <1>2, StoreStutter DEF loopFrame
<1>3. CASE /\ ArUsed(a)
           /\ bp' = SetKey(bp, <<"libltp", ArLibName[a]>>,
                           MkModule("lib", a, Collect(cc_flags, ar[a]),
                                    Collect(cc_includes, ar[a]), {}, {}))
           /\ UNCHANGED loopFrame
  <2>. DEFINE key == <<"libltp", ArLibName[a]>>
              m   == MkModule("lib", a, Collect(cc_flags, ar[a]),
                              Collect(cc_includes, ar[a]), {}, {})
  <2>1. PICK e \in ExesOfThisCall : ArLibName[a] \in bp[e].static
    <3>1. ArLibName[a] \in ltp_libs_used
      BY <1>3 DEF ArUsed
    <3>2. ltp_libs_used = UNION {bp[k].static : k \in ExesOfThisCall}
      BY <1>1 DEF CallInv, CallRest, TrackersAgree, Healthy
    <3>. QED
      BY <3>1, <3>2
  <2>2. /\ e \in DOMAIN StoreMods
        /\ StoreMods[e].kind = "exe"
        /\ StoreMods[e].call = pass
        /\ ArLibName[a] \in StoreMods[e].static
    BY <2>1 DEF ExesOfThisCall, ModulesOf, StoreMods
  <2>3. StoreMods' = [x \in DOMAIN StoreMods \cup {key} |->
                         IF x = key THEN View(m) ELSE StoreMods[x]]
    BY <1>3 DEF StoreMods, SetKey, View
  <2>4. View(m) = [kind |-> "lib", target |-> a, call |-> pass, static |-> {}]
    BY DEF View, MkModule
  <2>5. UNCHANGED <<pass, ar, cc_link, cc_compilelink, cc_libraries, install>>
    BY <1>3 DEF loopFrame
  <2>6. Store!AddStaticLib(a)
    BY <1>1, <2>2, <2>3, <2>4, <2>5 DEF Store!AddStaticLib, Store!Store
  <2>. QED
    BY <1>1, <2>6 DEF Store!Next
<1>. QED
  BY <1>2, <1>3 DEF Ar, exeVars

(***************************************************************************)
(* An installed script is the abstract AddScript: it passed both disabled *)
(* checks, and its name is no test's (ScriptNamesDistinct and KeyShape).  *)
(* Every other install step keeps _bp_result.                              *)
(***************************************************************************)
LEMMA InstallRefines ==
    ASSUME ScriptNamesDistinct, CallInv, NEW t \in todo, Install(t)
    PROVE  [Store!Next]_Store!avars
<1>1. t \in DOMAIN install /\ t \in File
  <2>1. TypeOK
    BY DEF CallInv
  <2>2. t \in DOMAIN install
    BY <2>1, TodoInTable DEF Install
  <2>. QED
    BY <2>1, <2>2 DEF TypeOK, Rules, IsRuleTable, IsTable
<1>2. UNCHANGED <<pass, ar, cc_link, cc_compilelink, cc_libraries, install>>
  BY DEF Install, tables
<1>3. CASE UNCHANGED bp
  BY <1>2, <1>3, StoreStutter
<1>4. CASE /\ t \notin DisabledTests /\ BaseName[t] \notin DisabledTests
           /\ t \in InScriptsDir /\ BuildShellScript(t)
  <2>. DEFINE key == <<"ltp", FlatName[t]>>
              m   == MkModule("sh", t, {}, {}, {}, {})
  <2>1. key \in DOMAIN StoreMods => StoreMods[key].kind # "exe"
    <3>1. SUFFICES ASSUME key \in DOMAIN bp, bp[key].kind = "exe"
                   PROVE  FALSE
      BY DEF StoreMods
    <3>2. bp[key].target \in File
      BY <3>1 DEF CallInv, TypeOK, Module
    <3>3. FlatName[t] = BaseName[bp[key].target]
      BY <3>1 DEF CallInv, CallRest, KeyShape
    <3>. QED
      BY <1>4, <3>2, <3>3 DEF ScriptNamesDistinct
  <2>2. StoreMods' = [x \in DOMAIN StoreMods \cup {key} |->
                         IF x = key THEN View(m) ELSE StoreMods[x]]
    BY <1>4 DEF BuildShellScript, StoreMods, SetKey, View
  <2>3. View(m) = [kind |-> "sh", target |-> t, call |-> pass, static |-> {}]
    BY DEF View, MkModule
  <2>4. Store!AddScript(t)
    BY <1>1, <1>2, <1>4, <2>1, <2>2, <2>3 DEF Store!AddScript, Store!Store
  <2>. QED
    BY <1>1, <2>4 DEF Store!Next
<1>. QED
  BY <1>3, <1>4 DEF Install, BuildPrebuiltBp

(* The end of the first call is the abstract NextCall; the end of the      *)
(* second is a stutter.                                                    *)
LEMMA FinishParseInputRefines ==
    ASSUME CallInv, FinishParseInput
    PROVE  [Store!Next]_Store!avars
<1>1. CASE pass = 2
  <2>1. UNCHANGED <<bp, pass, ar, cc_link, cc_compilelink, cc_libraries,
                    install>>
    BY <1>1 DEF FinishParseInput, tables
  <2>. QED
    BY <2>1, StoreStutter
<1>2. CASE pass = 1
  <2>1. PICK r \in Traces[2] : ReloadRules(r)
    BY <1>2 DEF FinishParseInput
  <2>2. pass' = 2 /\ UNCHANGED bp
    BY <1>2 DEF FinishParseInput
  <2>3. TraceView' = Store!Visible(r)
    BY <2>1 DEF TraceView, ReloadRules, Store!Visible
  <2>4. Store!NextCall
    BY <1>2, <2>2, <2>3 DEF Store!NextCall, TraceView, StoreMods
  <2>. QED
    BY <2>4 DEF Store!Next
<1>. QED
  BY <1>1, <1>2 DEF CallInv, TypeOK, Passes

(* Every step of the engine is an abstract step or a stutter. *)
LEMMA NextRefines ==
    ASSUME ScriptNamesDistinct, CallInv, [Next]_vars
    PROVE  [Store!Next]_Store!avars
<1>1. CASE \E t \in todo : CompileLink(t) \/ Link(t)
  BY <1>1, ExeLoopRefines
<1>2. CASE \E a \in todo : Ar(a)
  BY <1>2, ArRefines
<1>3. CASE \E t \in todo : Install(t)
  BY <1>3, InstallRefines
<1>4. CASE FinishParseInput
  BY <1>4, FinishParseInputRefines
<1>5. CASE RemoveWnoError \/ FilterIncludeDirs \/ NextLoop \/ UNCHANGED vars
  <2>1. UNCHANGED <<bp, pass, ar, cc_link, cc_compilelink, cc_libraries,
                    install>>
    BY <1>5 DEF RemoveWnoError, FilterIncludeDirs, NextLoop, vars, tables
  <2>. QED
    BY <2>1, StoreStutter
<1>. QED
  BY <1>1, <1>2, <1>3, <1>4, <1>5 DEF Next

(* An initial state of the engine is an initial state of the store. *)
LEMMA InitRefines == Init => Store!Init
<1> SUFFICES ASSUME Init PROVE Store!Init
  OBVIOUS
<1>1. PICK r \in Traces[1] : LoadRules(r)
  BY DEF Init
<1>2. TraceView = Store!Visible(r)
  BY <1>1 DEF TraceView, LoadRules, Store!Visible
<1>3. StoreMods = [x \in {} |-> x]
  BY DEF Init, StoreMods, EmptyDict
<1>. QED
  BY <1>2, <1>3 DEF Init, Store!Init, TraceView

(***************************************************************************)
(* The engine implements its promise: for every trace and policy whose    *)
(* install trace builds nothing and whose script names are no test's base *)
(* name, every step of ParseAll (lines 298-469, 527-536) leaves the       *)
(* generated modules alone or adds one module the abstract store allows:  *)
(* an enabled test that links no disabled library under a free name, a    *)
(* static library a test of the same call links, or an enabled script     *)
(* under a name no test holds.                                             *)
(***************************************************************************)
THEOREM StoreRefinement ==
    ASSUME InstallTraceBuildsNothing, ScriptNamesDistinct
    PROVE  Spec => ImplementsStore
<1>1. CallInv /\ [Next]_vars => [Store!Next]_Store!avars
  BY NextRefines
<1>2. Spec => []CallInv
  BY CallInvariant
<1>. QED
  BY InitRefines, <1>1, <1>2, PTL DEF ImplementsStore, Store!Spec, Spec

=============================================================================
