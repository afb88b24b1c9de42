---------------------- MODULE BuildGeneratorCallProofs ----------------------
(***************************************************************************)
(* Proofs of what BuildGenerator keeps across the steps of both ParseInput *)
(* calls: the per-call trackers, the unused-custom-cflags report, the      *)
(* static libraries, and that no test module is ever replaced.  They hold  *)
(* for every value of the constants under the two facts of the real        *)
(* inputs, InstallTraceBuildsNothing and ScriptNamesDistinct: without the  *)
(* first, the second call (whose ltp_names_used starts empty, line 333)   *)
(* may replace a test of the first.                                        *)
(***************************************************************************)
EXTENDS BuildGeneratorProofs

\* How module names relate to the modules stored under them.
KeyShape ==
    \A k \in DOMAIN bp :
        /\ bp[k].kind \in {"exe", "sh", "lib"}
        /\ bp[k].kind = "exe" => /\ k = <<"ltp", BaseName[bp[k].target]>>
                                 /\ bp[k].pass = 1
        /\ bp[k].kind = "sh" => /\ k = <<"ltp", FlatName[bp[k].target]>>
                                /\ bp[k].target \in InScriptsDir
        /\ bp[k].kind = "lib" => k[1] = "libltp"

\* The second call has no executable rule to visit.
Pass2NoExe == pass = 2 => DOMAIN cc_compilelink = {} /\ DOMAIN cc_link = {}

\* The three checked invariants, strengthened by the two facts above.
CallRest ==
    /\ KeyShape
    /\ Pass2NoExe
    /\ TrackersAgree
    /\ UnusedCustomCflagsExact
    /\ StaticLibOnlyIfReferenced

CallInv == TypeOK /\ CallRest

(* Storing a module under a new name adds that name and keeps the rest. *)
LEMMA SetKeyFresh ==
    ASSUME NEW f, NEW k, NEW v, k \notin DOMAIN f
    PROVE  /\ DOMAIN SetKey(f, k, v) = DOMAIN f \cup {k}
           /\ SetKey(f, k, v)[k] = v
           /\ \A j \in DOMAIN f : SetKey(f, k, v)[j] = f[j]
BY DEF SetKey

(* Storing a module keeps every other name and its module. *)
LEMMA SetKeyOther ==
    ASSUME NEW f, NEW k, NEW v
    PROVE  /\ DOMAIN SetKey(f, k, v) = DOMAIN f \cup {k}
           /\ SetKey(f, k, v)[k] = v
           /\ \A j \in DOMAIN f \ {k} : SetKey(f, k, v)[j] = f[j]
BY DEF SetKey

(* Adding one set to a family adds its elements to the union. *)
LEMMA UnionAdd ==
    ASSUME NEW S, NEW x
    PROVE  UNION (S \cup {x}) = (UNION S) \cup x
BY Zenon

(***************************************************************************)
(* The name a test claims is free: no test of this call has its base name *)
(* (it is not in ltp_names_used), no test of the other call exists in the *)
(* first call, no shell script has it (ScriptNamesDistinct), and static    *)
(* libraries have names of another form.                                   *)
(***************************************************************************)
LEMMA ExeKeyFree ==
    ASSUME ScriptNamesDistinct, CallInv, status = "running", pass = 1,
           NEW t \in File, BaseName[t] \notin ltp_names_used
    PROVE  <<"ltp", BaseName[t]>> \notin DOMAIN bp
<1> SUFFICES ASSUME <<"ltp", BaseName[t]>> \in DOMAIN bp PROVE FALSE
  OBVIOUS
<1>. DEFINE k == <<"ltp", BaseName[t]>>
<1>1. bp[k] \in Module
  BY DEF CallInv, TypeOK
<1>2. CASE bp[k].kind = "exe"
  <2>1. BaseName[bp[k].target] = BaseName[t] /\ bp[k].pass = pass
    BY <1>2 DEF CallInv, CallRest, KeyShape
  <2>2. k \in ExesOfThisCall
    BY <1>2, <2>1 DEF ExesOfThisCall, ModulesOf
  <2>. QED
    BY <2>1, <2>2 DEF CallInv, CallRest, TrackersAgree, Healthy
<1>3. CASE bp[k].kind = "sh"
  <2>1. FlatName[bp[k].target] = BaseName[t] /\ bp[k].target \in InScriptsDir
    BY <1>3 DEF CallInv, CallRest, KeyShape
  <2>. QED
    BY <2>1 DEF ScriptNamesDistinct
<1>4. CASE bp[k].kind = "lib"
  BY <1>4 DEF CallInv, CallRest, KeyShape
<1>. QED
  BY <1>2, <1>3, <1>4 DEF CallInv, CallRest, KeyShape

(***************************************************************************)
(* BuildExecutable past the base-name check, in the first call: the test  *)
(* is stored under a free name, so every module stays, the trackers gain  *)
(* exactly its base name and static libraries, and its custom cflags      *)
(* entry is consumed.                                                      *)
(***************************************************************************)
LEMMA ExeEmitCall ==
    ASSUME ScriptNamesDistinct, CallInv, status = "running", pass = 1,
           NEW t \in File, NEW cflags, NEW incs, NEW libraries, NEW viaLink,
           BaseName[t] \notin ltp_names_used,
           ltp_names_used' = ltp_names_used \cup {BaseName[t]},
           ExeEmit(t, cflags, incs, libraries, viaLink),
           UNCHANGED loopFrame
    PROVE  CallRest' /\ ExeModulesStable
<1>. DEFINE custom == t \in DOMAIN CustomCflags
            flags  == IF custom THEN cflags \cup CustomCflags[t] ELSE cflags
            static == libraries \cap LtpLibs
            shared == (libraries \ BionicBuiltinLibs) \ LtpLibs
            key    == <<"ltp", BaseName[t]>>
            m      == MkModule("exe", t, flags, incs \ {DefaultInclude},
                               static, shared)
            Exes   == ModulesOf("exe")
            Libs   == ModulesOf("lib")
<1>1. key \notin DOMAIN bp
  BY ExeKeyFree
<1>2. /\ bp' = SetKey(bp, key, m)
      /\ unused' = unused \ {t}
      /\ ltp_libs_used' = ltp_libs_used \cup static
      /\ status' = status /\ pass' = pass
      /\ cc_compilelink' = cc_compilelink /\ cc_link' = cc_link
  BY DEF ExeEmit, loopFrame
<1>3. /\ DOMAIN bp' = DOMAIN bp \cup {key}
      /\ bp'[key] = m
      /\ \A j \in DOMAIN bp : bp'[j] = bp[j]
  BY <1>1, <1>2 DEF SetKey
<1>4. m.kind = "exe" /\ m.target = t /\ m.pass = 1 /\ m.static = static
  BY DEF MkModule
<1>5. ModulesOf("exe")' = Exes \cup {key}
  BY <1>3, <1>4 DEF ModulesOf
<1>6. ModulesOf("lib")' = Libs
  BY <1>3, <1>4 DEF ModulesOf
<1>7. ExesOfThisCall' = ExesOfThisCall \cup {key}
  BY <1>2, <1>3, <1>4, <1>5 DEF ExesOfThisCall, ModulesOf
<1>8. ExeModulesStable
  BY <1>3, <1>5 DEF ExeModulesStable, ModulesOf
<1>9. KeyShape'
  BY <1>3, <1>4 DEF CallInv, CallRest, KeyShape
<1>10. TrackersAgree'
  <2>1. ltp_names_used = {BaseName[bp[k].target] : k \in ExesOfThisCall}
        /\ ltp_libs_used = UNION {bp[k].static : k \in ExesOfThisCall}
    BY DEF CallInv, CallRest, TrackersAgree, Healthy
  <2>2. ExesOfThisCall \subseteq DOMAIN bp
    BY DEF ExesOfThisCall, ModulesOf
  <2>3. {BaseName[bp'[k].target] : k \in ExesOfThisCall'}
          = {BaseName[bp[k].target] : k \in ExesOfThisCall} \cup {BaseName[t]}
    BY <1>3, <1>4, <1>7, <2>2
  <2>4. {bp'[k].static : k \in ExesOfThisCall'}
          = {bp[k].static : k \in ExesOfThisCall} \cup {static}
    <3>1. \A k \in ExesOfThisCall : bp'[k].static = bp[k].static
      BY <1>3, <2>2
    <3>2. bp'[key].static = static
      BY <1>3, <1>4
    <3>. QED
      BY <1>7, <3>1, <3>2
  <2>5. UNION {bp'[k].static : k \in ExesOfThisCall'}
          = (UNION {bp[k].static : k \in ExesOfThisCall}) \cup static
    BY <2>4, UnionAdd
  <2>6. Healthy'
    BY <1>2 DEF Healthy
  <2>7. ltp_names_used' = {BaseName[bp'[k].target] : k \in ExesOfThisCall'}
    BY <2>1, <2>3
  <2>8. ltp_libs_used' = UNION {bp'[k].static : k \in ExesOfThisCall'}
    BY <1>2, <2>1, <2>5
  <2>. QED
    BY <2>6, <2>7, <2>8 DEF TrackersAgree
<1>11. UnusedCustomCflagsExact'
  <2>1. {bp'[k].target : k \in ModulesOf("exe")'}
          = {bp[k].target : k \in Exes} \cup {t}
    BY <1>3, <1>4, <1>5 DEF ModulesOf
  <2>. QED
    BY <1>2, <2>1 DEF CallInv, CallRest, UnusedCustomCflagsExact
<1>12. StaticLibOnlyIfReferenced'
  <2>1. Exes \subseteq DOMAIN bp /\ Libs \subseteq DOMAIN bp
    BY DEF ModulesOf
  <2>. QED
    BY <1>3, <1>5, <1>6, <2>1
       DEF CallInv, CallRest, StaticLibOnlyIfReferenced
<1>13. Pass2NoExe'
  BY <1>2 DEF CallInv, CallRest, Pass2NoExe
<1>. QED
  BY <1>8, <1>9, <1>10, <1>11, <1>12, <1>13 DEF CallRest

(***************************************************************************)
(* A step that stores no module, keeps the call and the custom cflags     *)
(* report, and either keeps the trackers or ends the run with an          *)
(* exception, keeps the invariant.                                         *)
(***************************************************************************)
LEMMA QuietStep ==
    ASSUME CallInv, status = "running",
           UNCHANGED <<bp, pass, unused, cc_compilelink, cc_link>>,
           \/ /\ UNCHANGED <<ltp_names_used, ltp_libs_used>>
              /\ status' \in {"running", "done"}
           \/ status' \in Errors
    PROVE  CallRest' /\ ExeModulesStable
<1>1. /\ KeyShape'
      /\ Pass2NoExe'
      /\ UnusedCustomCflagsExact'
      /\ StaticLibOnlyIfReferenced'
  BY DEF CallInv, CallRest, KeyShape, Pass2NoExe, UnusedCustomCflagsExact,
         StaticLibOnlyIfReferenced, ModulesOf
<1>2. ExeModulesStable
  BY DEF ExeModulesStable, ModulesOf
<1>3. TrackersAgree'
  <2>1. CASE UNCHANGED <<ltp_names_used, ltp_libs_used>>
             /\ status' \in {"running", "done"}
    BY <2>1 DEF CallInv, CallRest, TrackersAgree, Healthy, ExesOfThisCall,
                ModulesOf
  <2>2. CASE status' \in Errors
    BY <2>2 DEF TrackersAgree, Healthy, Errors
  <2>. QED
    BY <2>1, <2>2
<1>. QED
  BY <1>1, <1>2, <1>3 DEF CallRest

(* BuildExecutable in the first call: a duplicate is skipped, a crash ends *)
(* the run, and an emitted test is ExeEmitCall.                            *)
LEMMA BuildExecutableCall ==
    ASSUME ScriptNamesDistinct, CallInv, status = "running", pass = 1,
           NEW t \in File, NEW cflags, NEW incs, NEW libraries, NEW viaLink,
           BuildExecutable(t, cflags, incs, libraries, viaLink),
           UNCHANGED loopFrame
    PROVE  CallRest' /\ ExeModulesStable
<1>1. UNCHANGED <<pass, cc_compilelink, cc_link>>
  BY DEF loopFrame
<1>2. CASE UNCHANGED exeVars
  BY <1>1, <1>2, QuietStep DEF exeVars
<1>3. CASE BaseName[t] \notin ltp_names_used
           /\ ltp_names_used' = ltp_names_used \cup {BaseName[t]}
           /\ ExeCustomCrash(t, cflags, viaLink)
  <2>1. UNCHANGED <<bp, unused>> /\ status' \in Errors
    BY <1>3 DEF ExeCustomCrash, Errors
  <2>. QED
    BY <1>1, <2>1, QuietStep
<1>4. CASE BaseName[t] \notin ltp_names_used
           /\ ltp_names_used' = ltp_names_used \cup {BaseName[t]}
           /\ ExeEmit(t, cflags, incs, libraries, viaLink)
  BY <1>4, ExeEmitCall
<1>. QED
  BY <1>2, <1>3, <1>4 DEF BuildExecutable

(* A compile-link or link step runs in the first call only, the second    *)
(* having no such rules; its outcomes are the ones above.                  *)
LEMMA ExeLoopCall ==
    ASSUME ScriptNamesDistinct, CallInv, NEW t \in todo,
           CompileLink(t) \/ Link(t)
    PROVE  CallRest' /\ ExeModulesStable
<1>1. t \in DOMAIN cc_compilelink \cup DOMAIN cc_link
  <2>1. TypeOK
    BY DEF CallInv
  <2>. QED
    BY <2>1, TodoInTable DEF CompileLink, Link
<1>2. pass = 1 /\ t \in File
  BY <1>1 DEF CallInv, CallRest, Pass2NoExe, TypeOK, Passes, Rules,
              IsRuleTable, IsTable
<1>3. status = "running"
  BY DEF CompileLink, Link
<1>4. CASE UNCHANGED <<loopFrame, exeVars>>
  BY <1>3, <1>4, QuietStep DEF loopFrame, exeVars
<1>5. CASE status' = "MissingCompile"
           /\ UNCHANGED <<loopFrame, cc_flags, bp, packages, unused,
                          ltp_libs_used, ltp_names_used>>
  BY <1>3, <1>5, QuietStep DEF loopFrame, Errors
<1>6. CASE /\ CompileLink(t)
           /\ BuildExecutable(t, cc_flags[t], cc_includes[t],
                              cc_libraries[t], FALSE)
           /\ UNCHANGED loopFrame
  BY <1>2, <1>3, <1>6, BuildExecutableCall
<1>7. CASE /\ Link(t)
           /\ BuildExecutable(t, Collect(cc_flags, cc_link[t]),
                              Collect(cc_includes, cc_link[t]),
                              cc_libraries[t], TRUE)
           /\ UNCHANGED loopFrame
  BY <1>2, <1>3, <1>7, BuildExecutableCall
<1>. QED
  BY <1>4, <1>5, <1>6, <1>7 DEF CompileLink, Link

(***************************************************************************)
(* Storing a module that is not a test under a name no test holds keeps    *)
(* every test, and with the trackers and the report unchanged keeps what   *)
(* depends on the tests only.                                              *)
(***************************************************************************)
LEMMA NonExeStore ==
    ASSUME CallInv, NEW key, NEW m, bp' = SetKey(bp, key, m),
           m.kind # "exe", key \notin ModulesOf("exe"),
           UNCHANGED <<pass, unused, ltp_names_used, ltp_libs_used, status,
                       cc_compilelink, cc_link>>
    PROVE  /\ ModulesOf("exe")' = ModulesOf("exe")
           /\ \A k \in DOMAIN bp \ {key} : bp'[k] = bp[k]
           /\ DOMAIN bp' = DOMAIN bp \cup {key} /\ bp'[key] = m
           /\ ExeModulesStable
           /\ Pass2NoExe' /\ TrackersAgree' /\ UnusedCustomCflagsExact'
<1>1. /\ DOMAIN bp' = DOMAIN bp \cup {key} /\ bp'[key] = m
      /\ \A k \in DOMAIN bp \ {key} : bp'[k] = bp[k]
  BY DEF SetKey
<1>2. ModulesOf("exe")' = ModulesOf("exe")
  BY <1>1 DEF ModulesOf
<1>3. \A k \in ModulesOf("exe") : bp'[k] = bp[k]
  BY <1>1 DEF ModulesOf
<1>4. ExesOfThisCall' = ExesOfThisCall
  BY <1>2, <1>3 DEF ExesOfThisCall
<1>5. TrackersAgree'
  BY <1>3, <1>4 DEF CallInv, CallRest, TrackersAgree, Healthy, ExesOfThisCall
<1>6. UnusedCustomCflagsExact'
  BY <1>2, <1>3 DEF CallInv, CallRest, UnusedCustomCflagsExact
<1>. QED
  BY <1>1, <1>2, <1>3, <1>5, <1>6
     DEF ExeModulesStable, ModulesOf, CallInv, CallRest, Pass2NoExe

(***************************************************************************)
(* An archive is built only when a test of this call linked its library   *)
(* (ArUsed, and TrackersAgree): that test is the witness the new static    *)
(* library needs, and the library's name is never a test's.               *)
(***************************************************************************)
LEMMA ArCall ==
    ASSUME CallInv, NEW a \in todo, Ar(a)
    PROVE  CallRest' /\ ExeModulesStable
<1>1. status = "running"
  BY DEF Ar
<1>2. CASE UNCHANGED <<loopFrame, exeVars>>
  BY <1>1, <1>2, QuietStep DEF loopFrame, exeVars
<1>3. CASE status' = "MissingCompile"
           /\ UNCHANGED <<loopFrame, cc_flags, bp, packages, unused,
                          ltp_libs_used, ltp_names_used>>
  BY <1>1, <1>3, QuietStep DEF loopFrame, Errors
<1>4. CASE /\ ArUsed(a)
           /\ bp' = SetKey(bp, <<"libltp", ArLibName[a]>>,
                           MkModule("lib", a, Collect(cc_flags, ar[a]),
                                    Collect(cc_includes, ar[a]), {}, {}))
           /\ UNCHANGED <<loopFrame, cc_flags, packages, unused,
                          ltp_libs_used, ltp_names_used, status>>
  <2>. DEFINE key == <<"libltp", ArLibName[a]>>
              m   == MkModule("lib", a, Collect(cc_flags, ar[a]),
                              Collect(cc_includes, ar[a]), {}, {})
              Exes == ModulesOf("exe")
  <2>1. m.kind = "lib" /\ m.target = a /\ m.pass = pass
    BY DEF MkModule
  <2>2. key \notin Exes
    BY DEF CallInv, CallRest, KeyShape, ModulesOf
  <2>3. /\ Exes' = Exes
        /\ \A k \in DOMAIN bp \ {key} : bp'[k] = bp[k]
        /\ DOMAIN bp' = DOMAIN bp \cup {key} /\ bp'[key] = m
        /\ ExeModulesStable
        /\ Pass2NoExe' /\ TrackersAgree' /\ UnusedCustomCflagsExact'
    <3>1. UNCHANGED <<pass, cc_compilelink, cc_link>>
      BY <1>4 DEF loopFrame
    <3>. QED
      BY <1>4, <2>1, <2>2, <3>1, NonExeStore
  <2>4. KeyShape'
    <3>1. KeyShape
      BY DEF CallInv, CallRest
    <3>2. key[1] = "libltp"
      OBVIOUS
    <3>. QED
      BY <2>1, <2>3, <3>1, <3>2 DEF KeyShape
  <2>5. PICK e \in ExesOfThisCall : ArLibName[a] \in bp[e].static
    <3>1. ArLibName[a] \in ltp_libs_used
      BY <1>4 DEF ArUsed
    <3>2. ltp_libs_used = UNION {bp[k].static : k \in ExesOfThisCall}
      BY <1>1 DEF CallInv, CallRest, TrackersAgree, Healthy
    <3>. QED
      BY <3>1, <3>2
  <2>6. e \in Exes /\ e # key /\ bp[e].pass = pass
    BY <2>2, <2>5 DEF ExesOfThisCall
  <2>7. StaticLibOnlyIfReferenced'
    <3>1. Exes \subseteq DOMAIN bp /\ ModulesOf("lib") \subseteq DOMAIN bp
      BY DEF ModulesOf
    <3>2. \A k \in Exes : bp'[k] = bp[k]
      BY <2>2, <2>3, <3>1
    <3>3. ModulesOf("lib")' = (ModulesOf("lib") \ {key}) \cup {key}
      BY <2>1, <2>3 DEF ModulesOf
    <3>4. \A k \in ModulesOf("lib") \ {key} : bp'[k] = bp[k]
      BY <2>3, <3>1
    <3>5. \E x \in Exes' : bp'[x].pass = bp'[key].pass
                           /\ ArLibName[bp'[key].target] \in bp'[x].static
      BY <2>1, <2>3, <2>5, <2>6, <3>2
    <3>. QED
      BY <2>3, <3>2, <3>3, <3>4, <3>5
         DEF CallInv, CallRest, StaticLibOnlyIfReferenced
  <2>. QED
    BY <2>3, <2>4, <2>7 DEF CallRest
<1>. QED
  BY <1>2, <1>3, <1>4 DEF Ar, exeVars, loopFrame

(***************************************************************************)
(* An installed shell script is stored under 'ltp_' + its flattened path,  *)
(* which no test holds (ScriptNamesDistinct) and no static library can     *)
(* hold; a prebuilt goes to the other blueprint file.                      *)
(***************************************************************************)
LEMMA InstallCall ==
    ASSUME ScriptNamesDistinct, CallInv, NEW t \in todo, Install(t)
    PROVE  CallRest' /\ ExeModulesStable
<1>1. status = "running"
      /\ UNCHANGED <<pass, unused, ltp_names_used, ltp_libs_used,
                     cc_compilelink, cc_link>>
  BY DEF Install, tables
<1>2. CASE UNCHANGED bp /\ status' \in {status} \cup Errors
  BY <1>1, <1>2, QuietStep
<1>3. CASE t \in InScriptsDir /\ BuildShellScript(t) /\ UNCHANGED status
  <2>. DEFINE key == <<"ltp", FlatName[t]>>
              m   == MkModule("sh", t, {}, {}, {}, {})
              Exes == ModulesOf("exe")
              Libs == ModulesOf("lib")
  <2>1. m.kind = "sh" /\ m.target = t
    BY DEF MkModule
  <2>2. key \notin Exes
    <3>1. SUFFICES ASSUME key \in Exes PROVE FALSE
      OBVIOUS
    <3>2. bp[key].target \in File
      BY <3>1 DEF CallInv, TypeOK, Module, ModulesOf
    <3>3. FlatName[t] = BaseName[bp[key].target]
      BY <3>1 DEF CallInv, CallRest, KeyShape, ModulesOf
    <3>. QED
      BY <1>3, <3>2, <3>3 DEF ScriptNamesDistinct
  <2>3. key \notin Libs
    BY DEF CallInv, CallRest, KeyShape, ModulesOf
  <2>4. /\ Exes' = Exes
        /\ \A k \in DOMAIN bp \ {key} : bp'[k] = bp[k]
        /\ DOMAIN bp' = DOMAIN bp \cup {key} /\ bp'[key] = m
        /\ ExeModulesStable
        /\ Pass2NoExe' /\ TrackersAgree' /\ UnusedCustomCflagsExact'
    BY <1>1, <1>3, <2>1, <2>2, NonExeStore DEF BuildShellScript
  <2>5. KeyShape'
    BY <1>3, <2>1, <2>4 DEF CallInv, CallRest, KeyShape
  <2>6. StaticLibOnlyIfReferenced'
    <3>1. Exes \subseteq DOMAIN bp /\ Libs \subseteq DOMAIN bp
      BY DEF ModulesOf
    <3>2. Libs' = Libs
      BY <2>1, <2>3, <2>4, <3>1 DEF ModulesOf
    <3>. QED
      BY <2>2, <2>3, <2>4, <3>1, <3>2
         DEF CallInv, CallRest, StaticLibOnlyIfReferenced
  <2>. QED
    BY <2>4, <2>5, <2>6 DEF CallRest
<1>4. CASE UNCHANGED <<status, bp>> \/ (status' = "AssertionError" /\ UNCHANGED bp)
  BY <1>4, <1>2 DEF Errors
<1>. QED
  BY <1>3, <1>4 DEF Install, BuildPrebuiltBp

(* The end of the first call: the tests all belong to it, so the second    *)
(* call starts with no test of its own and empty trackers, and its rules   *)
(* hold no executable.  The end of the second call is QuietStep.           *)
LEMMA FinishParseInputCall ==
    ASSUME InstallTraceBuildsNothing, CallInv, FinishParseInput
    PROVE  CallRest' /\ ExeModulesStable
<1>1. CASE pass = 2
  <2>1. status = "running" /\ status' = "done"
        /\ UNCHANGED <<bp, pass, unused, cc_compilelink, cc_link,
                       ltp_names_used, ltp_libs_used>>
    BY <1>1 DEF FinishParseInput, tables
  <2>. QED
    BY <2>1, QuietStep
<1>2. CASE pass = 1
  <2>1. PICK r \in Traces[2] : ReloadRules(r)
    BY <1>2 DEF FinishParseInput
  <2>2. /\ pass' = 2 /\ ltp_names_used' = {} /\ ltp_libs_used' = {}
        /\ UNCHANGED <<bp, unused>>
    BY <1>2 DEF FinishParseInput
  <2>3. Pass2NoExe'
    BY <2>1 DEF InstallTraceBuildsNothing, ReloadRules, Pass2NoExe
  <2>4. ExesOfThisCall' = {}
    BY <2>2 DEF CallInv, CallRest, KeyShape, ExesOfThisCall, ModulesOf
  <2>5. TrackersAgree'
    BY <2>2, <2>4 DEF TrackersAgree
  <2>. QED
    BY <2>2, <2>3, <2>5
       DEF CallInv, CallRest, KeyShape, UnusedCustomCflagsExact,
           StaticLibOnlyIfReferenced, ExeModulesStable, ModulesOf
<1>. QED
  BY <1>1, <1>2 DEF CallInv, TypeOK, Passes

(* Every step keeps the invariant and leaves every test module in place. *)
LEMMA NextCall ==
    ASSUME InstallTraceBuildsNothing, ScriptNamesDistinct, CallInv,
           [Next]_vars
    PROVE  CallInv' /\ ExeModulesStable
<1>1. TypeOK'
  BY NextTypeOK DEF CallInv
<1>2. CallRest' /\ ExeModulesStable
  <2>1. CASE \E t \in todo : CompileLink(t) \/ Link(t)
    BY <2>1, ExeLoopCall
  <2>2. CASE \E a \in todo : Ar(a)
    BY <2>2, ArCall
  <2>3. CASE \E t \in todo : Install(t)
    BY <2>3, InstallCall
  <2>4. CASE FinishParseInput
    BY <2>4, FinishParseInputCall
  <2>5. CASE RemoveWnoError \/ FilterIncludeDirs \/ NextLoop
    BY <2>5, QuietStep DEF RemoveWnoError, FilterIncludeDirs, NextLoop,
                           tables
  <2>6. CASE UNCHANGED vars
    <3>1. UNCHANGED <<bp, pass, status, unused, ltp_names_used,
                      ltp_libs_used, cc_compilelink, cc_link>>
      BY <2>6 DEF vars, tables
    <3>2. CallRest
      BY DEF CallInv
    <3>3. KeyShape' /\ Pass2NoExe'
      BY <3>1, <3>2 DEF CallRest, KeyShape, Pass2NoExe
    <3>4. TrackersAgree'
      BY <3>1, <3>2 DEF CallRest, TrackersAgree, Healthy, ExesOfThisCall,
                        ModulesOf
    <3>5. UnusedCustomCflagsExact' /\ StaticLibOnlyIfReferenced'
      BY <3>1, <3>2 DEF CallRest, UnusedCustomCflagsExact,
                        StaticLibOnlyIfReferenced, ModulesOf
    <3>6. ExeModulesStable
      BY <3>1 DEF ExeModulesStable, ModulesOf
    <3>. QED
      BY <3>3, <3>4, <3>5, <3>6 DEF CallRest
  <2>. QED
    BY <2>1, <2>2, <2>3, <2>4, <2>5, <2>6 DEF Next
<1>. QED
  BY <1>1, <1>2 DEF CallInv

(* The invariant holds at the start: no module, no tracker, no call end. *)
LEMMA InitCall == Init => CallInv
<1> SUFFICES ASSUME Init PROVE CallInv
  OBVIOUS
<1>1. TypeOK
  BY InitTypeOK
<1>2. DOMAIN bp = {} /\ pass = 1 /\ unused = DOMAIN CustomCflags
      /\ ltp_names_used = {} /\ ltp_libs_used = {}
  BY DEF Init, EmptyDict
<1>3. ModulesOf("exe") = {} /\ ModulesOf("lib") = {} /\ ExesOfThisCall = {}
  BY <1>2 DEF ModulesOf, ExesOfThisCall
<1>4. KeyShape /\ Pass2NoExe
  BY <1>2 DEF KeyShape, Pass2NoExe
<1>5. TrackersAgree
  BY <1>2, <1>3 DEF TrackersAgree
<1>6. UnusedCustomCflagsExact /\ StaticLibOnlyIfReferenced
  BY <1>2, <1>3 DEF UnusedCustomCflagsExact, StaticLibOnlyIfReferenced
<1>. QED
  BY <1>1, <1>4, <1>5, <1>6 DEF CallInv, CallRest

(* The strengthened invariant holds in every state of every run. *)
LEMMA CallInvariant ==
    ASSUME InstallTraceBuildsNothing, ScriptNamesDistinct
    PROVE  Spec => []CallInv
<1>1. CallInv /\ [Next]_vars => CallInv'
  BY NextCall
<1>. QED
  BY InitCall, <1>1, PTL DEF Spec

(***************************************************************************)
(* ltp_names_used and ltp_libs_used (lines 113-117, 162-172, 333) are      *)
(* exactly the base names and static libraries of the tests the current   *)
(* ParseInput call has built, for every trace, every policy and every     *)
(* loop order, given the two facts of the real inputs.                    *)
(***************************************************************************)
THEOREM TrackersAgreeSafe ==
    ASSUME InstallTraceBuildsNothing, ScriptNamesDistinct
    PROVE  Spec => []TrackersAgree
<1>1. CallInv => TrackersAgree
  BY DEF CallInv, CallRest
<1>. QED
  BY CallInvariant, <1>1, PTL

(***************************************************************************)
(* The "never seen" custom-cflags report (lines 121, 538-540) names        *)
(* exactly the targets with custom cflags that no generated test came     *)
(* from, under the same facts.                                            *)
(***************************************************************************)
THEOREM UnusedCustomCflagsSafe ==
    ASSUME InstallTraceBuildsNothing, ScriptNamesDistinct
    PROVE  Spec => []UnusedCustomCflagsExact
<1>1. CallInv => UnusedCustomCflagsExact
  BY DEF CallInv, CallRest
<1>. QED
  BY CallInvariant, <1>1, PTL

(***************************************************************************)
(* Every static library (lines 419-447) has a test of the same ParseInput  *)
(* call that links it, under the same facts.                              *)
(***************************************************************************)
THEOREM StaticLibReferencedSafe ==
    ASSUME InstallTraceBuildsNothing, ScriptNamesDistinct
    PROVE  Spec => []StaticLibOnlyIfReferenced
<1>1. CallInv => StaticLibOnlyIfReferenced
  BY DEF CallInv, CallRest
<1>. QED
  BY CallInvariant, <1>1, PTL

(***************************************************************************)
(* No step replaces or drops a generated test module in _bp_result: not a  *)
(* later target of the same base name in either call, not a shell script, *)
(* not a static library, under the same facts.                            *)
(***************************************************************************)
THEOREM ExeNeverReplacedSafe ==
    ASSUME InstallTraceBuildsNothing, ScriptNamesDistinct
    PROVE  Spec => ExeNeverReplaced
<1>1. CallInv /\ [Next]_vars => [ExeModulesStable]_vars
  BY NextCall
<1>. QED
  BY CallInvariant, <1>1, PTL DEF ExeNeverReplaced, Spec

=============================================================================
