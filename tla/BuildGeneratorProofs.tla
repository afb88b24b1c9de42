------------------------ MODULE BuildGeneratorProofs ------------------------
(***************************************************************************)
(* Proofs about BuildGenerator, for every value of the constants that      *)
(* satisfies ConstantsAssumption.                                          *)
(***************************************************************************)
EXTENDS BuildGenerator, TLAPS

(* A trace of Traces[p] loaded as the rule tables gives well-shaped tables. *)
LEMMA LoadedRulesOK ==
    ASSUME NEW p \in Passes, NEW r \in Traces[p], LoadRules(r)
    PROVE  IsRuleTable(Rules)
<1>1. IsRuleTable(r)
  BY ConstantsAssumption
<1>. QED
  BY <1>1 DEF LoadRules, Rules, IsRuleTable, IsTable

(* The union of a table's values over some of its keys stays in T. *)
LEMMA CollectType ==
    ASSUME NEW f, NEW T, NEW objs \in SUBSET DOMAIN f,
           \A o \in objs : f[o] \subseteq T
    PROVE  Collect(f, objs) \subseteq T
BY DEF Collect

LEMMA InitTypeOK == Init => TypeOK
<1> SUFFICES ASSUME Init PROVE TypeOK
  OBVIOUS
<1>1. IsRuleTable(Rules)
  BY LoadedRulesOK DEF Init, Passes
<1>2. DOMAIN EmptyDict = {} /\ EmptyDict \in [{} -> Module]
  BY DEF EmptyDict
<1>. QED
  BY <1>1, <1>2 DEF Init, TypeOK, Phases, LoopKeys, Passes

(***************************************************************************)
(* What BuildExecutable may change keeps its type, whichever of its three *)
(* outcomes the step takes: a duplicate base name, the custom-cflags      *)
(* crash, or the emitted module.                                          *)
(***************************************************************************)
LEMMA BuildExecutableType ==
    ASSUME TypeOK, NEW t \in File, NEW cflags \in SUBSET Flag,
           NEW incs \in SUBSET Dir, NEW libraries \in SUBSET Lib,
           NEW viaLink \in BOOLEAN,
           BuildExecutable(t, cflags, incs, libraries, viaLink)
    PROVE  /\ DOMAIN cc_flags' = DOMAIN cc_flags
           /\ \A x \in DOMAIN cc_flags' : cc_flags'[x] \subseteq Flag
           /\ status' \in {"running", "done"} \cup Errors
           /\ DOMAIN bp' \subseteq Key /\ bp' \in [DOMAIN bp' -> Module]
           /\ packages' \in Seq(Key)
           /\ unused' \subseteq DOMAIN CustomCflags
           /\ ltp_libs_used' \subseteq Lib
           /\ ltp_names_used' \subseteq Name
<1>. USE DEF TypeOK, Rules, IsRuleTable, IsTable
<1>1. BaseName[t] \in Name
  BY ConstantsAssumption
<1>2. CASE BaseName[t] \in ltp_names_used /\ UNCHANGED exeVars
  BY <1>2 DEF exeVars
<1>3. CASE ltp_names_used' = ltp_names_used \cup {BaseName[t]}
           /\ ExeCustomCrash(t, cflags, viaLink)
  <2>1. CustomCflags[t] \subseteq Flag
    BY <1>3, ConstantsAssumption DEF ExeCustomCrash
  <2>. QED
    BY <1>1, <1>3, <2>1 DEF ExeCustomCrash, Errors
<1>4. CASE ltp_names_used' = ltp_names_used \cup {BaseName[t]}
           /\ ExeEmit(t, cflags, incs, libraries, viaLink)
  <2>. DEFINE custom == t \in DOMAIN CustomCflags
              flags  == IF custom THEN cflags \cup CustomCflags[t] ELSE cflags
              static == libraries \cap LtpLibs
              shared == (libraries \ BionicBuiltinLibs) \ LtpLibs
              key    == <<"ltp", BaseName[t]>>
              m      == MkModule("exe", t, flags, incs \ {DefaultInclude},
                                 static, shared)
  <2>1. flags \subseteq Flag
    BY ConstantsAssumption
  <2>2. key \in Key
    BY <1>1 DEF Key
  <2>3. m \in Module
    BY <2>1 DEF MkModule, Module, Passes
  <2>4. bp' = SetKey(bp, key, m) /\ packages' = Append(packages, key)
        /\ ltp_libs_used' = ltp_libs_used \cup static
        /\ unused' = unused \ {t} /\ UNCHANGED status
        /\ cc_flags' = IF custom THEN [cc_flags EXCEPT ![t] = flags]
                       ELSE cc_flags
    BY <1>4 DEF ExeEmit
  <2>5. DOMAIN bp' \subseteq Key /\ bp' \in [DOMAIN bp' -> Module]
    <3>1. DOMAIN bp \subseteq Key /\ bp \in [DOMAIN bp -> Module]
      OBVIOUS
    <3>. QED
      BY <2>2, <2>3, <2>4, <3>1 DEF SetKey
  <2>6. packages' \in Seq(Key)
    BY <2>2, <2>4
  <2>7. cc_flags' = IF custom THEN [cc_flags EXCEPT ![t] = flags]
                    ELSE cc_flags
    BY <2>4
  <2>. QED
    BY <1>1, <1>4, <2>1, <2>4, <2>5, <2>6, <2>7
<1>. QED
  BY <1>2, <1>3, <1>4 DEF BuildExecutable

(***************************************************************************)
(* A step that keeps the tables other than cc_flags, the call and the      *)
(* loop, shrinks the loop's keys and gives the generator's state values    *)
(* of the right type keeps TypeOK.  Every loop iteration is such a step.   *)
(***************************************************************************)
LEMMA LoopStepType ==
    ASSUME TypeOK, todo' \subseteq todo,
           UNCHANGED <<ar, cc_link, cc_compile, cc_compilelink, cc_includes,
                       cc_libraries, install, pass, phase>>,
           DOMAIN cc_flags' = DOMAIN cc_flags,
           \A x \in DOMAIN cc_flags' : cc_flags'[x] \subseteq Flag,
           status' \in {"running", "done"} \cup Errors,
           DOMAIN bp' \subseteq Key, bp' \in [DOMAIN bp' -> Module],
           DOMAIN prebuilt' \subseteq Name,
           prebuilt' \in [DOMAIN prebuilt' -> Module],
           packages' \in Seq(Key),
           unused' \subseteq DOMAIN CustomCflags,
           ltp_libs_used' \subseteq Lib,
           ltp_names_used' \subseteq Name
    PROVE  TypeOK'
<1>1. IsRuleTable(Rules)'
  BY DEF TypeOK, Rules, IsRuleTable, IsTable
<1>2. todo' \subseteq LoopKeys(phase)'
  BY DEF TypeOK, LoopKeys
<1>. QED
  BY <1>1, <1>2 DEF TypeOK

(* A loop iteration that skips its key or ends the run in an exception   *)
(* keeps TypeOK.                                                          *)
LEMMA LoopSkipType ==
    ASSUME TypeOK, todo' \subseteq todo,
           UNCHANGED <<loopFrame, cc_flags, bp, packages, unused,
                       ltp_libs_used, ltp_names_used>>,
           status' \in {"running", "done"} \cup Errors
    PROVE  TypeOK'
<1>1. /\ DOMAIN bp \subseteq Key /\ bp \in [DOMAIN bp -> Module]
      /\ DOMAIN prebuilt \subseteq Name
      /\ prebuilt \in [DOMAIN prebuilt -> Module]
      /\ packages \in Seq(Key)
      /\ unused \subseteq DOMAIN CustomCflags
      /\ ltp_libs_used \subseteq Lib
      /\ ltp_names_used \subseteq Name
      /\ \A x \in DOMAIN cc_flags : cc_flags[x] \subseteq Flag
  BY DEF TypeOK, Rules, IsRuleTable, IsTable
<1>. QED
  BY <1>1, LoopStepType DEF loopFrame

(* A key of the running loop is a key of that loop's table. *)
LEMMA TodoInTable ==
    ASSUME TypeOK, NEW t \in todo
    PROVE  /\ phase = "compilelink" => t \in DOMAIN cc_compilelink
           /\ phase = "link" => t \in DOMAIN cc_link
           /\ phase = "ar" => t \in DOMAIN ar
           /\ phase = "install" => t \in DOMAIN install
BY DEF TypeOK, LoopKeys

(* The rule tables give a compile-link target a type-correct lookup. *)
LEMMA CompileLinkType ==
    ASSUME TypeOK, NEW t \in todo, CompileLink(t)
    PROVE  TypeOK'
<1>1. t \in DOMAIN cc_compilelink
  BY TodoInTable DEF CompileLink
<1>2. /\ t \in File
      /\ cc_flags[t] \subseteq Flag
      /\ cc_includes[t] \subseteq Dir
      /\ cc_libraries[t] \subseteq Lib
  BY <1>1 DEF TypeOK, Rules, IsRuleTable, IsTable
<1>3. todo' \subseteq todo
  BY DEF CompileLink
<1>4. CASE UNCHANGED <<loopFrame, exeVars>>
  <2>1. status' \in {"running", "done"} \cup Errors
    BY <1>4 DEF exeVars, TypeOK
  <2>. QED
    BY <1>3, <1>4, <2>1, LoopSkipType DEF exeVars
<1>5. CASE /\ status' = "MissingCompile"
           /\ UNCHANGED <<loopFrame, cc_flags, bp, packages, unused,
                          ltp_libs_used, ltp_names_used>>
  BY <1>3, <1>5, LoopSkipType DEF Errors
<1>6. CASE /\ BuildExecutable(t, cc_flags[t], cc_includes[t],
                              cc_libraries[t], FALSE)
           /\ UNCHANGED loopFrame
  <2>1. /\ DOMAIN prebuilt \subseteq Name
        /\ prebuilt \in [DOMAIN prebuilt -> Module]
    BY DEF TypeOK
  <2>. QED
    BY <1>2, <1>3, <1>6, <2>1, BuildExecutableType, LoopStepType
       DEF loopFrame
<1>. QED
  BY <1>4, <1>5, <1>6 DEF CompileLink

(* A linked test pools the cflags and include dirs of objects that all    *)
(* have a compile rule, so the pools are flags and dirs.                  *)
LEMMA LinkType ==
    ASSUME TypeOK, NEW t \in todo, Link(t)
    PROVE  TypeOK'
<1>. DEFINE objs == cc_link[t]
<1>1. t \in DOMAIN cc_link
  BY TodoInTable DEF Link
<1>2. /\ t \in File
      /\ cc_libraries[t] \subseteq Lib
  BY <1>1 DEF TypeOK, Rules, IsRuleTable, IsTable
<1>3. todo' \subseteq todo
  BY DEF Link
<1>4. CASE UNCHANGED <<loopFrame, exeVars>>
  <2>1. status' \in {"running", "done"} \cup Errors
    BY <1>4 DEF exeVars, TypeOK
  <2>. QED
    BY <1>3, <1>4, <2>1, LoopSkipType DEF exeVars
<1>5. CASE /\ status' = "MissingCompile"
           /\ UNCHANGED <<loopFrame, cc_flags, bp, packages, unused,
                          ltp_libs_used, ltp_names_used>>
  BY <1>3, <1>5, LoopSkipType DEF Errors
<1>6. CASE /\ objs \subseteq DOMAIN cc_compile
           /\ BuildExecutable(t, Collect(cc_flags, objs),
                              Collect(cc_includes, objs),
                              cc_libraries[t], TRUE)
           /\ UNCHANGED loopFrame
  <2>1. /\ objs \subseteq DOMAIN cc_flags
        /\ objs \subseteq DOMAIN cc_includes
        /\ \A o \in objs : cc_flags[o] \subseteq Flag
        /\ \A o \in objs : cc_includes[o] \subseteq Dir
    BY <1>6 DEF TypeOK, Rules, IsRuleTable, IsTable
  <2>2. Collect(cc_flags, objs) \subseteq Flag
    BY <2>1, CollectType
  <2>3. Collect(cc_includes, objs) \subseteq Dir
    BY <2>1, CollectType
  <2>4. /\ DOMAIN prebuilt \subseteq Name
        /\ prebuilt \in [DOMAIN prebuilt -> Module]
    BY DEF TypeOK
  <2>. QED
    BY <1>2, <1>3, <1>6, <2>2, <2>3, <2>4, BuildExecutableType,
       LoopStepType DEF loopFrame
<1>. QED
  BY <1>4, <1>5, <1>6 DEF Link

(* A kept archive becomes a 'libltp_' module of the pooled flags and dirs. *)
LEMMA ArType ==
    ASSUME TypeOK, NEW a \in todo, Ar(a)
    PROVE  TypeOK'
<1>. DEFINE objs == ar[a]
            key  == <<"libltp", ArLibName[a]>>
<1>1. a \in DOMAIN ar
  BY TodoInTable DEF Ar
<1>2. a \in File /\ key \in Key
  BY <1>1, ConstantsAssumption DEF TypeOK, Rules, IsRuleTable, IsTable, Key
<1>3. todo' \subseteq todo
  BY DEF Ar
<1>4. CASE UNCHANGED <<loopFrame, exeVars>>
  <2>1. status' \in {"running", "done"} \cup Errors
    BY <1>4 DEF exeVars, TypeOK
  <2>. QED
    BY <1>3, <1>4, <2>1, LoopSkipType DEF exeVars
<1>5. CASE /\ status' = "MissingCompile"
           /\ UNCHANGED <<loopFrame, cc_flags, bp, packages, unused,
                          ltp_libs_used, ltp_names_used>>
  BY <1>3, <1>5, LoopSkipType DEF Errors
<1>6. CASE /\ objs \subseteq DOMAIN cc_compile
           /\ bp' = SetKey(bp, key, MkModule("lib", a, Collect(cc_flags, objs),
                                             Collect(cc_includes, objs),
                                             {}, {}))
           /\ UNCHANGED <<loopFrame, cc_flags, packages, unused,
                          ltp_libs_used, ltp_names_used, status>>
  <2>1. /\ objs \subseteq DOMAIN cc_flags
        /\ objs \subseteq DOMAIN cc_includes
        /\ \A o \in objs : cc_flags[o] \subseteq Flag
        /\ \A o \in objs : cc_includes[o] \subseteq Dir
    BY <1>6 DEF TypeOK, Rules, IsRuleTable, IsTable
  <2>2. Collect(cc_flags, objs) \subseteq Flag
    BY <2>1, CollectType
  <2>3. Collect(cc_includes, objs) \subseteq Dir
    BY <2>1, CollectType
  <2>4. MkModule("lib", a, Collect(cc_flags, objs),
                 Collect(cc_includes, objs), {}, {}) \in Module
    BY <1>2, <2>2, <2>3 DEF TypeOK, MkModule, Module
  <2>5. DOMAIN bp' \subseteq Key /\ bp' \in [DOMAIN bp' -> Module]
    BY <1>2, <1>6, <2>4 DEF TypeOK, SetKey
  <2>6. /\ DOMAIN prebuilt \subseteq Name
        /\ prebuilt \in [DOMAIN prebuilt -> Module]
        /\ packages \in Seq(Key)
        /\ unused \subseteq DOMAIN CustomCflags
        /\ ltp_libs_used \subseteq Lib
        /\ ltp_names_used \subseteq Name
        /\ status \in {"running", "done"} \cup Errors
        /\ \A x \in DOMAIN cc_flags : cc_flags[x] \subseteq Flag
    BY DEF TypeOK, Rules, IsRuleTable, IsTable
  <2>. QED
    BY <1>3, <1>6, <2>5, <2>6, LoopStepType DEF loopFrame
<1>. QED
  BY <1>4, <1>5, <1>6 DEF Ar

(* An installed file becomes a shell-script module or a prebuilt module. *)
LEMMA InstallType ==
    ASSUME TypeOK, NEW t \in todo, Install(t)
    PROVE  TypeOK'
<1>1. t \in DOMAIN install
  BY TodoInTable DEF Install
<1>2. /\ t \in File
      /\ <<"ltp", FlatName[t]>> \in Key
      /\ BaseName[t] \in Name
      /\ MkModule("sh", t, {}, {}, {}, {}) \in Module
      /\ MkModule("prebuilt", t, {}, {}, {}, {}) \in Module
  BY <1>1, ConstantsAssumption
     DEF TypeOK, Rules, IsRuleTable, IsTable, Key, MkModule, Module
<1>3. todo' \subseteq todo
  BY DEF Install
<1>. DEFINE GenOK == /\ DOMAIN bp \subseteq Key /\ bp \in [DOMAIN bp -> Module]
                    /\ DOMAIN prebuilt \subseteq Name
                    /\ prebuilt \in [DOMAIN prebuilt -> Module]
                    /\ packages \in Seq(Key)
                    /\ status \in {"running", "done"} \cup Errors
<1>4. GenOK'
  <2>1. GenOK
    BY DEF TypeOK
  <2>2. CASE UNCHANGED <<status, bp, prebuilt, packages>>
    BY <2>1, <2>2
  <2>3. CASE status' = "AssertionError" /\ UNCHANGED <<bp, prebuilt, packages>>
    BY <2>1, <2>3 DEF Errors
  <2>4. CASE BuildShellScript(t) /\ UNCHANGED status
    BY <1>2, <2>1, <2>4 DEF BuildShellScript, SetKey
  <2>5. CASE BuildPrebuiltBp(t) /\ UNCHANGED status
    BY <1>2, <2>1, <2>5 DEF BuildPrebuiltBp, SetKey
  <2>. QED
    BY <2>2, <2>3, <2>4, <2>5 DEF Install
<1>5. /\ unused' \subseteq DOMAIN CustomCflags
      /\ ltp_libs_used' \subseteq Lib
      /\ ltp_names_used' \subseteq Name
      /\ DOMAIN cc_flags' = DOMAIN cc_flags
      /\ \A x \in DOMAIN cc_flags' : cc_flags'[x] \subseteq Flag
  BY DEF Install, tables, TypeOK, Rules, IsRuleTable, IsTable
<1>6. UNCHANGED <<ar, cc_link, cc_compile, cc_compilelink, cc_includes,
                  cc_libraries, install, pass, phase>>
  BY DEF Install, tables
<1>. QED
  BY <1>3, <1>4, <1>5, <1>6, LoopStepType

(* Dropping -Wno-error keeps every cflags entry a set of flags. *)
LEMMA RemoveWnoErrorType == TypeOK /\ RemoveWnoError => TypeOK'
BY DEF TypeOK, RemoveWnoError, Rules, IsRuleTable, IsTable, LoopKeys, Phases

(* Filtering the include dirs keeps them dirs and starts the compile-link  *)
(* loop on the keys of its table.                                          *)
LEMMA FilterIncludeDirsType == TypeOK /\ FilterIncludeDirs => TypeOK'
BY DEF TypeOK, FilterIncludeDirs, Rules, IsRuleTable, IsTable, LoopKeys,
       Phases

(* Starting the next loop visits the keys of that loop's table. *)
LEMMA NextLoopType == TypeOK /\ NextLoop => TypeOK'
<1> SUFFICES ASSUME TypeOK, NextLoop PROVE TypeOK'
  OBVIOUS
<1>1. phase' \in Phases /\ todo' \subseteq LoopKeys(phase)'
  <2>1. CASE phase = "compilelink"
    <3>1. phase' = "link" /\ todo' = DOMAIN cc_link /\ cc_link' = cc_link
      BY <2>1 DEF NextLoop, LoopAfter, LoopKeys, tables
    <3>. QED
      BY <3>1 DEF LoopKeys, Phases
  <2>2. CASE phase = "link"
    <3>1. phase' = "ar" /\ todo' = DOMAIN ar /\ ar' = ar
      BY <2>2 DEF NextLoop, LoopAfter, LoopKeys, tables
    <3>. QED
      BY <3>1 DEF LoopKeys, Phases
  <2>3. CASE phase = "ar"
    <3>1. phase' = "install" /\ todo' = DOMAIN install /\ install' = install
      BY <2>3 DEF NextLoop, LoopAfter, LoopKeys, tables
    <3>. QED
      BY <3>1 DEF LoopKeys, Phases
  <2>. QED
    BY <2>1, <2>2, <2>3 DEF NextLoop, LoopAfter
<1>. QED
  BY <1>1 DEF TypeOK, NextLoop, tables, Rules, IsRuleTable, IsTable

(* The second ParseInput call gets well-shaped rules and fresh trackers;  *)
(* the end of the second call changes only the status.                    *)
LEMMA FinishParseInputType == TypeOK /\ FinishParseInput => TypeOK'
<1> SUFFICES ASSUME TypeOK, FinishParseInput PROVE TypeOK'
  OBVIOUS
<1>1. CASE pass = 1
  <2>1. PICK r \in Traces[2] : ReloadRules(r)
    BY <1>1 DEF FinishParseInput
  <2>2. IsRuleTable(r)
    BY ConstantsAssumption DEF Passes
  <2>3. IsRuleTable(Rules)'
    BY <2>1, <2>2 DEF ReloadRules, Rules, IsRuleTable, IsTable
  <2>. QED
    BY <1>1, <2>3 DEF TypeOK, FinishParseInput, LoopKeys, Phases, Passes
<1>2. CASE pass = 2
  BY <1>2 DEF TypeOK, FinishParseInput, tables, Rules, IsRuleTable, IsTable,
              LoopKeys
<1>. QED
  BY <1>1, <1>2 DEF TypeOK, Passes

(* Every step of the specification keeps TypeOK. *)
LEMMA NextTypeOK == TypeOK /\ [Next]_vars => TypeOK'
<1> SUFFICES ASSUME TypeOK, [Next]_vars PROVE TypeOK'
  OBVIOUS
<1>1. CASE UNCHANGED vars
  BY <1>1 DEF vars, tables, TypeOK, Rules, IsRuleTable, IsTable, LoopKeys
<1>. QED
  BY <1>1, RemoveWnoErrorType, FilterIncludeDirsType, CompileLinkType,
     LinkType, ArType, InstallType, NextLoopType, FinishParseInputType
     DEF Next

(***************************************************************************)
(* Type correctness of the resolution engine: in every state of every run *)
(* of ParseAll, for every trace shape ConstantsAssumption allows, the rule *)
(* tables keep the parser's shape, each loop visits only keys of its own   *)
(* table, and the module tables, the umbrella list and the trackers hold   *)
(* values of their types.                                                  *)
(***************************************************************************)
THEOREM TypeCorrect == Spec => []TypeOK
BY InitTypeOK, NextTypeOK, PTL DEF Spec

-----------------------------------------------------------------------------
(***************************************************************************)
(* The exclusion policy.  ExclusionRespected is not inductive by itself:   *)
(* an archive's module is built when its library is in ltp_libs_used      *)
(* (line 422), so the proof needs that ltp_libs_used holds no disabled     *)
(* library, which holds because BuildExecutable only marks the libraries  *)
(* of a test that passed the disabled-library check (lines 384, 410).     *)
(***************************************************************************)
\* The exclusion condition on one module.
ModuleOK(m) ==
    /\ m.kind = "exe" => /\ BaseName[m.target] \notin DisabledTests
                         /\ (m.static \cup m.shared) \cap DisabledLibs = {}
    /\ m.kind = "lib" => ArLibName[m.target] \notin DisabledLibs
    /\ m.kind = "sh" => InstallAllowed(m.target)

AllModulesOK(f) == \A k \in DOMAIN f : ModuleOK(f[k])

PrebuiltOK == \A b \in DOMAIN prebuilt : InstallAllowed(prebuilt[b].target)

LibsUsedOK == ltp_libs_used \cap DisabledLibs = {}

ExclInv == TypeOK /\ AllModulesOK(bp) /\ LibsUsedOK /\ PrebuiltOK

(* ExclusionRespected says that every module of bp meets the condition. *)
LEMMA ExclusionByModule ==
    ExclusionRespected <=> AllModulesOK(bp) /\ PrebuiltOK
BY DEF ExclusionRespected, AllModulesOK, ModuleOK, ModulesOf, PrebuiltOK

(* Storing a module that meets the condition keeps every module meeting it. *)
LEMMA SetKeyModulesOK ==
    ASSUME NEW f, NEW k, NEW m, AllModulesOK(f), ModuleOK(m)
    PROVE  AllModulesOK(SetKey(f, k, m))
BY DEF AllModulesOK, SetKey

(* An executable that passed the name and library checks is emitted with  *)
(* allowed libraries only, and marks only allowed libraries used.         *)
LEMMA BuildExecutableExcl ==
    ASSUME TypeOK, AllModulesOK(bp), LibsUsedOK,
           NEW t \in File, NEW cflags, NEW incs,
           NEW libraries \in SUBSET Lib, NEW viaLink,
           BaseName[t] \notin DisabledTests,
           libraries \cap DisabledLibs = {},
           BuildExecutable(t, cflags, incs, libraries, viaLink)
    PROVE  AllModulesOK(bp') /\ LibsUsedOK'
<1>1. CASE UNCHANGED exeVars
  BY <1>1 DEF exeVars, LibsUsedOK
<1>2. CASE ExeCustomCrash(t, cflags, viaLink)
  BY <1>2 DEF ExeCustomCrash, LibsUsedOK
<1>3. CASE ExeEmit(t, cflags, incs, libraries, viaLink)
  <2>. DEFINE custom == t \in DOMAIN CustomCflags
              flags  == IF custom THEN cflags \cup CustomCflags[t] ELSE cflags
              static == libraries \cap LtpLibs
              shared == (libraries \ BionicBuiltinLibs) \ LtpLibs
              m      == MkModule("exe", t, flags, incs \ {DefaultInclude},
                                 static, shared)
  <2>1. ModuleOK(m)
    BY DEF ModuleOK, MkModule
  <2>2. bp' = SetKey(bp, <<"ltp", BaseName[t]>>, m)
        /\ ltp_libs_used' = ltp_libs_used \cup static
    BY <1>3 DEF ExeEmit
  <2>. QED
    BY <2>1, <2>2, SetKeyModulesOK DEF LibsUsedOK
<1>. QED
  BY <1>1, <1>2, <1>3 DEF BuildExecutable

(* A compile-link or link step keeps the condition: the test it builds    *)
(* passed the name check and the library check just before.              *)
LEMMA ExeLoopExcl ==
    ASSUME ExclInv, NEW t \in todo, CompileLink(t) \/ Link(t)
    PROVE  AllModulesOK(bp') /\ LibsUsedOK'
<1>. USE DEF ExclInv
<1>1. CASE UNCHANGED <<bp, ltp_libs_used>>
  BY <1>1 DEF LibsUsedOK
<1>2. CASE CompileLink(t) /\ ~UNCHANGED <<bp, ltp_libs_used>>
  <2>1. t \in DOMAIN cc_compilelink
    BY <1>2, TodoInTable DEF CompileLink
  <2>2. t \in File /\ cc_libraries[t] \subseteq Lib
    BY <2>1 DEF TypeOK, Rules, IsRuleTable, IsTable
  <2>3. /\ BaseName[t] \notin DisabledTests
        /\ ~Excluded(cc_libraries[t], cc_flags[t])
        /\ BuildExecutable(t, cc_flags[t], cc_includes[t],
                           cc_libraries[t], FALSE)
    BY <1>2 DEF CompileLink, loopFrame, exeVars
  <2>. QED
    BY <2>2, <2>3, BuildExecutableExcl DEF Excluded
<1>3. CASE Link(t) /\ ~UNCHANGED <<bp, ltp_libs_used>>
  <2>1. t \in DOMAIN cc_link
    BY <1>3, TodoInTable DEF Link
  <2>2. t \in File /\ cc_libraries[t] \subseteq Lib
    BY <2>1 DEF TypeOK, Rules, IsRuleTable, IsTable
  <2>3. /\ BaseName[t] \notin DisabledTests
        /\ ~Excluded(cc_libraries[t], Collect(cc_flags, cc_link[t]))
        /\ BuildExecutable(t, Collect(cc_flags, cc_link[t]),
                           Collect(cc_includes, cc_link[t]),
                           cc_libraries[t], TRUE)
    BY <1>3 DEF Link, loopFrame, exeVars
  <2>. QED
    BY <2>2, <2>3, BuildExecutableExcl DEF Excluded
<1>. QED
  BY <1>1, <1>2, <1>3

(* A static library is built only for a library in ltp_libs_used, which  *)
(* holds no disabled library.                                              *)
LEMMA ArExcl ==
    ASSUME ExclInv, NEW a \in todo, Ar(a)
    PROVE  AllModulesOK(bp') /\ LibsUsedOK'
<1>1. CASE UNCHANGED bp
  BY <1>1 DEF Ar, ExclInv, LibsUsedOK, exeVars
<1>2. CASE ~UNCHANGED bp
  <2>. DEFINE m == MkModule("lib", a, Collect(cc_flags, ar[a]),
                            Collect(cc_includes, ar[a]), {}, {})
  <2>1. ArUsed(a) /\ bp' = SetKey(bp, <<"libltp", ArLibName[a]>>, m)
    BY <1>2 DEF Ar, exeVars
  <2>2. ModuleOK(m)
    BY <2>1 DEF ArUsed, ExclInv, LibsUsedOK, ModuleOK, MkModule
  <2>3. UNCHANGED ltp_libs_used
    BY <1>2 DEF Ar, exeVars
  <2>4. AllModulesOK(bp)
    BY DEF ExclInv
  <2>. QED
    BY <2>1, <2>2, <2>3, <2>4, SetKeyModulesOK DEF ExclInv, LibsUsedOK
<1>. QED
  BY <1>1, <1>2

(* An installed file adds a shell-script module only for a target that    *)
(* passed the disabled-test check, or a prebuilt module, which is not in  *)
(* bp.                                                                     *)
LEMMA InstallExcl ==
    ASSUME ExclInv, NEW t \in todo, Install(t)
    PROVE  AllModulesOK(bp') /\ LibsUsedOK'
<1>1. CASE UNCHANGED bp
  BY <1>1 DEF Install, ExclInv, LibsUsedOK
<1>2. CASE InstallAllowed(t) /\ BuildShellScript(t)
  <2>1. ModuleOK(MkModule("sh", t, {}, {}, {}, {}))
    BY <1>2 DEF ModuleOK, MkModule
  <2>. QED
    BY <1>2, <2>1, SetKeyModulesOK
       DEF BuildShellScript, Install, ExclInv, LibsUsedOK
<1>. QED
  BY <1>1, <1>2 DEF Install, BuildPrebuiltBp, InstallAllowed

(* An installed prebuilt passed the disabled-test check of line 451, and *)
(* no other step writes the prebuilt store.                              *)
LEMMA PrebuiltExcl ==
    ASSUME ExclInv, [Next]_vars
    PROVE  PrebuiltOK'
<1>1. CASE \E t \in todo : Install(t) /\ BuildPrebuiltBp(t)
  <2>1. PICK t \in todo : Install(t) /\ BuildPrebuiltBp(t)
    BY <1>1
  <2>2. InstallAllowed(t)
    BY <2>1 DEF Install, BuildPrebuiltBp, InstallAllowed
  <2>3. prebuilt' = SetKey(prebuilt, BaseName[t],
                           MkModule("prebuilt", t, {}, {}, {}, {}))
    BY <2>1 DEF BuildPrebuiltBp
  <2>. QED
    BY <2>2, <2>3 DEF ExclInv, PrebuiltOK, SetKey, MkModule
<1>2. CASE ~\E t \in todo : Install(t) /\ BuildPrebuiltBp(t)
  <2>1. UNCHANGED prebuilt
    <3>1. CASE \E t \in todo : Install(t)
      BY <1>2, <3>1 DEF Install, BuildShellScript
    <3>2. CASE ~\E t \in todo : Install(t)
      BY <3>2 DEF Next, vars, RemoveWnoError, FilterIncludeDirs, CompileLink,
                  Link, Ar, NextLoop, FinishParseInput, loopFrame
    <3>. QED
      BY <3>1, <3>2
  <2>. QED
    BY <2>1 DEF ExclInv, PrebuiltOK
<1>. QED
  BY <1>1, <1>2

(* Every step keeps the strengthened invariant. *)
LEMMA NextExcl == ExclInv /\ [Next]_vars => ExclInv'
<1> SUFFICES ASSUME ExclInv, [Next]_vars PROVE ExclInv'
  OBVIOUS
<1>1. TypeOK'
  BY NextTypeOK DEF ExclInv
<1>2. AllModulesOK(bp') /\ LibsUsedOK'
  <2>1. CASE \E t \in todo : CompileLink(t) \/ Link(t)
    BY <2>1, ExeLoopExcl
  <2>2. CASE \E a \in todo : Ar(a)
    BY <2>2, ArExcl
  <2>3. CASE \E t \in todo : Install(t)
    BY <2>3, InstallExcl
  <2>4. CASE RemoveWnoError \/ FilterIncludeDirs \/ NextLoop
             \/ FinishParseInput \/ UNCHANGED vars
    BY <2>4 DEF RemoveWnoError, FilterIncludeDirs, NextLoop,
                FinishParseInput, vars, ExclInv, LibsUsedOK
  <2>. QED
    BY <2>1, <2>2, <2>3, <2>4 DEF Next
<1>3. PrebuiltOK'
  BY PrebuiltExcl
<1>. QED
  BY <1>1, <1>2, <1>3 DEF ExclInv

(***************************************************************************)
(* The exclusion policy holds for every trace and every policy file: no    *)
(* generated executable is a disabled test or links a disabled library,   *)
(* and no static library of a disabled library is generated, although the *)
(* archive loop (lines 419-447) never reads disabled_libs itself.         *)
(***************************************************************************)
THEOREM ExclusionSafe == Spec => []ExclusionRespected
<1>1. Init => ExclInv
  BY InitTypeOK DEF Init, ExclInv, AllModulesOK, LibsUsedOK, PrebuiltOK,
                    EmptyDict
<1>2. ExclInv => ExclusionRespected
  BY ExclusionByModule DEF ExclInv
<1>. QED
  BY <1>1, <1>2, NextExcl, PTL DEF Spec

=============================================================================
