----------------------------- MODULE CflagsProofs -----------------------------
(***************************************************************************)
(* Proof that only the custom cflags JSON brings -Wno-error or a disabled  *)
(* cflag into a generated module (CflagsSanitizedButCustom).               *)
(*                                                                         *)
(* The property is not inductive: the link and archive loops pool the     *)
(* cflags of objects (lines 403-409, 431-437) and the checks of lines 412  *)
(* and 439 look for disabled cflags only, so a pooled -Wno-error would    *)
(* go through.  The strengthening FlagsClean says that once the removal   *)
(* loop of lines 337-339 has run in this call, no entry of cc_flags holds *)
(* -Wno-error unless a custom entry added it in place (line 120).  The    *)
(* second call reloads cc_flags, -Wno-error included, but its phase is    *)
(* "flags" again until the removal loop has run once more.               *)
(***************************************************************************)
EXTENDS BuildGeneratorProofs

\* The flags no module may carry unless the custom cflags JSON adds them.
BadFlags == DisabledCflags \cup {WnoError}

ModuleClean(m) == m.cflags \cap BadFlags \subseteq CustomFlags

AllClean(f) == \A k \in DOMAIN f : ModuleClean(f[k])

\* After the removal loop of this call, -Wno-error is only a custom flag.
FlagsClean ==
    phase # "flags" =>
        \A x \in DOMAIN cc_flags :
            WnoError \in cc_flags[x] => WnoError \in CustomFlags

CleanInv == TypeOK /\ AllClean(bp) /\ FlagsClean

(* The flags of a custom entry are custom flags. *)
LEMMA CustomInCustomFlags ==
    ASSUME NEW t \in DOMAIN CustomCflags
    PROVE  CustomCflags[t] \subseteq CustomFlags
BY DEF CustomFlags

(* Storing a clean module keeps every module clean. *)
LEMMA SetKeyClean ==
    ASSUME NEW f, NEW k, NEW m, AllClean(f), ModuleClean(m)
    PROVE  AllClean(SetKey(f, k, m))
BY DEF AllClean, SetKey

(* An executable built from cflags with no disabled flag, and with        *)
(* -Wno-error only if it is a custom flag, is clean, and so is the entry  *)
(* of cc_flags that the compile-link path extends in place.               *)
LEMMA BuildExecutableClean ==
    ASSUME AllClean(bp), FlagsClean, phase' = phase,
           NEW t, NEW cflags, NEW incs, NEW libraries, NEW viaLink,
           cflags \cap DisabledCflags = {},
           WnoError \in cflags => WnoError \in CustomFlags,
           BuildExecutable(t, cflags, incs, libraries, viaLink)
    PROVE  AllClean(bp') /\ FlagsClean'
<1>. DEFINE custom == t \in DOMAIN CustomCflags
            flags  == IF custom THEN cflags \cup CustomCflags[t] ELSE cflags
<1>1. flags \cap BadFlags \subseteq CustomFlags
  <2>1. CASE custom
    BY <2>1, CustomInCustomFlags DEF BadFlags
  <2>2. CASE ~custom
    BY <2>2 DEF BadFlags
  <2>. QED
    BY <2>1, <2>2
<1>2. ASSUME custom, cc_flags' = [cc_flags EXCEPT ![t] = flags]
      PROVE  FlagsClean'
  BY <1>1, <1>2 DEF FlagsClean, BadFlags
<1>3. CASE UNCHANGED exeVars
  BY <1>3 DEF exeVars, FlagsClean
<1>4. CASE ExeCustomCrash(t, cflags, viaLink)
  <2>1. UNCHANGED bp
    BY <1>4 DEF ExeCustomCrash
  <2>2. FlagsClean'
    BY <1>2, <1>4 DEF ExeCustomCrash, FlagsClean
  <2>. QED
    BY <2>1, <2>2
<1>5. CASE ExeEmit(t, cflags, incs, libraries, viaLink)
  <2>. DEFINE static == libraries \cap LtpLibs
              shared == (libraries \ BionicBuiltinLibs) \ LtpLibs
              m      == MkModule("exe", t, flags, incs \ {DefaultInclude},
                                 static, shared)
  <2>1. bp' = SetKey(bp, <<"ltp", BaseName[t]>>, m)
    BY <1>5 DEF ExeEmit
  <2>2. ModuleClean(m)
    BY <1>1 DEF ModuleClean, MkModule
  <2>3. FlagsClean'
    BY <1>2, <1>5 DEF ExeEmit, FlagsClean
  <2>. QED
    BY <2>1, <2>2, <2>3, SetKeyClean
<1>. QED
  BY <1>3, <1>4, <1>5 DEF BuildExecutable

(* The pooled cflags of objects with a compile rule hold -Wno-error only  *)
(* as a custom flag, once the removal loop has run.                       *)
LEMMA CollectClean ==
    ASSUME TypeOK, FlagsClean, phase # "flags",
           NEW objs \in SUBSET DOMAIN cc_compile
    PROVE  WnoError \in Collect(cc_flags, objs) => WnoError \in CustomFlags
<1>1. objs \subseteq DOMAIN cc_flags
  BY DEF TypeOK, Rules, IsRuleTable
<1>. QED
  BY <1>1 DEF Collect, FlagsClean

(* A compile-link step builds a test only from cflags that passed the     *)
(* disabled-cflag check of line 386.                                      *)
LEMMA CompileLinkClean ==
    ASSUME CleanInv, NEW t \in todo, CompileLink(t)
    PROVE  AllClean(bp') /\ FlagsClean'
<1>1. CASE UNCHANGED <<loopFrame, exeVars>>
  BY <1>1 DEF loopFrame, exeVars, CleanInv, FlagsClean
<1>2. CASE UNCHANGED <<loopFrame, cc_flags, bp>>
  BY <1>2 DEF loopFrame, CleanInv, FlagsClean
<1>3. CASE /\ ~Excluded(cc_libraries[t], cc_flags[t])
           /\ BuildExecutable(t, cc_flags[t], cc_includes[t],
                              cc_libraries[t], FALSE)
           /\ UNCHANGED loopFrame
  <2>1. phase = "compilelink" /\ phase' = phase
    BY <1>3 DEF CompileLink, loopFrame
  <2>2. t \in DOMAIN cc_flags
    BY TodoInTable, <2>1 DEF CleanInv, TypeOK, Rules, IsRuleTable
  <2>3. WnoError \in cc_flags[t] => WnoError \in CustomFlags
    BY <2>1, <2>2 DEF CleanInv, FlagsClean
  <2>4. cc_flags[t] \cap DisabledCflags = {}
    BY <1>3 DEF Excluded
  <2>. QED
    BY <1>3, <2>1, <2>3, <2>4, BuildExecutableClean DEF CleanInv
<1>. QED
  BY <1>1, <1>2, <1>3 DEF CompileLink

(* A link step builds a test only from pooled cflags that passed the      *)
(* disabled-cflag check of line 412.                                      *)
LEMMA LinkClean ==
    ASSUME CleanInv, NEW t \in todo, Link(t)
    PROVE  AllClean(bp') /\ FlagsClean'
<1>. DEFINE objs == cc_link[t]
<1>1. CASE UNCHANGED <<loopFrame, exeVars>>
  BY <1>1 DEF loopFrame, exeVars, CleanInv, FlagsClean
<1>2. CASE UNCHANGED <<loopFrame, cc_flags, bp>>
  BY <1>2 DEF loopFrame, CleanInv, FlagsClean
<1>3. CASE /\ objs \subseteq DOMAIN cc_compile
           /\ ~Excluded(cc_libraries[t], Collect(cc_flags, objs))
           /\ BuildExecutable(t, Collect(cc_flags, objs),
                              Collect(cc_includes, objs),
                              cc_libraries[t], TRUE)
           /\ UNCHANGED loopFrame
  <2>1. phase = "link" /\ phase' = phase
    BY <1>3 DEF Link, loopFrame
  <2>2. WnoError \in Collect(cc_flags, objs) => WnoError \in CustomFlags
    BY <1>3, <2>1, CollectClean DEF CleanInv
  <2>3. Collect(cc_flags, objs) \cap DisabledCflags = {}
    BY <1>3 DEF Excluded
  <2>. QED
    BY <1>3, <2>1, <2>2, <2>3, BuildExecutableClean DEF CleanInv
<1>. QED
  BY <1>1, <1>2, <1>3 DEF Link

(* An archive is built only from pooled cflags that passed the            *)
(* disabled-cflag check of line 439.                                      *)
LEMMA ArClean ==
    ASSUME CleanInv, NEW a \in todo, Ar(a)
    PROVE  AllClean(bp') /\ FlagsClean'
<1>. DEFINE objs == ar[a]
            m    == MkModule("lib", a, Collect(cc_flags, objs),
                             Collect(cc_includes, objs), {}, {})
<1>1. UNCHANGED <<cc_flags, phase>>
  BY DEF Ar, loopFrame, exeVars
<1>2. FlagsClean'
  BY <1>1 DEF CleanInv, FlagsClean
<1>3. CASE UNCHANGED bp
  BY <1>2, <1>3 DEF CleanInv
<1>4. CASE /\ objs \subseteq DOMAIN cc_compile
           /\ Collect(cc_flags, objs) \cap DisabledCflags = {}
           /\ bp' = SetKey(bp, <<"libltp", ArLibName[a]>>, m)
  <2>1. phase = "ar"
    BY DEF Ar
  <2>2. WnoError \in Collect(cc_flags, objs) => WnoError \in CustomFlags
    BY <1>4, <2>1, CollectClean DEF CleanInv
  <2>3. ModuleClean(m)
    BY <1>4, <2>2 DEF ModuleClean, MkModule, BadFlags
  <2>. QED
    BY <1>2, <1>4, <2>3, SetKeyClean DEF CleanInv
<1>. QED
  BY <1>3, <1>4 DEF Ar, exeVars

(* An install step stores a script module, which has no cflags, or a     *)
(* prebuilt module outside bp.                                            *)
LEMMA InstallClean ==
    ASSUME CleanInv, NEW t \in todo, Install(t)
    PROVE  AllClean(bp') /\ FlagsClean'
<1>1. FlagsClean'
  BY DEF Install, CleanInv, FlagsClean, tables
<1>2. CASE UNCHANGED bp
  BY <1>1, <1>2 DEF CleanInv
<1>3. CASE BuildShellScript(t)
  <2>1. ModuleClean(MkModule("sh", t, {}, {}, {}, {}))
    BY DEF ModuleClean, MkModule
  <2>. QED
    BY <1>1, <1>3, <2>1, SetKeyClean DEF BuildShellScript, CleanInv
<1>. QED
  BY <1>2, <1>3 DEF Install, BuildPrebuiltBp

(* The removal loop of lines 337-339 drops -Wno-error from every entry.  *)
LEMMA RemoveWnoErrorClean ==
    ASSUME CleanInv, RemoveWnoError
    PROVE  AllClean(bp') /\ FlagsClean'
BY DEF RemoveWnoError, CleanInv, FlagsClean

(* The steps between the loops leave cc_flags and bp alone, and the end  *)
(* of the first call goes back to the phase before the removal loop.     *)
LEMMA QuietClean ==
    ASSUME CleanInv,
           \/ FilterIncludeDirs \/ NextLoop \/ FinishParseInput
           \/ UNCHANGED vars
    PROVE  AllClean(bp') /\ FlagsClean'
<1>1. UNCHANGED bp
  BY DEF FilterIncludeDirs, NextLoop, FinishParseInput, vars
<1>2. CASE FilterIncludeDirs \/ NextLoop
  <2>1. phase # "flags" /\ UNCHANGED cc_flags
    BY <1>2 DEF FilterIncludeDirs, NextLoop, LoopAfter, tables
  <2>2. FlagsClean'
    BY <2>1 DEF CleanInv, FlagsClean
  <2>. QED
    BY <1>1, <2>2 DEF CleanInv
<1>3. CASE FinishParseInput
  <2>1. CASE pass = 1
    BY <1>1, <1>3, <2>1 DEF FinishParseInput, CleanInv, FlagsClean
  <2>2. CASE pass # 1
    BY <1>1, <1>3, <2>2 DEF FinishParseInput, CleanInv, FlagsClean, tables
  <2>. QED
    BY <2>1, <2>2
<1>4. CASE UNCHANGED vars
  BY <1>4 DEF vars, tables, CleanInv, FlagsClean
<1>. QED
  BY <1>2, <1>3, <1>4

(* Every step keeps the strengthened invariant. *)
LEMMA NextClean == CleanInv /\ [Next]_vars => CleanInv'
<1> SUFFICES ASSUME CleanInv, [Next]_vars PROVE CleanInv'
  OBVIOUS
<1>1. TypeOK'
  BY NextTypeOK DEF CleanInv
<1>2. AllClean(bp') /\ FlagsClean'
  <2>1. CASE \E t \in todo : CompileLink(t)
    BY <2>1, CompileLinkClean
  <2>2. CASE \E t \in todo : Link(t)
    BY <2>2, LinkClean
  <2>3. CASE \E a \in todo : Ar(a)
    BY <2>3, ArClean
  <2>4. CASE \E t \in todo : Install(t)
    BY <2>4, InstallClean
  <2>5. CASE RemoveWnoError
    BY <2>5, RemoveWnoErrorClean
  <2>6. CASE FilterIncludeDirs \/ NextLoop \/ FinishParseInput
             \/ UNCHANGED vars
    BY <2>6, QuietClean
  <2>. QED
    BY <2>1, <2>2, <2>3, <2>4, <2>5, <2>6 DEF Next
<1>. QED
  BY <1>1, <1>2 DEF CleanInv

(***************************************************************************)
(* For every trace, policy and custom cflags JSON: a generated module     *)
(* carries -Wno-error or a disabled cflag only if the custom cflags JSON  *)
(* lists that flag.  -Wno-error is removed from cc_flags before any loop  *)
(* of a ParseInput call reads it (lines 337-339), even when the link and  *)
(* archive loops pool the cflags of many objects, and the checks of lines *)
(* 386, 412 and 439 keep out every disabled cflag the trace gives.        *)
(***************************************************************************)
THEOREM CflagsSanitizedButCustomSafe == Spec => []CflagsSanitizedButCustom
<1>1. Init => CleanInv
  BY InitTypeOK DEF Init, CleanInv, AllClean, FlagsClean, EmptyDict
<1>2. CleanInv => CflagsSanitizedButCustom
  BY DEF CleanInv, AllClean, ModuleClean, BadFlags, CflagsSanitizedButCustom
<1>. QED
  BY <1>1, <1>2, NextClean, PTL DEF Spec

=============================================================================
