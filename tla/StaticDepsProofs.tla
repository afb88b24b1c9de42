-------------------------- MODULE StaticDepsProofs --------------------------
(***************************************************************************)
(* Proof that the disabled-cflag skip of the archive loop is the only way  *)
(* a static_libs entry of a generated test dangles                         *)
(* (StaticDepsBuiltOrCflagSkipped).                                        *)
(*                                                                         *)
(* The property speaks of the install loop only; while the archive loop   *)
(* runs, a library a test lists may also have an archive still to visit.  *)
(* The archive loop starts over every archive of the trace, and a test    *)
(* lists only libraries of those archives (line 164), so every library a  *)
(* test of the call lists has an archive to visit when the loop starts;   *)
(* when it visits one, ltp_libs_used names the library (TrackersAgree),   *)
(* so the archive is built, dropped for a cflag, or the run dies.          *)
(***************************************************************************)
EXTENDS BuildGeneratorCallProofs

\* Archive a was dropped by the disabled-cflag check of line 439.
CflagSkipped(a) == Collect(cc_flags, ar[a]) \cap DisabledCflags # {}

\* Library l is built, or one of its archives is still to visit or was
\* dropped for a cflag.
Accounted(l) ==
    \/ <<"libltp", l>> \in DOMAIN bp
    \/ \E a \in DOMAIN ar :
          /\ ArLibName[a] = l
          /\ \/ phase = "ar" /\ a \in todo
             \/ CflagSkipped(a)

DepsInv ==
    Healthy =>
        /\ \A e \in ExesOfThisCall : bp[e].static \subseteq LtpLibs
        /\ phase \in {"ar", "install"} =>
              \A e \in ExesOfThisCall : \A l \in bp[e].static : Accounted(l)

(* Storing a module that is not a test keeps the tests of this call and   *)
(* every name.                                                             *)
LEMMA StoreNonExe ==
    ASSUME NEW k, NEW m, bp' = SetKey(bp, k, m), pass' = pass, m.kind # "exe"
    PROVE  /\ ExesOfThisCall' \subseteq ExesOfThisCall
           /\ \A e \in ExesOfThisCall' : bp'[e] = bp[e]
           /\ DOMAIN bp \subseteq DOMAIN bp'
BY DEF SetKey, ExesOfThisCall, ModulesOf

(* Storing a test whose static libraries are archives of this trace keeps *)
(* every test of this call listing archives of this trace only.           *)
LEMMA StoreStaticInTrace ==
    ASSUME NEW k, NEW m, bp' = SetKey(bp, k, m), pass' = pass,
           LtpLibs' = LtpLibs,
           m.static \subseteq LtpLibs,
           \A e \in ExesOfThisCall : bp[e].static \subseteq LtpLibs
    PROVE  \A e \in ExesOfThisCall' : bp'[e].static \subseteq LtpLibs'
BY DEF SetKey, ExesOfThisCall, ModulesOf

(* A step that ends the run with an exception keeps DepsInv. *)
LEMMA DepsError ==
    ASSUME status' \in Errors
    PROVE  DepsInv'
BY DEF DepsInv, Healthy, Errors

(* Once the install loop runs, every library a test of this call lists is *)
(* built or dropped for a cflag.                                           *)
LEMMA DepsProperty ==
    ASSUME DepsInv
    PROVE  StaticDepsBuiltOrCflagSkipped
BY DEF DepsInv, StaticDepsBuiltOrCflagSkipped, Accounted, CflagSkipped

(* No test exists at the start, so there is nothing to account for. *)
LEMMA DepsInit ==
    ASSUME Init
    PROVE  DepsInv
<1>1. ExesOfThisCall = {}
  BY DEF Init, EmptyDict, ExesOfThisCall, ModulesOf
<1>. QED
  BY <1>1 DEF DepsInv

(* BuildExecutable stores nothing, or a test listing as static libraries  *)
(* only archives of this trace (static = libraries & ltp_libs, line 164). *)
LEMMA BuildExecutableStore ==
    ASSUME NEW t, NEW cflags, NEW incs, NEW libraries, NEW viaLink,
           BuildExecutable(t, cflags, incs, libraries, viaLink)
    PROVE  \/ UNCHANGED bp
           \/ \E m : /\ bp' = SetKey(bp, <<"ltp", BaseName[t]>>, m)
                     /\ m.static \subseteq LtpLibs
<1>1. CASE ExeEmit(t, cflags, incs, libraries, viaLink)
  <2>. DEFINE flags == IF t \in DOMAIN CustomCflags
                       THEN cflags \cup CustomCflags[t] ELSE cflags
              m == MkModule("exe", t, flags, incs \ {DefaultInclude},
                            libraries \cap LtpLibs,
                            (libraries \ BionicBuiltinLibs) \ LtpLibs)
  <2>1. bp' = SetKey(bp, <<"ltp", BaseName[t]>>, m)
    BY <1>1 DEF ExeEmit
  <2>2. m.static \subseteq LtpLibs
    BY DEF MkModule
  <2>. QED
    BY <2>1, <2>2
<1>2. CASE ~ExeEmit(t, cflags, incs, libraries, viaLink)
  BY <1>2 DEF BuildExecutable, ExeCustomCrash, exeVars
<1>. QED
  BY <1>1, <1>2

(* The executable loops store nothing or such a test, in a phase before   *)
(* the archive loop.                                                       *)
LEMMA DepsExeLoop ==
    ASSUME DepsInv, NEW t \in todo, CompileLink(t) \/ Link(t)
    PROVE  DepsInv'
<1>1. /\ phase \in {"compilelink", "link"}
      /\ UNCHANGED <<phase, pass, ar>>
  BY DEF CompileLink, Link, loopFrame
<1>2. LtpLibs' = LtpLibs
  BY <1>1 DEF LtpLibs
<1>3. \/ UNCHANGED bp
      \/ \E m : /\ bp' = SetKey(bp, <<"ltp", BaseName[t]>>, m)
                /\ m.static \subseteq LtpLibs
  <2>1. CASE BuildExecutable(t, cc_flags[t], cc_includes[t],
                             cc_libraries[t], FALSE)
    BY <2>1, BuildExecutableStore
  <2>2. CASE BuildExecutable(t, Collect(cc_flags, cc_link[t]),
                             Collect(cc_includes, cc_link[t]),
                             cc_libraries[t], TRUE)
    BY <2>2, BuildExecutableStore
  <2>. QED
    BY <2>1, <2>2 DEF CompileLink, Link, loopFrame, exeVars
<1>4. Healthy => \A e \in ExesOfThisCall : bp[e].static \subseteq LtpLibs
  BY DEF DepsInv
<1>5. Healthy' => Healthy
  BY DEF CompileLink, Link, Healthy
<1>6. Healthy' => \A e \in ExesOfThisCall' : bp'[e].static \subseteq LtpLibs'
  <2>1. CASE UNCHANGED bp
    BY <1>1, <1>2, <1>4, <1>5, <2>1 DEF ExesOfThisCall, ModulesOf
  <2>2. CASE \E m : /\ bp' = SetKey(bp, <<"ltp", BaseName[t]>>, m)
                    /\ m.static \subseteq LtpLibs
    BY <1>1, <1>2, <1>4, <1>5, <2>2, StoreStaticInTrace
  <2>. QED
    BY <1>3, <2>1, <2>2
<1>. QED
  BY <1>1, <1>6 DEF DepsInv

(***************************************************************************)
(* The archive loop visits archive a.  A library a test of this call      *)
(* lists is in ltp_libs_used (TrackersAgree), so if a was the archive     *)
(* left to visit for it, a passes the check of line 422 and is built or   *)
(* dropped for a cflag (or the run dies); every other account stands, as  *)
(* the step keeps the tests, the names, the cflags and the other archives *)
(* still to visit.                                                         *)
(***************************************************************************)
LEMMA DepsAr ==
    ASSUME CallInv, DepsInv, NEW a \in todo, Ar(a)
    PROVE  DepsInv'
<1>. DEFINE key == <<"libltp", ArLibName[a]>>
<1>1. /\ status = "running" /\ phase = "ar"
      /\ UNCHANGED <<phase, pass, ar, cc_flags>>
      /\ todo' = todo \ {a}
  BY DEF Ar, loopFrame, exeVars
<1>2. LtpLibs' = LtpLibs /\ \A x : CflagSkipped(x)' = CflagSkipped(x)
  BY <1>1 DEF LtpLibs, CflagSkipped
<1>3. CASE status' = "MissingCompile"
  BY <1>3, DepsError DEF Errors
<1>4. CASE status' # "MissingCompile"
  <2>1. /\ UNCHANGED bp \/ \E m : bp' = SetKey(bp, key, m) /\ m.kind = "lib"
        /\ ~ArUsed(a) \/ CflagSkipped(a) \/ key \in DOMAIN bp'
    <3>1. CASE ArUsed(a) /\ ~CflagSkipped(a)
      <4>. DEFINE m == MkModule("lib", a, Collect(cc_flags, ar[a]),
                                Collect(cc_includes, ar[a]), {}, {})
      <4>1. bp' = SetKey(bp, key, m) /\ m.kind = "lib"
        BY <1>4, <3>1 DEF Ar, CflagSkipped, MkModule
      <4>. QED
        BY <4>1 DEF SetKey
    <3>2. CASE ~(ArUsed(a) /\ ~CflagSkipped(a))
      BY <1>4, <3>2 DEF Ar, loopFrame, exeVars, CflagSkipped
    <3>. QED
      BY <3>1, <3>2
  <2>2. /\ ExesOfThisCall' \subseteq ExesOfThisCall
        /\ \A e \in ExesOfThisCall' : bp'[e] = bp[e]
        /\ DOMAIN bp \subseteq DOMAIN bp'
    <3>1. CASE UNCHANGED bp
      BY <1>1, <3>1 DEF ExesOfThisCall, ModulesOf
    <3>2. CASE \E m : bp' = SetKey(bp, key, m) /\ m.kind = "lib"
      BY <1>1, <3>2, StoreNonExe
    <3>. QED
      BY <2>1, <3>1, <3>2
  <2>3. ltp_libs_used = UNION {bp[k].static : k \in ExesOfThisCall}
    BY <1>1 DEF CallInv, CallRest, TrackersAgree, Healthy
  <2>4. ASSUME NEW e \in ExesOfThisCall, NEW l \in bp[e].static, Accounted(l)
        PROVE  Accounted(l)'
    <3>1. CASE <<"libltp", l>> \in DOMAIN bp
      BY <2>2, <3>1 DEF Accounted
    <3>2. CASE \E b \in DOMAIN ar : ArLibName[b] = l /\ CflagSkipped(b)
      BY <1>1, <1>2, <3>2 DEF Accounted
    <3>3. CASE \E b \in DOMAIN ar \ {a} : ArLibName[b] = l /\ b \in todo
      BY <1>1, <3>3 DEF Accounted
    <3>4. CASE a \in DOMAIN ar /\ ArLibName[a] = l
      <4>1. ArUsed(a)
        BY <2>3, <3>4 DEF ArUsed
      <4>. QED
        BY <1>1, <1>2, <2>1, <3>4, <4>1 DEF Accounted
    <3>5. \/ <<"libltp", l>> \in DOMAIN bp
          \/ \E b \in DOMAIN ar : ArLibName[b] = l /\ CflagSkipped(b)
          \/ \E b \in DOMAIN ar : ArLibName[b] = l /\ b \in todo
      BY <2>4 DEF Accounted
    <3>6. (\E b \in DOMAIN ar : ArLibName[b] = l /\ b \in todo)
          => \/ \E b \in DOMAIN ar \ {a} : ArLibName[b] = l /\ b \in todo
             \/ a \in DOMAIN ar /\ ArLibName[a] = l
      OBVIOUS
    <3>. QED
      BY <3>1, <3>2, <3>3, <3>4, <3>5, <3>6
  <2>. QED
    BY <1>1, <1>2, <2>2, <2>4 DEF DepsInv, Healthy
<1>. QED
  BY <1>3, <1>4

(* An install stores a script or nothing in _bp_result and keeps the     *)
(* tables: every account stands.                                           *)
LEMMA DepsInstall ==
    ASSUME DepsInv, NEW t \in todo, Install(t)
    PROVE  DepsInv'
<1>1. /\ phase = "install" /\ status = "running"
      /\ UNCHANGED <<phase, pass, ar, cc_flags>>
  BY DEF Install, tables
<1>2. LtpLibs' = LtpLibs /\ \A x : CflagSkipped(x)' = CflagSkipped(x)
  BY <1>1 DEF LtpLibs, CflagSkipped
<1>3. CASE status' = "AssertionError"
  BY <1>3, DepsError DEF Errors
<1>4. CASE status' # "AssertionError"
  <2>1. \/ UNCHANGED bp
        \/ \E m : bp' = SetKey(bp, <<"ltp", FlatName[t]>>, m) /\ m.kind = "sh"
    <3>1. CASE BuildShellScript(t)
      BY <3>1 DEF BuildShellScript, MkModule
    <3>2. CASE ~BuildShellScript(t)
      BY <1>4, <3>2 DEF Install, BuildPrebuiltBp
    <3>. QED
      BY <3>1, <3>2
  <2>2. /\ ExesOfThisCall' \subseteq ExesOfThisCall
        /\ \A e \in ExesOfThisCall' : bp'[e] = bp[e]
        /\ DOMAIN bp \subseteq DOMAIN bp'
    <3>1. CASE UNCHANGED bp
      BY <1>1, <3>1 DEF ExesOfThisCall, ModulesOf
    <3>2. CASE \E m : bp' = SetKey(bp, <<"ltp", FlatName[t]>>, m) /\ m.kind = "sh"
      BY <1>1, <3>2, StoreNonExe
    <3>. QED
      BY <2>1, <3>1, <3>2
  <2>3. ASSUME NEW l, Accounted(l) PROVE Accounted(l)'
    BY <1>1, <1>2, <2>2, <2>3 DEF Accounted
  <2>. QED
    BY <1>1, <1>2, <2>2, <2>3 DEF DepsInv, Healthy
<1>. QED
  BY <1>3, <1>4

(***************************************************************************)
(* The switch to the archive loop sets todo to every archive of the trace, *)
(* and each library a test lists is the library of one of them (line     *)
(* 164); the switch to the install loop finds todo empty, so every        *)
(* library was built or dropped for a cflag.                               *)
(***************************************************************************)
LEMMA DepsNextLoop ==
    ASSUME DepsInv, NextLoop
    PROVE  DepsInv'
<1>1. /\ status = "running" /\ todo = {}
      /\ UNCHANGED <<bp, pass, ar, cc_flags, status>>
      /\ phase \in DOMAIN LoopAfter /\ phase' = LoopAfter[phase]
  BY DEF NextLoop, tables
<1>2. /\ LtpLibs' = LtpLibs /\ ExesOfThisCall' = ExesOfThisCall
      /\ \A x : CflagSkipped(x)' = CflagSkipped(x)
  BY <1>1 DEF LtpLibs, ExesOfThisCall, ModulesOf, CflagSkipped
<1>3. CASE phase = "compilelink"
  <2>1. phase' = "link"
    BY <1>1, <1>3 DEF LoopAfter
  <2>. QED
    BY <1>1, <1>2, <2>1 DEF DepsInv, Healthy
<1>4. CASE phase = "link"
  <2>1. phase' = "ar" /\ todo' = DOMAIN ar
    BY <1>1, <1>4 DEF NextLoop, LoopAfter, LoopKeys
  <2>2. ASSUME NEW e \in ExesOfThisCall, NEW l \in bp[e].static
        PROVE  Accounted(l)'
    <3>1. l \in LtpLibs
      BY <1>1, <1>4 DEF DepsInv, Healthy
    <3>2. PICK b \in DOMAIN ar : ArLibName[b] = l
      BY <3>1 DEF LtpLibs
    <3>. QED
      BY <1>1, <2>1, <3>2 DEF Accounted
  <2>. QED
    BY <1>1, <1>2, <2>1, <2>2 DEF DepsInv, Healthy
<1>5. CASE phase = "ar"
  <2>1. phase' = "install"
    BY <1>1, <1>5 DEF LoopAfter
  <2>2. ASSUME NEW l, Accounted(l) PROVE Accounted(l)'
    BY <1>1, <1>2, <2>1, <2>2 DEF Accounted
  <2>. QED
    BY <1>1, <1>2, <1>5, <2>1, <2>2 DEF DepsInv, Healthy
<1>. QED
  BY <1>1, <1>3, <1>4, <1>5 DEF LoopAfter

(* The two passes over the flags come before the executable loops. *)
LEMMA DepsFlags ==
    ASSUME DepsInv, RemoveWnoError \/ FilterIncludeDirs
    PROVE  DepsInv'
<1>1. /\ UNCHANGED <<bp, pass, ar, status>>
      /\ phase' \in {"includes", "compilelink"}
  BY DEF RemoveWnoError, FilterIncludeDirs
<1>2. LtpLibs' = LtpLibs /\ ExesOfThisCall' = ExesOfThisCall
  BY <1>1 DEF LtpLibs, ExesOfThisCall, ModulesOf
<1>. QED
  BY <1>1, <1>2 DEF DepsInv, Healthy

(* The end of the first call: every test was built by it, so the second   *)
(* call starts with no test of its own.  The end of the second call only  *)
(* sets the status to done.                                                *)
LEMMA DepsFinish ==
    ASSUME CallInv, DepsInv, FinishParseInput
    PROVE  DepsInv'
<1>1. CASE pass = 1
  <2>1. pass' = 2 /\ UNCHANGED bp /\ phase' = "flags"
    BY <1>1 DEF FinishParseInput
  <2>2. \A k \in ModulesOf("exe") : bp[k].pass = 1
    BY DEF CallInv, CallRest, KeyShape, ModulesOf
  <2>3. ExesOfThisCall' = {}
    BY <2>1, <2>2 DEF ExesOfThisCall, ModulesOf
  <2>. QED
    BY <2>1, <2>3 DEF DepsInv
<1>2. CASE pass = 2
  <2>1. /\ UNCHANGED <<bp, pass, ar, cc_flags, phase, todo>>
        /\ status = "running" /\ status' = "done"
    BY <1>2 DEF FinishParseInput, tables
  <2>. QED
    BY <2>1 DEF DepsInv, Healthy, ExesOfThisCall, ModulesOf, LtpLibs,
                Accounted, CflagSkipped
<1>. QED
  BY <1>1, <1>2 DEF CallInv, TypeOK, Passes

(* Every step of ParseAll keeps DepsInv. *)
LEMMA NextDeps ==
    ASSUME CallInv, DepsInv, [Next]_vars
    PROVE  DepsInv'
<1>1. CASE \E t \in todo : CompileLink(t) \/ Link(t)
  BY <1>1, DepsExeLoop
<1>2. CASE \E a \in todo : Ar(a)
  BY <1>2, DepsAr
<1>3. CASE \E t \in todo : Install(t)
  BY <1>3, DepsInstall
<1>4. CASE RemoveWnoError \/ FilterIncludeDirs
  BY <1>4, DepsFlags
<1>5. CASE NextLoop
  BY <1>5, DepsNextLoop
<1>6. CASE FinishParseInput
  BY <1>6, DepsFinish
<1>7. CASE UNCHANGED vars
  BY <1>7 DEF vars, tables, DepsInv, Healthy, ExesOfThisCall, ModulesOf,
              LtpLibs, Accounted, CflagSkipped
<1>. QED
  BY <1>1, <1>2, <1>3, <1>4, <1>5, <1>6, <1>7 DEF Next

(***************************************************************************)
(* For every trace and policy whose install trace builds nothing and      *)
(* whose script names are no test's base name: once the archive loop of   *)
(* a ParseInput call is over, every static library a test of that call    *)
(* lists (lines 162-172) is a generated static library, unless an archive *)
(* of it was dropped by the disabled-cflag check of the archive loop      *)
(* (line 439).  That check is the only source of the dangling static_libs *)
(* entries of the dangling_static_dep run.                                 *)
(***************************************************************************)
THEOREM StaticDepsBuiltOrCflagSkippedSafe ==
    ASSUME InstallTraceBuildsNothing, ScriptNamesDistinct
    PROVE  Spec => []StaticDepsBuiltOrCflagSkipped
<1>1. CallInv /\ DepsInv /\ [Next]_vars => DepsInv'
  BY NextDeps
<1>2. Spec => []CallInv
  BY CallInvariant
<1>3. Init => DepsInv
  BY DepsInit
<1>4. Spec => []DepsInv
  BY <1>1, <1>2, <1>3, PTL DEF Spec
<1>5. DepsInv => StaticDepsBuiltOrCflagSkipped
  BY DepsProperty
<1>. QED
  BY <1>4, <1>5, PTL

=============================================================================
