--------------------------- MODULE BuildGenerator ---------------------------
(***************************************************************************)
(* The resolution engine of android/tools/android_build_generator.py:      *)
(* BuildGenerator.ParseAll, which calls ParseInput once on the parsed      *)
(* 'make' trace and once on the parsed 'make install' trace, and the       *)
(* BuildExecutable / BuildStaticLibrary / BuildShellScript /               *)
(* BuildPrebuiltBp helpers that fill the generator's module tables.        *)
(*                                                                         *)
(* Data is abstract: paths, names, flags, libraries and include dirs are   *)
(* members of constant sets, and the string functions the code applies to *)
(* them (os.path.basename, replace('/', '_'), ArTargetToLibraryName,       *)
(* endswith('.o'), startswith('testcases/bin/'), os.path.isdir) are        *)
(* constant functions and sets.  Lists whose order never reaches a         *)
(* decision are sets: every list field of a module is emitted sorted.      *)
(*                                                                         *)
(* Control is kept: each iteration of a loop of ParseInput over a rule     *)
(* table is one step, taken in any order of the table's keys (the order   *)
(* of the trace), and every early 'continue', exception and assertion is  *)
(* a disjunct of its own.  Printing (the two diagnostic scans of lines     *)
(* 341-359) is left out: it changes no state.                              *)
(***************************************************************************)
EXTENDS Naturals, Sequences, FiniteSets

CONSTANTS
    File,              \* path-like target and source identifiers
    Name,              \* base names and flattened install paths
    Lib,               \* library names (-l values, archive library names)
    Flag,              \* compiler flags
    Dir,               \* include directories
    BaseName,          \* os.path.basename, on File
    FlatName,          \* install_target.replace('/', '_'), on File
    ArLibName,         \* ArTargetToLibraryName, on File
    IsObject,          \* the files whose name ends in '.o'
    InScriptsDir,      \* the files whose path starts with 'testcases/bin/'
    ExistingDirs,      \* the include dirs that are directories under ltp_root
    WnoError,          \* the flag '-Wno-error'
    DefaultInclude,    \* the include dir 'include' that ltp_defaults adds
    BionicBuiltinLibs, \* {'m', 'rt', 'pthread', 'util'}
    DisabledTests,     \* disabled_tests.txt: base names and full paths
    DisabledLibs,      \* disabled_libs.txt
    DisabledCflags,    \* disabled_cflags.txt
    CustomCflags,      \* the custom cflags JSON: target -> extra flags
    Traces             \* Traces[p]: the rule tables ParseInput call p may get

Passes == {1, 2}

(* A rule table keyed by targets, valued by sets of T. *)
IsTable(f, T) ==
    /\ DOMAIN f \subseteq File
    /\ \A x \in DOMAIN f : f[x] \subseteq T

(***************************************************************************)
(* The parsed rule tables of one trace (the 'rules' dict of ParseInput,    *)
(* lines 308-327).  The trace parser records the flags and include dirs of *)
(* every compiled object and compile-link target and the libraries of      *)
(* every executable it links, so those lookups never fail: the only        *)
(* missing key the code meets is an object without a cc_compile rule.     *)
(***************************************************************************)
IsRuleTable(r) ==
    /\ IsTable(r.ar, File)
    /\ IsTable(r.cc_link, File)
    /\ IsTable(r.cc_compile, File)
    /\ IsTable(r.cc_compilelink, File)
    /\ IsTable(r.cc_flags, Flag)
    /\ IsTable(r.cc_includes, Dir)
    /\ IsTable(r.cc_libraries, Lib)
    /\ IsTable(r.install, File)
    /\ DOMAIN r.cc_compile \cup DOMAIN r.cc_compilelink
          \subseteq DOMAIN r.cc_flags \cap DOMAIN r.cc_includes
    /\ DOMAIN r.cc_compilelink \cup DOMAIN r.cc_link
          \subseteq DOMAIN r.cc_libraries

ASSUME ConstantsAssumption ==
    /\ BaseName \in [File -> Name]
    /\ FlatName \in [File -> Name]
    /\ ArLibName \in [File -> Lib]
    /\ IsObject \subseteq File
    /\ InScriptsDir \subseteq File
    /\ ExistingDirs \subseteq Dir
    /\ WnoError \in Flag
    /\ DefaultInclude \in Dir
    /\ BionicBuiltinLibs \subseteq Lib
    /\ DisabledTests \subseteq File \cup Name
    /\ DisabledLibs \subseteq Lib
    /\ DisabledCflags \subseteq Flag
    /\ IsTable(CustomCflags, Flag)
    /\ \A p \in Passes : /\ Traces[p] # {}
                        /\ \A r \in Traces[p] : IsRuleTable(r)

(***************************************************************************)
(* Two facts of the real inputs that ConstantsAssumption does not demand.  *)
(* The 'make install' parser reports install rules only, so the second    *)
(* ParseInput call builds no executable; and the module name of a shell   *)
(* script, 'ltp_' + its flattened path under testcases/bin/, is never     *)
(* 'ltp_' + the base name of a target.                                     *)
(***************************************************************************)
InstallTraceBuildsNothing ==
    \A r \in Traces[2] : DOMAIN r.cc_compilelink = {} /\ DOMAIN r.cc_link = {}

ScriptNamesDistinct ==
    \A s \in InScriptsDir, t \in File : FlatName[s] # BaseName[t]

-----------------------------------------------------------------------------
VARIABLES
    \* The rule tables of the current ParseInput call (lines 313-327).
    ar, cc_link, cc_compile, cc_compilelink,
    cc_flags, cc_includes, cc_libraries, install,
    pass,           \* which ParseInput call of ParseAll runs (lines 534, 536)
    phase,          \* which loop of ParseInput runs
    todo,           \* the keys the current loop has still to visit
    status,         \* "running", "done", or the exception that ended the run
    bp,             \* self._bp_result: module name -> module
    prebuilt,       \* self._prebuilt_bp_result: base name -> module
    packages,       \* self._packages: the umbrella module's 'required' list
    unused,         \* self._unused_custom_cflags
    ltp_libs_used,  \* libraries of the modules built by this call
    ltp_names_used  \* base names of the executables built by this call

tables == <<ar, cc_link, cc_compile, cc_compilelink,
            cc_flags, cc_includes, cc_libraries, install>>
vars == <<tables, pass, phase, todo, status, bp, prebuilt, packages,
          unused, ltp_libs_used, ltp_names_used>>

\* What BuildExecutable changes; the rest is left alone by a loop iteration.
exeVars == <<cc_flags, bp, packages, unused, ltp_libs_used, ltp_names_used,
             status>>
loopFrame == <<ar, cc_link, cc_compile, cc_compilelink, cc_includes,
               cc_libraries, install, pass, phase, prebuilt>>

Phases == {"flags", "includes", "compilelink", "link", "ar", "install"}
Errors == {"MissingCompile", "AttributeError", "KeyError", "AssertionError"}

\* Module names: 'ltp_%s' and 'libltp_%s' never equal each other.
Key == ({"ltp"} \X Name) \cup ({"libltp"} \X Lib)

\* One generated module: its kind, the target it was built from, the
\* ParseInput call that built it and its list fields.
Module == [kind : {"exe", "lib", "sh", "prebuilt"}, target : File,
           pass : Passes, cflags : SUBSET Flag, incs : SUBSET Dir,
           static : SUBSET Lib, shared : SUBSET Lib]

MkModule(kind, t, cflags, incs, static, shared) ==
    [kind |-> kind, target |-> t, pass |-> pass, cflags |-> cflags,
     incs |-> incs, static |-> static, shared |-> shared]

\* d[k] = v, in a dict that may not hold k yet.
SetKey(f, k, v) == [x \in DOMAIN f \cup {k} |-> IF x = k THEN v ELSE f[x]]

EmptyDict == [x \in {} |-> x]

\* ltp_libs: the libraries of the archives of this trace (line 330).
LtpLibs == {ArLibName[a] : a \in DOMAIN ar}

\* The union over objects of one table (the accumulation loops 403-409).
Collect(f, objs) == UNION {f[o] : o \in objs}

\* The keys the loop of phase ph visits.
LoopKeys(ph) == CASE ph = "compilelink" -> DOMAIN cc_compilelink
                  [] ph = "link"        -> DOMAIN cc_link
                  [] ph = "ar"          -> DOMAIN ar
                  [] ph = "install"     -> DOMAIN install
                  [] OTHER              -> {}

LoadRules(r) ==
    /\ ar = r.ar
    /\ cc_link = r.cc_link
    /\ cc_compile = r.cc_compile
    /\ cc_compilelink = r.cc_compilelink
    /\ cc_flags = r.cc_flags
    /\ cc_includes = r.cc_includes
    /\ cc_libraries = r.cc_libraries
    /\ install = r.install

\* The same, for the rules of the next ParseInput call.
ReloadRules(r) ==
    /\ ar' = r.ar
    /\ cc_link' = r.cc_link
    /\ cc_compile' = r.cc_compile
    /\ cc_compilelink' = r.cc_compilelink
    /\ cc_flags' = r.cc_flags
    /\ cc_includes' = r.cc_includes
    /\ cc_libraries' = r.cc_libraries
    /\ install' = r.install

Init ==
    /\ \E r \in Traces[1] : LoadRules(r)
    /\ pass = 1
    /\ phase = "flags"
    /\ todo = {}
    /\ status = "running"
    /\ bp = EmptyDict
    /\ prebuilt = EmptyDict
    /\ packages = <<>>
    /\ unused = DOMAIN CustomCflags
    /\ ltp_libs_used = {}
    /\ ltp_names_used = {}

-----------------------------------------------------------------------------
(* Lines 337-339: drop -Wno-error from every target's cflags. *)
RemoveWnoError ==
    /\ status = "running"
    /\ phase = "flags"
    /\ cc_flags' = [t \in DOMAIN cc_flags |-> cc_flags[t] \ {WnoError}]
    /\ phase' = "includes"
    /\ UNCHANGED <<ar, cc_link, cc_compile, cc_compilelink, cc_includes,
                   cc_libraries, install, pass, todo, status, bp, prebuilt,
                   packages, unused, ltp_libs_used, ltp_names_used>>

(* Lines 363-364: drop the include dirs that do not exist under ltp_root;  *)
(* then the compile-link loop starts (line 366).                           *)
FilterIncludeDirs ==
    /\ status = "running"
    /\ phase = "includes"
    /\ cc_includes' = [t \in DOMAIN cc_includes |->
                          cc_includes[t] \cap ExistingDirs]
    /\ phase' = "compilelink"
    /\ todo' = LoopKeys("compilelink")
    /\ UNCHANGED <<ar, cc_link, cc_compile, cc_compilelink, cc_flags,
                   cc_libraries, install, pass, status, bp, prebuilt,
                   packages, unused, ltp_libs_used, ltp_names_used>>

-----------------------------------------------------------------------------
(***************************************************************************)
(* BuildExecutable (lines 97-185), past the base-name check.  A target     *)
(* with custom cflags extends the list it was given (line 120): on the     *)
(* compile-link path that list is cc_flags[target] itself, which the       *)
(* extend changes in place; on the link path it is a set, which has no     *)
(* extend, and the run dies with an AttributeError.  The entry is then     *)
(* removed from _unused_custom_cflags (line 121), a KeyError if an earlier *)
(* call already removed it.                                                *)
(***************************************************************************)
ExeCustomCrash(t, cflags, viaLink) ==
    /\ t \in DOMAIN CustomCflags
    /\ viaLink \/ t \notin unused
    /\ status' = IF viaLink THEN "AttributeError" ELSE "KeyError"
    /\ cc_flags' = IF viaLink THEN cc_flags
                   ELSE [cc_flags EXCEPT ![t] = cflags \cup CustomCflags[t]]
    /\ UNCHANGED <<bp, packages, unused, ltp_libs_used>>

(* The module itself (lines 119-185): 'include' dropped, the libraries     *)
(* split into ltp archives (static, and marked used), bionic built-ins     *)
(* (dropped) and the rest (shared).                                        *)
ExeEmit(t, cflags, incs, libraries, viaLink) ==
    LET custom == t \in DOMAIN CustomCflags
        flags  == IF custom THEN cflags \cup CustomCflags[t] ELSE cflags
        static == libraries \cap LtpLibs
        shared == (libraries \ BionicBuiltinLibs) \ LtpLibs
        key    == <<"ltp", BaseName[t]>>
    IN  /\ custom => ~viaLink /\ t \in unused
        /\ cc_flags' = IF custom THEN [cc_flags EXCEPT ![t] = flags]
                       ELSE cc_flags
        /\ unused' = unused \ {t}
        /\ bp' = SetKey(bp, key, MkModule("exe", t, flags,
                                          incs \ {DefaultInclude},
                                          static, shared))
        /\ packages' = Append(packages, key)
        /\ ltp_libs_used' = ltp_libs_used \cup static
        /\ UNCHANGED status

(* Mutant: the static libraries are marked used before the base-name      *)
(* check, so a skipped duplicate still keeps its archives alive.           *)
BuildExecutable_MarkLibsFirst(t, cflags, incs, libraries, viaLink) ==
    \/ /\ BaseName[t] \in ltp_names_used
       /\ ltp_libs_used' = ltp_libs_used \cup (libraries \cap LtpLibs)
       /\ UNCHANGED <<cc_flags, bp, packages, unused, ltp_names_used, status>>
    \/ /\ BaseName[t] \notin ltp_names_used
       /\ ltp_names_used' = ltp_names_used \cup {BaseName[t]}
       /\ \/ ExeCustomCrash(t, cflags, viaLink)
          \/ ExeEmit(t, cflags, incs, libraries, viaLink)

(* Mutant: the custom cflags entry is consumed before the base-name check. *)
BuildExecutable_ConsumeFirst(t, cflags, incs, libraries, viaLink) ==
    \/ /\ BaseName[t] \in ltp_names_used
       /\ unused' = unused \ {t}
       /\ UNCHANGED <<cc_flags, bp, packages, ltp_libs_used, ltp_names_used,
                      status>>
    \/ /\ BaseName[t] \notin ltp_names_used
       /\ ltp_names_used' = ltp_names_used \cup {BaseName[t]}
       /\ \/ ExeCustomCrash(t, cflags, viaLink)
          \/ ExeEmit(t, cflags, incs, libraries, viaLink)

(* Mutant: the base-name check is dropped, so a later target with the    *)
(* same base name replaces the module of the first.                        *)
BuildExecutable_NoDupCheck(t, cflags, incs, libraries, viaLink) ==
    /\ ltp_names_used' = ltp_names_used \cup {BaseName[t]}
    /\ \/ ExeCustomCrash(t, cflags, viaLink)
       \/ ExeEmit(t, cflags, incs, libraries, viaLink)

(* BuildExecutable: a base name already used by this call is reported and *)
(* skipped (lines 112-116); otherwise it is claimed (line 117).            *)
BuildExecutable(t, cflags, incs, libraries, viaLink) ==
    \/ /\ BaseName[t] \in ltp_names_used
       /\ UNCHANGED exeVars
    \/ /\ BaseName[t] \notin ltp_names_used
       /\ ltp_names_used' = ltp_names_used \cup {BaseName[t]}
       /\ \/ ExeCustomCrash(t, cflags, viaLink)
          \/ ExeEmit(t, cflags, incs, libraries, viaLink)

(* Mutant: the disabled-library check is dropped. *)
ExcludedCflagsOnly(libraries, cflags) ==
    cflags \cap DisabledCflags # {}

(* Mutant: the disabled-cflag check is dropped. *)
ExcludedLibsOnly(libraries, cflags) ==
    libraries \cap DisabledLibs # {}

(* The disabled-library and disabled-cflag checks (lines 384-387, 410-413). *)
Excluded(libraries, cflags) ==
    \/ libraries \cap DisabledLibs # {}
    \/ cflags \cap DisabledCflags # {}

(***************************************************************************)
(* One iteration of the compile-link loop (lines 366-390).  The '.o'       *)
(* inputs must have a cc_compile rule, else the loop raises (line 377).    *)
(***************************************************************************)
CompileLink(t) ==
    LET objs == cc_compilelink[t] \cap IsObject IN
    /\ status = "running"
    /\ phase = "compilelink"
    /\ t \in todo
    /\ todo' = todo \ {t}
    /\ \/ /\ BaseName[t] \in DisabledTests
          /\ UNCHANGED <<loopFrame, exeVars>>
       \/ /\ BaseName[t] \notin DisabledTests
          /\ ~(objs \subseteq DOMAIN cc_compile)
          /\ status' = "MissingCompile"
          /\ UNCHANGED <<loopFrame, cc_flags, bp, packages, unused,
                         ltp_libs_used, ltp_names_used>>
       \/ /\ BaseName[t] \notin DisabledTests
          /\ objs \subseteq DOMAIN cc_compile
          /\ Excluded(cc_libraries[t], cc_flags[t])
          /\ UNCHANGED <<loopFrame, exeVars>>
       \/ /\ BaseName[t] \notin DisabledTests
          /\ objs \subseteq DOMAIN cc_compile
          /\ ~Excluded(cc_libraries[t], cc_flags[t])
          /\ BuildExecutable(t, cc_flags[t], cc_includes[t],
                             cc_libraries[t], FALSE)
          /\ UNCHANGED loopFrame

(***************************************************************************)
(* One iteration of the link loop (lines 392-417): the sources, cflags and *)
(* include dirs of all the linked objects are pooled into sets; a missing  *)
(* cc_compile rule is a KeyError (line 404).                               *)
(***************************************************************************)
Link(t) ==
    LET objs == cc_link[t] IN
    /\ status = "running"
    /\ phase = "link"
    /\ t \in todo
    /\ todo' = todo \ {t}
    /\ \/ /\ BaseName[t] \in DisabledTests
          /\ UNCHANGED <<loopFrame, exeVars>>
       \/ /\ BaseName[t] \notin DisabledTests
          /\ ~(objs \subseteq DOMAIN cc_compile)
          /\ status' = "MissingCompile"
          /\ UNCHANGED <<loopFrame, cc_flags, bp, packages, unused,
                         ltp_libs_used, ltp_names_used>>
       \/ /\ BaseName[t] \notin DisabledTests
          /\ objs \subseteq DOMAIN cc_compile
          /\ Excluded(cc_libraries[t], Collect(cc_flags, objs))
          /\ UNCHANGED <<loopFrame, exeVars>>
       \/ /\ BaseName[t] \notin DisabledTests
          /\ objs \subseteq DOMAIN cc_compile
          /\ ~Excluded(cc_libraries[t], Collect(cc_flags, objs))
          /\ BuildExecutable(t, Collect(cc_flags, objs),
                             Collect(cc_includes, objs),
                             cc_libraries[t], TRUE)
          /\ UNCHANGED loopFrame

(* Mutant: the retention check asks ltp_libs, the libraries of all the     *)
(* archives, instead of ltp_libs_used.                                     *)
ArUsed_AnyArchive(a) == ArLibName[a] \in LtpLibs

(* An archive is kept only if a built executable linked it (line 422). *)
ArUsed(a) == ArLibName[a] \in ltp_libs_used

(***************************************************************************)
(* One iteration of the archive loop (lines 419-447) and                   *)
(* BuildStaticLibrary (lines 187-222).                                     *)
(***************************************************************************)
Ar(a) ==
    LET objs == ar[a]
        key  == <<"libltp", ArLibName[a]>>
    IN
    /\ status = "running"
    /\ phase = "ar"
    /\ a \in todo
    /\ todo' = todo \ {a}
    /\ \/ /\ ~ArUsed(a)
          /\ UNCHANGED <<loopFrame, exeVars>>
       \/ /\ ArUsed(a)
          /\ ~(objs \subseteq DOMAIN cc_compile)
          /\ status' = "MissingCompile"
          /\ UNCHANGED <<loopFrame, cc_flags, bp, packages, unused,
                         ltp_libs_used, ltp_names_used>>
       \/ /\ ArUsed(a)
          /\ objs \subseteq DOMAIN cc_compile
          /\ Collect(cc_flags, objs) \cap DisabledCflags # {}
          /\ UNCHANGED <<loopFrame, exeVars>>
       \/ /\ ArUsed(a)
          /\ objs \subseteq DOMAIN cc_compile
          /\ Collect(cc_flags, objs) \cap DisabledCflags = {}
          /\ bp' = SetKey(bp, key, MkModule("lib", a, Collect(cc_flags, objs),
                                            Collect(cc_includes, objs),
                                            {}, {}))
          /\ UNCHANGED <<loopFrame, cc_flags, packages, unused,
                         ltp_libs_used, ltp_names_used, status>>

(* BuildShellScript (lines 224-249). *)
BuildShellScript(t) ==
    LET key == <<"ltp", FlatName[t]>> IN
    /\ bp' = SetKey(bp, key, MkModule("sh", t, {}, {}, {}, {}))
    /\ packages' = Append(packages, key)
    /\ UNCHANGED prebuilt

(* Mutant: the umbrella list gets the base name instead of the module name. *)
BuildPrebuiltBp_BaseNameInPackages(t) ==
    /\ prebuilt' = SetKey(prebuilt, BaseName[t],
                          MkModule("prebuilt", t, {}, {}, {}, {}))
    /\ packages' = Append(packages, BaseName[t])
    /\ UNCHANGED bp

(* BuildPrebuiltBp (lines 251-278): the module is 'ltp_' + the flattened   *)
(* path, but it is stored under the target's base name (line 277).         *)
BuildPrebuiltBp(t) ==
    /\ prebuilt' = SetKey(prebuilt, BaseName[t],
                          MkModule("prebuilt", t, {}, {}, {}, {}))
    /\ packages' = Append(packages, <<"ltp", FlatName[t]>>)
    /\ UNCHANGED bp

(***************************************************************************)
(* One iteration of the install loop (lines 449-469).                      *)
(***************************************************************************)
Install(t) ==
    LET disabled == t \in DisabledTests \/ BaseName[t] \in DisabledTests IN
    /\ status = "running"
    /\ phase = "install"
    /\ t \in todo
    /\ todo' = todo \ {t}
    /\ UNCHANGED <<tables, pass, phase, unused, ltp_libs_used, ltp_names_used>>
    /\ \/ /\ disabled
          /\ UNCHANGED <<status, bp, prebuilt, packages>>
       \/ /\ ~disabled
          /\ Cardinality(install[t]) # 1
          /\ status' = "AssertionError"
          /\ UNCHANGED <<bp, prebuilt, packages>>
       \/ /\ ~disabled
          /\ Cardinality(install[t]) = 1
          /\ t \in InScriptsDir
          /\ BuildShellScript(t)
          /\ UNCHANGED status
       \/ /\ ~disabled
          /\ Cardinality(install[t]) = 1
          /\ t \notin InScriptsDir
          /\ BuildPrebuiltBp(t)
          /\ UNCHANGED status

(* Mutant: the archive loop runs between the two executable loops. *)
LoopAfter_ArBeforeLink == [compilelink |-> "ar", ar |-> "link", link |-> "install"]

(* The end of one loop of ParseInput starts the next one over its table. *)
LoopAfter == [compilelink |-> "link", link |-> "ar", ar |-> "install"]

NextLoop ==
    /\ status = "running"
    /\ phase \in DOMAIN LoopAfter
    /\ todo = {}
    /\ phase' = LoopAfter[phase]
    /\ todo' = LoopKeys(LoopAfter[phase])
    /\ UNCHANGED <<tables, pass, status, bp, prebuilt, packages, unused,
                   ltp_libs_used, ltp_names_used>>

(***************************************************************************)
(* The end of ParseInput.  ParseAll (lines 527-536) then calls it again on *)
(* the install trace, with fresh rules, ltp_libs_used and ltp_names_used   *)
(* and the generator's tables kept; after the second call the run is done. *)
(***************************************************************************)
FinishParseInput ==
    /\ status = "running"
    /\ phase = "install"
    /\ todo = {}
    /\ \/ /\ pass = 1
          /\ \E r \in Traces[2] : ReloadRules(r)
          /\ pass' = 2
          /\ phase' = "flags"
          /\ ltp_libs_used' = {}
          /\ ltp_names_used' = {}
          /\ UNCHANGED <<todo, status, bp, prebuilt, packages, unused>>
       \/ /\ pass = 2
          /\ status' = "done"
          /\ UNCHANGED <<tables, pass, phase, todo, bp, prebuilt, packages,
                         unused, ltp_libs_used, ltp_names_used>>

Next ==
    \/ RemoveWnoError
    \/ FilterIncludeDirs
    \/ \E t \in todo : CompileLink(t)
    \/ \E t \in todo : Link(t)
    \/ \E t \in todo : Ar(t)
    \/ \E t \in todo : Install(t)
    \/ NextLoop
    \/ FinishParseInput

Spec == Init /\ [][Next]_vars

-----------------------------------------------------------------------------
(***************************************************************************)
(* Properties.                                                             *)
(***************************************************************************)
ModulesOf(kind) == {k \in DOMAIN bp : bp[k].kind = kind}

\* The executables the current ParseInput call has built.
ExesOfThisCall == {k \in ModulesOf("exe") : bp[k].pass = pass}

Healthy == status \in {"running", "done"}

\* The rule tables of the current call, as one record.
Rules == [ar |-> ar, cc_link |-> cc_link, cc_compile |-> cc_compile,
          cc_compilelink |-> cc_compilelink, cc_flags |-> cc_flags,
          cc_includes |-> cc_includes, cc_libraries |-> cc_libraries,
          install |-> install]

(* Every variable holds a value of the type the code gives it; the rule   *)
(* tables keep the shape the trace parser gives them, and a loop only     *)
(* visits keys of its own table.                                          *)
TypeOK ==
    /\ IsRuleTable(Rules)
    /\ pass \in Passes
    /\ phase \in Phases
    /\ todo \subseteq LoopKeys(phase)
    /\ status \in {"running", "done"} \cup Errors
    /\ DOMAIN bp \subseteq Key /\ bp \in [DOMAIN bp -> Module]
    /\ DOMAIN prebuilt \subseteq Name /\ prebuilt \in [DOMAIN prebuilt -> Module]
    /\ packages \in Seq(Key)
    /\ unused \subseteq DOMAIN CustomCflags
    /\ ltp_libs_used \subseteq Lib
    /\ ltp_names_used \subseteq Name

(***************************************************************************)
(* The exclusion policy reaches through static linking: no built test is   *)
(* disabled or links a disabled library, and no static library of a       *)
(* disabled library is built, although the archive loop itself never      *)
(* consults disabled_libs (the comment at line 420 relies on              *)
(* ltp_libs_used for it).  No script or prebuilt is installed for a target *)
(* disabled by its path or its base name (line 451), in either store.     *)
(***************************************************************************)
\* An install target that disabled_tests names neither by path nor by base name.
InstallAllowed(t) == t \notin DisabledTests /\ BaseName[t] \notin DisabledTests

ExclusionRespected ==
    /\ \A k \in ModulesOf("exe") :
          /\ BaseName[bp[k].target] \notin DisabledTests
          /\ (bp[k].static \cup bp[k].shared) \cap DisabledLibs = {}
    /\ \A k \in ModulesOf("lib") : ArLibName[bp[k].target] \notin DisabledLibs
    /\ \A k \in ModulesOf("sh") : InstallAllowed(bp[k].target)
    /\ \A b \in DOMAIN prebuilt : InstallAllowed(prebuilt[b].target)

(***************************************************************************)
(* A static library is built only for an archive that some executable     *)
(* built by the same ParseInput call links statically (lines 162-172 and  *)
(* 422): skipped, excluded and duplicate executables keep no archive.      *)
(***************************************************************************)
StaticLibOnlyIfReferenced ==
    \A k \in ModulesOf("lib") :
        \E e \in ModulesOf("exe") :
            /\ bp[e].pass = bp[k].pass
            /\ ArLibName[bp[k].target] \in bp[e].static

(***************************************************************************)
(* ltp_names_used and ltp_libs_used, kept by BuildExecutable, are exactly   *)
(* the base names and the static libraries of the executables this call    *)
(* has built, whatever the order of the targets and the skips in between.  *)
(***************************************************************************)
TrackersAgree ==
    Healthy =>
        /\ ltp_names_used = {BaseName[bp[k].target] : k \in ExesOfThisCall}
        /\ ltp_libs_used = UNION {bp[k].static : k \in ExesOfThisCall}

(***************************************************************************)
(* The 'never seen' report of custom cflags (lines 538-540, 583-586) lists *)
(* exactly the targets with custom cflags that no built executable came    *)
(* from: a skipped duplicate does not consume its entry.                   *)
(***************************************************************************)
UnusedCustomCflagsExact ==
    unused = DOMAIN CustomCflags \ {bp[k].target : k \in ModulesOf("exe")}

(***************************************************************************)
(* Every name the umbrella 'ltp' module requires (lines 517-520) is a      *)
(* module of one of the two generated blueprint files.                     *)
(***************************************************************************)
PackagesHaveModules ==
    \A i \in 1..Len(packages) :
        \/ packages[i] \in DOMAIN bp
        \/ \E b \in DOMAIN prebuilt :
              packages[i] = <<"ltp", FlatName[prebuilt[b].target]>>

(***************************************************************************)
(* At the end of a run every static library an executable lists in        *)
(* static_libs (line 164-169) is a generated module: a StaticLibrary is    *)
(* produced for an archive iff a retained executable references it.       *)
(***************************************************************************)
StaticDepsBuilt ==
    status = "done" =>
        \A e \in ModulesOf("exe") :
            \A l \in bp[e].static : <<"libltp", l>> \in DOMAIN bp

(***************************************************************************)
(* The disabled-cflag skip of the archive loop (line 439) is the only way  *)
(* a static_libs entry dangles: once the archive loop of a call is over,  *)
(* every static library a test of that call lists is a generated module, *)
(* unless an archive of that library was dropped for a disabled cflag.    *)
(* It needs the archive loop to run after both executable loops (lines    *)
(* 366-447) and to visit every archive whose library they marked used.    *)
(***************************************************************************)
StaticDepsBuiltOrCflagSkipped ==
    phase = "install" /\ Healthy =>
        \A e \in ExesOfThisCall : \A l \in bp[e].static :
            \/ <<"libltp", l>> \in DOMAIN bp
            \/ \E a \in DOMAIN ar :
                  /\ ArLibName[a] = l
                  /\ Collect(cc_flags, ar[a]) \cap DisabledCflags # {}

(***************************************************************************)
(* The run ends with an exception only on a malformed trace: an object     *)
(* without a compile rule, or an install target without exactly one       *)
(* source.  Custom cflags never crash it (lines 119-121).                  *)
(***************************************************************************)
NoUnexpectedException ==
    status \notin {"AttributeError", "KeyError"}

(***************************************************************************)
(* No generated module carries -Wno-error or a disabled cflag (lines      *)
(* 337-339, 386, 412, 439), custom cflags included (line 120).            *)
(***************************************************************************)
EmittedCflagsSanitized ==
    \A k \in DOMAIN bp :
        bp[k].cflags \cap (DisabledCflags \cup {WnoError}) = {}

\* Every flag the custom cflags JSON adds to some target.
CustomFlags == UNION {CustomCflags[t] : t \in DOMAIN CustomCflags}

(***************************************************************************)
(* The custom cflags JSON is the only way -Wno-error or a disabled cflag  *)
(* reaches a generated module: -Wno-error is dropped from cc_flags at the *)
(* start of each ParseInput call (lines 337-339), before any loop reads   *)
(* it, and each loop checks the disabled cflags of what it builds (lines  *)
(* 386, 412, 439), although the compile-link path extends cc_flags in    *)
(* place with the custom flags (line 120), where the link and archive     *)
(* loops read them back.                                                   *)
(***************************************************************************)
CflagsSanitizedButCustom ==
    \A k \in DOMAIN bp :
        bp[k].cflags \cap (DisabledCflags \cup {WnoError}) \subseteq CustomFlags

(***************************************************************************)
(* A generated test module, once in _bp_result, is never replaced or       *)
(* dropped by a later step: not by a target of the same base name (the     *)
(* ltp_names_used check, lines 113-116, which the second ParseInput call   *)
(* starts afresh, line 333), and not by a shell script or a static         *)
(* library stored under the same module name.                             *)
(***************************************************************************)
ExeModulesStable ==
    \A k \in ModulesOf("exe") : k \in DOMAIN bp' /\ bp'[k] = bp[k]

ExeNeverReplaced == [][ExeModulesStable]_vars



-----------------------------------------------------------------------------
(***************************************************************************)
(* Refinement.  _bp_result, seen through the fields the promise speaks of, *)
(* is the abstract store of ModuleStore; the call is 'pass' and the trace  *)
(* the tables ParseInput never rewrites.                                   *)
(***************************************************************************)
StoreMods ==
    [k \in DOMAIN bp |-> [kind |-> bp[k].kind, target |-> bp[k].target,
                          call |-> bp[k].pass, static |-> bp[k].static]]

Store == INSTANCE ModuleStore
            WITH call <- pass,
                 trace <- [ar |-> ar, cc_link |-> cc_link,
                           cc_compilelink |-> cc_compilelink,
                           cc_libraries |-> cc_libraries, install |-> install],
                 mods <- StoreMods

(***************************************************************************)
(* Every step of the engine either leaves the generated modules alone or   *)
(* adds one module that the promise allows: a test that is enabled, links *)
(* no disabled library and takes a free name; a static library a test of  *)
(* the same call links; an enabled script under a name no test holds.     *)
(* This is the contract of steps 4-7 and 4.1.1 of the spec, met by the    *)
(* loops of ParseInput (lines 366-469) and their trackers.                 *)
(***************************************************************************)
ImplementsStore == Store!Spec

=============================================================================
