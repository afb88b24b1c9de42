------------------------- MODULE MC_BuildGenerator -------------------------
(***************************************************************************)
(* A small LTP tree for BuildGenerator.  Paths are strings; the string     *)
(* functions of the code are given by tables.                              *)
(*                                                                         *)
(* The make trace has three compile-link tests (two sharing the base name  *)
(* test01, one disabled by name), four linked tests (one disabled by name, *)
(* one with custom cflags, one a third test01), and three archives:        *)
(* libltp.a, libltpipc.a, which only the third test01 links, and          *)
(* libltpnuma.a, whose library is disabled.  What varies from one initial *)
(* state to the next is what a trace really varies in: the libraries each  *)
(* test links, the cflags of two objects (-Wno-error, or the disabled      *)
(* -DNUMA_V1), whether a test or libltp.a names an object with no compile  *)
(* rule, and which objects mmap01 links.  The install trace has a shell    *)
(* script, a prebuilt, two targets disabled by full path and by base name, *)
(* and, as alternatives, a target with two sources and two prebuilts that  *)
(* share the base name test01.                                             *)
(***************************************************************************)
EXTENDS BuildGenerator, TLC

\* Compile-link targets.
CB == "fs/bind/test01"
CM == "fs/move/test01"
CP == "ptrace/ptrace05"
\* Link targets.
LM == "mem/mmap01"
LN == "numa/numa01"
LP == "ptrace/ptrace06"
LR == "fs/rbind/test01"
\* Objects; mem/gone.o has no compile rule.
OMmap == "mem/mmap01.o"
ONuma == "numa/numa01.o"
OPtrace == "ptrace/ptrace06.o"
ORes == "lib/tst_res.o"
OTstNuma == "lib/tst_numa.o"
OGone == "mem/gone.o"
OIpc == "lib/ipc.o"
\* Archives.
ALtp == "lib/libltp.a"
ANuma == "libs/libltpnuma.a"
AIpc == "lib/libltpipc.a"
\* Install targets.
IScript == "testcases/bin/runltp.sh"
IMove == "testcases/kernel/fs/move/test01"
IPtrace == "testcases/bin/ptrace05"
IData == "testcases/data/mmap01.bin"
IBad == "testcases/bin/bad.sh"
IBind == "testcases/kernel/fs/bind/test01"
IRbind == "testcases/kernel/fs/rbind/test01"
\* A custom cflags entry for a test that no trace builds.
Stale == "syscalls/getcwd/getcwd02"

Targets == {CB, CM, CP, LM, LN, LP, LR}
Objects == {OMmap, ONuma, OPtrace, ORes, OTstNuma, OGone, OIpc}
Installs == {IScript, IMove, IPtrace, IData, IBad, IBind, IRbind}
Sources == {"fs/bind/test01.c", "fs/move/test01.c", "ptrace/ptrace05.c",
            "mem/mmap01.c", "numa/numa01.c", "ptrace/ptrace06.c",
            "lib/tst_res.c", "lib/tst_numa.c", "lib/ipc.c", "runltp.sh", "a.sh", "b.sh"}

MC_File == Targets \cup Objects \cup {ALtp, ANuma, AIpc} \cup Installs
           \cup Sources \cup {Stale}

Bases ==
    (CB :> "test01") @@ (CM :> "test01") @@ (CP :> "ptrace05")
    @@ (LM :> "mmap01") @@ (LN :> "numa01") @@ (LP :> "ptrace06")
    @@ (LR :> "test01")
    @@ (IScript :> "runltp.sh") @@ (IMove :> "test01")
    @@ (IPtrace :> "ptrace05") @@ (IData :> "mmap01.bin")
    @@ (IBad :> "bad.sh") @@ (IBind :> "test01") @@ (IRbind :> "test01")

Flats ==
    (IScript :> "testcases_bin_runltp.sh")
    @@ (IMove :> "testcases_kernel_fs_move_test01")
    @@ (IPtrace :> "testcases_bin_ptrace05")
    @@ (IData :> "testcases_data_mmap01.bin")
    @@ (IBad :> "testcases_bin_bad.sh")
    @@ (IBind :> "testcases_kernel_fs_bind_test01")
    @@ (IRbind :> "testcases_kernel_fs_rbind_test01")

MC_Name == {"other"} \cup {Bases[f] : f \in DOMAIN Bases}
                     \cup {Flats[f] : f \in DOMAIN Flats}
MC_BaseName == [f \in MC_File |-> IF f \in DOMAIN Bases THEN Bases[f]
                                  ELSE "other"]
MC_FlatName == [f \in MC_File |-> IF f \in DOMAIN Flats THEN Flats[f]
                                  ELSE "other"]
MC_Lib == {"ltp", "ltpnuma", "ltpipc", "m", "cap", "other"}
MC_ArLibName == [f \in MC_File |-> CASE f = ALtp  -> "ltp"
                                     [] f = ANuma -> "ltpnuma"
                                     [] f = AIpc  -> "ltpipc"
                                     [] OTHER     -> "other"]
MC_Flag == {"-Wno-error", "-DNUMA_V1", "-DNUMA", "-DCUSTOM", "-O3"}
MC_Dir == {"include", "testcases/kernel/include", "include/old"}
MC_IsObject == Objects
MC_InScriptsDir == {IScript, IPtrace, IBad}
MC_ExistingDirs == {"include", "testcases/kernel/include"}
MC_DisabledTests == {"ptrace05", "ptrace06", IMove}
MC_DisabledLibs == {"ltpnuma"}
MC_DisabledCflags == {"-DNUMA_V1"}
MC_CustomCflags == (CM :> {"-DCUSTOM"}) @@ (LN :> {"-DCUSTOM"})
                   @@ (Stale :> {"-O3"})

\* Custom cflags that bring back a disabled flag and -Wno-error.
MC_CustomCflagsDisabled == (CM :> {"-DNUMA_V1", "-Wno-error"})

Incs == {"include", "testcases/kernel/include", "include/old"}
Compiled == {OMmap, ONuma, OPtrace, ORes, OTstNuma, OIpc}
CompileSrc == (OMmap :> {"mem/mmap01.c"}) @@ (ONuma :> {"numa/numa01.c"})
              @@ (OPtrace :> {"ptrace/ptrace06.c"})
              @@ (ORes :> {"lib/tst_res.c"}) @@ (OTstNuma :> {"lib/tst_numa.c"})
              @@ (OIpc :> {"lib/ipc.c"})
LibMenu == {{"ltp"}, {"ltpnuma", "m"}, {"ltp", "m", "cap"}}

\* The make traces.
BuildTraces ==
  { [ar |-> (ALtp :> ltpMembers) @@ (ANuma :> {OTstNuma})
            @@ (AIpc :> {OIpc}),
     cc_link |-> (LM :> mmapObjs) @@ (LN :> {ONuma}) @@ (LP :> {OPtrace})
                 @@ (LR :> {OMmap}),
     cc_compile |-> CompileSrc,
     cc_compilelink |-> (CB :> cbIn) @@ (CM :> {"fs/move/test01.c", ORes})
                        @@ (CP :> {"ptrace/ptrace05.c"}),
     cc_flags |-> (CB :> {"-Wno-error"}) @@ (CM :> {}) @@ (CP :> {})
                  @@ (OMmap :> fMmap) @@ (ONuma :> {"-DNUMA"})
                  @@ (OPtrace :> {}) @@ (ORes :> fRes)
                  @@ (OTstNuma :> {"-DNUMA"}) @@ (OIpc :> {}),
     cc_includes |-> [f \in Compiled \cup {CB, CM, CP} |-> Incs],
     cc_libraries |-> (CB :> lCB) @@ (CM :> lCM) @@ (CP :> {})
                      @@ (LM :> lLM) @@ (LN :> lLN) @@ (LP :> {})
                      @@ (LR :> {"ltpipc"}),
     install |-> EmptyDict]
    : lCB \in LibMenu, lCM \in LibMenu, lLM \in LibMenu, lLN \in LibMenu,
      fMmap \in {{"-Wno-error"}, {"-DNUMA_V1"}},
      fRes \in {{"-Wno-error"}, {"-Wno-error", "-DNUMA_V1"}},
      cbIn \in {{"fs/bind/test01.c"}, {"fs/bind/test01.c", OGone}},
      mmapObjs \in {{OMmap}, {OMmap, ORes}, {OMmap, OGone}},
      ltpMembers \in {{ORes}, {ORes, OGone}} }

InstallOnly(inst) ==
    [ar |-> EmptyDict, cc_link |-> EmptyDict, cc_compile |-> EmptyDict,
     cc_compilelink |-> EmptyDict, cc_flags |-> EmptyDict,
     cc_includes |-> EmptyDict, cc_libraries |-> EmptyDict, install |-> inst]

GoodInstalls == (IScript :> {"runltp.sh"}) @@ (IMove :> {"runltp.sh"})
                @@ (IPtrace :> {"runltp.sh"}) @@ (IData :> {"a.sh"})

\* The make install traces.
InstallTraces ==
    { InstallOnly(GoodInstalls),
      InstallOnly(GoodInstalls @@ (IBad :> {"a.sh", "b.sh"})),
      InstallOnly(GoodInstalls @@ (IBind :> {"a.sh"}) @@ (IRbind :> {"b.sh"})) }

MC_Traces == [p \in Passes |-> IF p = 1 THEN BuildTraces ELSE InstallTraces]

\* The instance meets the two facts of the real inputs.
ASSUME InstallTraceBuildsNothing /\ ScriptNamesDistinct

=============================================================================
