\* Resolution of a make trace and a make-install trace: the tracked state
\* and the generated modules agree with the exclusion policy.
CONSTANTS
    File <- MC_File
    Name <- MC_Name
    Lib <- MC_Lib
    Flag <- MC_Flag
    Dir <- MC_Dir
    BaseName <- MC_BaseName
    FlatName <- MC_FlatName
    ArLibName <- MC_ArLibName
    IsObject <- MC_IsObject
    InScriptsDir <- MC_InScriptsDir
    ExistingDirs <- MC_ExistingDirs
    WnoError = "-Wno-error"
    DefaultInclude = "include"
    BionicBuiltinLibs = {"m"}
    DisabledTests <- MC_DisabledTests
    DisabledLibs <- MC_DisabledLibs
    DisabledCflags <- MC_DisabledCflags
    CustomCflags <- MC_CustomCflags
    Traces <- MC_Traces
SPECIFICATION Spec
\* The run stops: after the second ParseInput call, or at an exception.
CHECK_DEADLOCK FALSE
INVARIANTS
    TypeOK
    ExclusionRespected
    StaticLibOnlyIfReferenced
    TrackersAgree
    UnusedCustomCflagsExact
    StaticDepsBuiltOrCflagSkipped
    CflagsSanitizedButCustom
PROPERTIES
    ExeNeverReplaced
