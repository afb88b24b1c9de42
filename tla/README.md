# TLA+ models of the LTP Android build generator

The source is `src/android/tools/android_build_generator.py`. This program
converts the dry-run traces of LTP's `make` and `make install` into Android
blueprint modules. It applies three policies along the way: disabled tests,
disabled libraries and disabled cflags.

## The system

| Part | Code | What it does | Modelled |
|---|---|---|---|
| Trace parsers | `make_parser`, `make_install_parser` (not under `src/`) | Turn a dump into `rules` lines | As the `Traces` constant, with the shape `IsRuleTable` (spec section 3) |
| Rule table | `HandleParsedRule`, `UniqueKeepOrder`, the loop and `rules.get` of `ParseInput` (280-296, 61-72, 308-327) | Build the dicts `ar`, `cc_link`, `cc_compile`, `cc_compilelink`, `cc_flags`, `cc_includes`, `cc_libraries`, `install` | **Yes**: `RuleTable.tla`. The engine module takes the result as the constant `Traces` |
| Exclusion policy | `ReadCommentedText` (74-87) | Read the three policy files | No (file I/O). They are the constants `DisabledTests`, `DisabledLibs`, `DisabledCflags` |
| Resolution engine | `ParseAll`, `ParseInput`, `BuildExecutable`, `BuildStaticLibrary`, `BuildShellScript`, `BuildPrebuiltBp` (97-278, 298-469, 527-536) | Resolve the tables into modules | **Yes**: `BuildGenerator.tla` |
| Module emitter | `WriteAndroidBp`, `WritePrebuiltAndroidBp`, `WriteLtpMainAndroidBp` (471-525) | Format the tables | No (pure formatting). The properties speak of what the files would reference |
| Command line | `main` (543-591) | Parse arguments and load the custom-cflags JSON | No. `CustomCflags` is a constant |

The parts interact in one direction, in a fixed order. `ParseAll` calls
`ParseInput` twice: first on the `make` trace, then on the `make install`
trace. Each call does the following, in order:

1. Reads the policy and builds the rule dicts.
2. Removes `-Wno-error` from every cflags entry.
3. Prints two diagnostic lists. This changes no state.
4. Filters the include dirs.
5. Runs four loops, in this order:
   - compile-link executables;
   - linked executables;
   - archives, which are kept only if an executable of *this call* linked
     them statically (`ltp_libs_used`);
   - installs.

State that lives only within one call:
- `ltp_libs_used`
- `ltp_names_used`, which detects duplicate base names

State that lives across both calls:
- `_bp_result`
- `_prebuilt_bp_result`
- `_packages`, the umbrella module's list
- `_unused_custom_cflags`

## The module `BuildGenerator`

**Constants.** The constants are the data. Paths, names, libraries, flags and
include dirs are each a set. The string functions the code applies are
constant functions and sets:
- `os.path.basename` is `BaseName`;
- `replace('/','_')` is `FlatName`;
- `ArTargetToLibraryName` is `ArLibName`;
- `.endswith('.o')` is `IsObject`;
- `.startswith('testcases/bin/')` is `InScriptsDir`;
- `os.path.isdir` is `ExistingDirs`.

Lists become sets. This is safe because every list field of a module is
emitted sorted, and no decision depends on list order.

**Variables.** There is one variable per rule dict. The others are:
- `pass`: which call of `ParseInput` is running;
- `phase` and `todo`: which loop runs, and the keys it still has to visit;
- `status`: `running`, `done`, or the exception that ended the run;
- `bp`: `_bp_result`, from a key `<<"ltp", name>>` or `<<"libltp", lib>>` to a
  module record (kind, target, pass, cflags, incs, static, shared);
- `prebuilt`: `_prebuilt_bp_result`;
- `packages`: a sequence, because duplicates matter;
- `unused`;
- the two trackers, `ltp_libs_used` and `ltp_names_used`.

**Actions.** Each action is one iteration of a loop, taken for any remaining
key. Python dicts iterate in trace order, so every order is explored.

| Action | Lines | Disjuncts |
|---|---|---|
| `RemoveWnoError` | 335-339 | |
| `FilterIncludeDirs` | 361-364 | |
| `CompileLink(t)` | 366-390 | disabled name; an object with no `cc_compile` rule (the `raise` at 377 becomes `status = "MissingCompile"`); excluded by library or cflag; build |
| `Link(t)` | 392-417 | the same, with cflags and include dirs pooled over the objects (`Collect`); a missing `cc_compile[obj]` is the `KeyError` at 404 |
| `BuildExecutable` | 112-117 | duplicate base name, which skips |
| `ExeCustomCrash` | 119-121 | `set.extend` raises `AttributeError` on the link path; `remove` of an already removed entry raises `KeyError` |
| `ExeEmit` | 119-185 | custom cflags are spliced in; `include` is dropped; libraries are split into static (this trace's archives), bionic built-ins (dropped) and shared; the module is stored; the name is appended to `_packages`; static libs are marked used |
| `Ar(a)` | 419-447, 187-222 | not used; missing compile rule; disabled cflag; build |
| `Install(t)` | 449-469 | disabled by path or by base name; `assert len == 1` fails (`AssertionError`); shell script (`BuildShellScript`, 224-249); prebuilt (`BuildPrebuiltBp`, 251-278) |
| `NextLoop` | | moves to the next loop |
| `FinishParseInput` | 527-536 | starts the second call with fresh rules and trackers, or ends the run |

**Assumptions.** `ConstantsAssumption` types the constants. It also requires
every possible trace to satisfy `IsRuleTable`:
- every compiled object and compile-link target has `cc_flags` and
  `cc_includes`;
- every executable has `cc_libraries`.

This is the shape the trace parsers produce (spec section 3). As a result, the
only missing key the code can meet is an object without a `cc_compile` rule,
and the model keeps that case.

## Runs (`MC_BuildGenerator.tla`)

The instance is a small LTP tree with real-looking paths:
- **Compile-link tests:** three. `fs/bind/test01` and `fs/move/test01` share
  the base name `test01`. `fs/move/test01` has custom cflags.
  `ptrace/ptrace05` is disabled.
- **Linked tests:** four.
  - `numa/numa01` has custom cflags.
  - `ptrace/ptrace06` is disabled.
  - `fs/rbind/test01` is a third `test01`, and the only user of `libltpipc.a`.
- **Archives:** three, one of them (`libltpnuma.a`) a disabled library.
- **Install trace:** a script, a data file, and targets disabled by full path
  and by base name. As alternatives, it has a target with two sources, or two
  prebuilts that share a base name.

What varies between initial states (3888 make traces) is what real traces vary
in:
- the libraries each test links;
- whether two objects carry `-Wno-error` or the disabled `-DNUMA_V1`;
- whether a test or `libltp.a` names an object with no compile rule;
- which objects `mem/mmap01` links.

These bounds make every path happen:
- each disjunct of every action;
- both orders of each duplicate pair;
- an archive that is linked only by a test that may be skipped.

Larger sets only repeat these cases under more names.

**Fairness and termination.** No run assumes fairness, and no liveness
property is checked. `ParseInput` is a fixed sequence of `for` loops over
finite dicts, with no retry, no waiting and no external event, so that it
ends follows from the loop structure alone; a model property about it would
restate the encoding. `CHECK_DEADLOCK FALSE` is set because a finished or
crashed run really stops.

| Run | Expect | Shows |
|---|---|---|
| `resolve` | pass (100,882 states) | The properties below hold in every loop order of both calls over every trace listed above |
| `prebuilt_overwrite` | violation | `PackagesHaveModules`: two prebuilts with base name `test01` overwrite each other in `_prebuilt_bp_result` (line 277), yet both names stay in `_packages`. The umbrella module then requires a module that nothing defines |
| `dangling_static_dep` | violation | `StaticDepsBuilt`: an archive skipped for a disabled cflag (line 439) is still listed in `static_libs` by executables already emitted |
| `custom_cflags_crash` | violation | `NoUnexpectedException`: custom cflags on a `cc_link` test call `set.extend`, which raises `AttributeError` (line 120) |
| `custom_cflags_unsanitized` | violation | `EmittedCflagsSanitized`: custom cflags bypass both the `-Wno-error` removal and the disabled-cflags check |

The properties of `resolve`:
- **`TypeOK`.**
- **`ExclusionRespected`:** no emitted test is disabled or links a disabled
  library, and no static library of a disabled library is emitted. The
  archive loop never reads `disabled_libs`; it relies on `ltp_libs_used`.
  No script or prebuilt is installed for a target disabled by its path or
  its base name, in `_bp_result` or in `_prebuilt_bp_result`.
- **`StaticLibOnlyIfReferenced`:** every static library has an executable of
  the same call that links it.
- **`TrackersAgree`:** `ltp_names_used` and `ltp_libs_used` are exactly the
  names and static libraries of the executables this call built, whatever
  the skips.
- **`UnusedCustomCflagsExact`:** the "never seen" report names exactly the
  custom-cflags targets that no executable came from.
- **`StaticDepsBuiltOrCflagSkipped`:** once the archive loop of a call is
  over, every static library a test of that call lists is generated, unless
  an archive of it was dropped by the disabled-cflag check at line 439. This
  pins the `dangling_static_dep` finding to that one check: the executable
  loops fill `ltp_libs_used` before the archive loop reads it (line 422).
- **`CflagsSanitizedButCustom`:** a module carries `-Wno-error` or a
  disabled cflag only if the custom cflags JSON lists that flag. The removal
  loop (lines 337-339) must run before any loop reads `cc_flags`, in both
  calls. The link and archive loops pool the cflags of many objects and check
  them for disabled cflags only. Together with the `custom_cflags_unsanitized`
  violation, this shows that the custom cflags are the one way in.
- **`ExeNeverReplaced`** (an action property, `[][ExeModulesStable]_vars`):
  no step replaces or drops a generated test module. The threats are:
  - a later target with the same base name, because the second call starts
    `ltp_names_used` afresh (line 333);
  - a shell script or static library stored under the same module name.

Each property has a mutant, that is, a plausible bug that the run catches:
- packages get the base name;
- the library check is dropped;
- archives are kept if any archive has their library;
- libraries are marked used before the duplicate check;
- the custom entry is consumed before the duplicate check;
- the duplicate check is dropped;
- the archive loop runs between the two executable loops;
- the disabled-cflag check of the executable loops is dropped.

## The module `RuleTable` (`MC_RuleTable.tla`)

This module models how one `ParseInput` call builds its rules. A trace line
`relation['key'] = ['item', ...]` is abstracted to the three groups of the
regex: a relation, a key, and the list of raw items that `split(',')` yields.
- **Unquoting.** `i.strip()[1:-1]` is the table `Unquote` from `Token` to
  `Item`. So `'a'` and ` 'a'` become the same item.
- **`UniqueKeepOrder`.** It is a `FoldLeft` of `KeepStep` over the items,
  carrying the `seen` set and the output list, as the comprehension at
  line 72 does.
- **`HandleParsedRule`.** It stores the result with the nested `setdefault`
  of line 296.
- **`ParseLine`.** It reads any next line, up to `MaxLines`. The lines read
  so far are kept in `consumed`, which the properties use.
- **`EndOfInput`.** It reads the eight tables out with
  `rules.get(name, {})`.

The run `rule_table` checks three properties:
- **`TypeOK`.**
- **`RulesFromLastLine`.** It compares `rules` with reference definitions.
  After any prefix of the trace, a relation or key exists exactly when some
  line named it. Its list is `UniqueKeepOrder` of the stripped items of the
  *last* such line: a later line about the same target replaces the earlier
  list whole. After `EndOfInput`, each table has exactly the keys some line
  gave it.
- **`ItemsAtFirstOccurrence`.** That list is `FirstOccurrences` of those
  items, a declarative definition (each item once, at its first position)
  rather than the loop of line 72.

The instance has two relations, two targets and three raw items (`'a'`,
` 'a'`, ` 'b'`), with up to three items per line and two lines. So a line
can have a duplicate that appears only after stripping. Two lines cover
every branch of `HandleParsedRule`:
- a new relation;
- a new key of a known relation;
- a key seen before.

The run reaches 51,522 states. Its mutants:
- the items keep their quotes (this breaks `TypeOK`);
- the first line about a key wins (this breaks `RulesFromLastLine`);
- `seen.add` is forgotten, so duplicates are kept (this breaks
  `ItemsAtFirstOccurrence`).

`BuildGenerator` reads these tables as the constant `Traces`. It abstracts
each list to its set of items, because the engine never depends on list
order.

## Proofs (`BuildGeneratorProofs.tla`)

TLAPS proves these theorems for every value of the constants that satisfies
`ConstantsAssumption`:

- **`TypeCorrect == Spec => []TypeOK`.** `TypeOK` is inductive as it stands.
  It includes `todo \subseteq LoopKeys(phase)` and the domain inclusions of
  `IsRuleTable`, which are what make every lookup of a loop type-correct.
  - There is one lemma per action.
  - `BuildExecutableType` covers the three outcomes of `BuildExecutable`.
  - `LoopStepType` and `LoopSkipType` discharge the frame of a loop
    iteration.
- **`ExclusionSafe == Spec => []ExclusionRespected`.** `ExclusionRespected`
  is not inductive. The archive step emits a library whenever its name is in
  `ltp_libs_used`, so the inductive invariant `ExclInv` adds
  `ltp_libs_used \cap DisabledLibs = {}`. This holds because
  `BuildExecutable` only marks libraries of a test that passed the
  disabled-library check. `ExclInv` also says that every prebuilt in the
  prebuilt store passed the install loop's disabled-test check
  (`PrebuiltExcl`). TLC checked `ExclInv` on the `resolve` instance before
  the proof was written.

## Proof of the cflags sanitation (`CflagsProofs.tla`)

`CflagsSanitizedButCustomSafe == Spec => []CflagsSanitizedButCustom` is
proved for every value of the constants, with no hypothesis on the traces.
The property is not inductive. The link and archive steps pool `cc_flags`,
and their checks look only for disabled cflags, so a pooled `-Wno-error`
would get through. The inductive invariant `CleanInv` therefore adds
`FlagsClean`: outside the phase `"flags"`, an entry of `cc_flags` holds
`-Wno-error` only as a custom flag. The in-place extension of line 120 may
put one there.
- `RemoveWnoErrorClean`: the removal loop establishes `FlagsClean`.
- `QuietClean`: the end of the first call reloads `cc_flags`, but it sets
  the phase back to `"flags"`.
- `CompileLinkClean`, `LinkClean`, `ArClean`: each loop checks the disabled
  cflags of what it builds. `CollectClean` bounds the pooled flags.
  `BuildExecutableClean` covers the custom flags that an executable adds.
- `InstallClean`: scripts have no cflags.

TLC checked `CleanInv` on the `resolve` instance, and again with custom
cflags that hold `-Wno-error` and `-DNUMA_V1`, before the proof.

## Proofs across both calls (`BuildGeneratorCallProofs.tla`)

Four more properties do not hold for every constant. They fail when the
install trace has a compile-link rule, or when a `FlatName` equals a test's
base name. In either case a later module overwrites an earlier test. The
module states the two facts of the real inputs that rule this out, and
`MC_BuildGenerator` assumes both:
- `InstallTraceBuildsNothing`: the `make install` parser reports install
  rules only;
- `ScriptNamesDistinct`: a script's flattened path is never a test's base
  name.

Under these two hypotheses TLAPS proves:
- `TrackersAgreeSafe == Spec => []TrackersAgree`;
- `UnusedCustomCflagsSafe == Spec => []UnusedCustomCflagsExact`;
- `StaticLibReferencedSafe == Spec => []StaticLibOnlyIfReferenced`;
- `ExeNeverReplacedSafe == Spec => ExeNeverReplaced`.

The inductive invariant is `CallInv`. It is `TypeOK` and the three invariants,
plus two conjuncts:
- `KeyShape`: a test is stored under `<<"ltp", base name>>` and was built by
  the first call; a script is stored under `<<"ltp", flattened path>>`; a
  static library's name has the `libltp` tag.
- `Pass2NoExe`: the second call has no executable rule.

TLC checked `CallInv` on the `resolve` instance before the proof. The
argument has one lemma per kind of step:
- `ExeEmitCall`: a test is stored under a name that is free (`ExeKeyFree`).
  - No test of this call has the name, by `TrackersAgree`.
  - No test of another call exists yet.
  - No script has it, by `ScriptNamesDistinct`.
  - No library has it, because of the tag.
  So the trackers grow by exactly its base name and its static libraries,
  and the custom-cflags entry it consumes is its own.
- `ArCall`: an archive is built only when its library is in `ltp_libs_used`.
  By `TrackersAgree`, that names a test of this call, which is the witness
  `StaticLibOnlyIfReferenced` needs.
- `InstallCall`: a script's name is never a test's or a library's.
- `FinishParseInputCall`: every test belongs to the first call, so the
  second call starts with no test of its own and empty trackers.
- `QuietStep`: this covers every other step.

The following are out of the prover's reach and stay with TLC:
- liveness and `ENABLED` (no liveness property is stated: see Fairness);
- induction over data.

## Refinement: the module store (`ModuleStore.tla`, `StoreRefinementProofs.tla`)

`ModuleStore` states what `ParseAll` promises of `_bp_result`, one module at
a time, with no trackers, loops or order. Its state is the call (1 or 2),
the tables of the current trace that the engine reads but never rewrites,
and the store of modules (name -> kind, target, call, static libraries).
A step may:
- `AddTest(t)`: add a test for a compile-link or link target. The target is
  not a disabled test, it links no disabled library, and its name is free.
  The module records the libraries it links that this trace archives.
- `AddStaticLib(a)`: add a static library for an archive of the trace, if a
  test of the same call links it statically.
- `AddScript(t)`: add a script for an enabled install target under the
  scripts directory, under a name no test holds.
- `NextCall`: start the second call on the install trace.

Nothing is ever removed and a test is never replaced. The promise is weaker
than the code on purpose: it says nothing of cflags, of the prebuilt store or
of the order of the loops.

`BuildGenerator` maps onto it by `Store == INSTANCE ModuleStore WITH call <-
pass, trace <- the five tables, mods <- StoreMods`. `StoreMods` is `bp` seen
through those four fields. The property is `ImplementsStore == Store!Spec`.
- Run `refines_store` (`MC_Refinement.cfg`, the `resolve` constants) checks
  it with TLC. The mutant `ArUsed_AnyArchive` violates it: it builds an
  archive that no test of this call links.
- Theorem `StoreRefinement` proves it for every value of the constants,
  under the two hypotheses above. It rests on `CallInv`:
  - an executable step is `AddTest` or a stutter (`ExeLoopRefines`); the
    name is free by `ExeKeyFree`;
  - an archive step is `AddStaticLib` or a stutter, with the witness test
    from `TrackersAgree` (`ArRefines`);
  - an install step is `AddScript` or a stutter (`InstallRefines`);
  - the end of the first call is `NextCall`, and the end of the second is a
    stutter (`FinishParseInputRefines`);
  - every other step leaves the view unchanged (`StoreStutter`).

## Proofs about the rule table (`RuleTableProofs.tla`)

`RulesFromLastLineSafe == Spec => []RulesFromLastLine` is proved for every
value of the constants. The inductive invariant `RuleInv` adds the types of
`consumed` and `done`. `ParseLineRuleInv` is the step: the new line is the last
line about its key, and every other key keeps its last line, which
`StoredStable` shows once for every step that leaves `rules` and `consumed`
alone. The proof never opens `UniqueKeepOrder`: it only needs that the stored
list is that function of the last line's items.

`ItemsAtFirstOccurrence` and the item typing in `TypeOK` stay with TLC. They
say what the fold `UniqueKeepOrder` computes, which is induction over the
list. The provers see a recursive function only as a `CHOOSE`, and the
induction theorems of the library take an operator parameter that they cannot
instantiate.

## Proof of the static-library dependencies (`StaticDepsProofs.tla`)

`StaticDepsBuiltOrCflagSkippedSafe` proves `Spec =>
[]StaticDepsBuiltOrCflagSkipped` under `InstallTraceBuildsNothing` and
`ScriptNamesDistinct`. The inductive invariant `DepsInv` holds in healthy
states:
- every static library a test of this call lists is an LTP library (the
  executable step records only those, line 165);
- from the archive loop on, each of them is `Accounted`: it is already
  built, or an archive of it is still in the archive loop's `todo`, or an
  archive of it fails the disabled-cflag check.

The archive step (`DepsAr`) uses `TrackersAgree` from `CallInv`: a listed
library is in `ltp_libs_used`, so the archive, unless dropped for its cflags,
is built. The end of the first call (`DepsFinish`) uses `KeyShape`: every
test belongs to the first call, so the second call starts with none of its
own. The theorem is `[]CallInv` (from `CallInvariant`) and the induction step
`NextDeps`, combined by PTL. TLC checked `DepsInv` on the `resolve` instance
before the proof.

## Not modelled

- The regex match of a trace line (line 287). `RuleTable` starts from its
  three groups; the trace parser only writes well-formed lines.
- Reading the policy files.
- The emitter's text, including the source-path rewrite
  `replace('testcases/', '', 1)` at line 261, which removes the first
  occurrence anywhere in the path, not a prefix.
- The diagnostic printing at lines 341-359.
- `main`.

## Plan for later work

1. A run whose install trace holds executable rules. This would show the
   cross-call overwrite and the `KeyError` at line 121.
2. Carry the refinement to the prebuilt store (`_prebuilt_bp_result`),
   where a later install may replace an earlier prebuilt.
