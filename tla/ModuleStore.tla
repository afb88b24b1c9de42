---------------------------- MODULE ModuleStore ----------------------------
(***************************************************************************)
(* What the resolution engine promises of the modules it generates         *)
(* (_bp_result), stated one module at a time and without the engine's      *)
(* trackers, loops or order.  During a ParseInput call over the rules of   *)
(* 'trace' the store may gain                                              *)
(*  - a test module for a compile-link or link target that is not a        *)
(*    disabled test and links no disabled library, under a name no module *)
(*    holds yet, recording the libraries it links statically;             *)
(*  - a static library for an archive of the trace that a test of the same *)
(*    call links statically;                                               *)
(*  - a shell-script module for an enabled install target under the        *)
(*    scripts directory, under a name no test holds;                       *)
(* and after the first call the second one starts on the install trace.   *)
(* Nothing is ever removed, and a test is never replaced.                  *)
(***************************************************************************)
CONSTANTS File, Name, Lib, BaseName, FlatName, ArLibName, InScriptsDir,
          DisabledTests, DisabledLibs, Traces

\* The tables of a trace's rules that the engine reads but never rewrites.
Visible(r) == [ar |-> r.ar, cc_link |-> r.cc_link,
               cc_compilelink |-> r.cc_compilelink,
               cc_libraries |-> r.cc_libraries, install |-> r.install]

VARIABLES
    call,   \* which ParseInput call runs
    trace,  \* the visible tables of its rules
    mods    \* module name -> [kind, target, call, static]

avars == <<call, trace, mods>>

Init ==
    /\ call = 1
    /\ trace \in {Visible(r) : r \in Traces[1]}
    /\ mods = [x \in {} |-> x]

\* mods[k] = m, the one change of a step.
Store(k, m) ==
    mods' = [x \in DOMAIN mods \cup {k} |-> IF x = k THEN m ELSE mods[x]]

\* The libraries this trace builds archives for.
ArchivedLibs == {ArLibName[a] : a \in DOMAIN trace.ar}

AddTest(t) ==
    LET key == <<"ltp", BaseName[t]>> IN
    /\ t \in DOMAIN trace.cc_compilelink \cup DOMAIN trace.cc_link
    /\ BaseName[t] \notin DisabledTests
    /\ trace.cc_libraries[t] \cap DisabledLibs = {}
    /\ key \notin DOMAIN mods
    /\ Store(key, [kind |-> "exe", target |-> t, call |-> call,
                   static |-> trace.cc_libraries[t] \cap ArchivedLibs])
    /\ UNCHANGED <<call, trace>>

AddStaticLib(a) ==
    /\ a \in DOMAIN trace.ar
    /\ \E e \in DOMAIN mods : /\ mods[e].kind = "exe"
                             /\ mods[e].call = call
                             /\ ArLibName[a] \in mods[e].static
    /\ Store(<<"libltp", ArLibName[a]>>,
             [kind |-> "lib", target |-> a, call |-> call, static |-> {}])
    /\ UNCHANGED <<call, trace>>

AddScript(t) ==
    LET key == <<"ltp", FlatName[t]>> IN
    /\ t \in DOMAIN trace.install \cap InScriptsDir
    /\ t \notin DisabledTests
    /\ BaseName[t] \notin DisabledTests
    /\ key \in DOMAIN mods => mods[key].kind # "exe"
    /\ Store(key, [kind |-> "sh", target |-> t, call |-> call, static |-> {}])
    /\ UNCHANGED <<call, trace>>

NextCall ==
    /\ call = 1
    /\ call' = 2
    /\ trace' \in {Visible(r) : r \in Traces[2]}
    /\ UNCHANGED mods

Next ==
    \/ \E t \in File : AddTest(t) \/ AddStaticLib(t) \/ AddScript(t)
    \/ NextCall

Spec == Init /\ [][Next]_avars

=============================================================================
