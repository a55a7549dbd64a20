---------------------------- MODULE MCExecution ----------------------------
(***************************************************************************)
(* One run for programs, native modules and the work queue that defers     *)
(* their work.  Each behaviour is one of one component, which `component`  *)
(* names; the variables of the others keep their initial values, in which  *)
(* no action that is assumed to be fair is enabled.                        *)
(***************************************************************************)
EXTENDS EbpfWorkQueue, Integers, FiniteSets

CONSTANTS
  \* EbpfProgram
  Programs, Threads, Maps, VersionsOf(_), Prototype(_,_), Helpers, HelperSets,
  CompiledAgainst, MapLists, CodeTypes, MAX_TAIL_CALL_CNT, MaxRegistrations,
  ProgramMaxRequests, Requested,
  \* EbpfNative
  Requesters, MapList, ProgramList, Versions, MinimumVersion, NativeMaxRequests, MaxPins

VARIABLES
  component,   \* the component this behaviour is one of
  \* EbpfProgram
  provider, object, program, client, map_references, program_call, program_requests,
  \* EbpfNative
  driver, core, module, incarnation, maps, programs, map_objects, pins, unload_items,
  native_call, native_requests, foreign

program_vars == <<provider, object, program, client, map_references, program_call,
  program_requests>>
native_vars == <<driver, core, module, incarnation, maps, programs, map_objects, pins,
  unload_items, native_call, native_requests, foreign>>

Prog == INSTANCE EbpfProgram WITH
  MaxRequests <- ProgramMaxRequests, call <- program_call, requests <- program_requests
Native == INSTANCE EbpfNative WITH
  MaxRequests <- NativeMaxRequests, call <- native_call, requests <- native_requests

\* The second version has one helper less than the first, and the third has
\* another description and another helper.
MCPrototype(v, h) ==
  CASE v = 1 -> IF h = "h3" THEN None ELSE "a"
    [] v = 2 -> IF h \in {"h2", "h3"} THEN None ELSE "a"
    [] v = 3 -> IF h = "h2" THEN None ELSE IF h = "description" THEN "b" ELSE "a"
MCVersionsOf(n) == IF n = 1 THEN {1} ELSE {2, 3}
MCHelperSets == {{}, {"h1"}}
MCCompiledAgainst == {[ids |-> {"h1"}, version |-> 1]}
MCMapLists == {<<"m1", "m2">>}

\* A pinned map, and a map of maps before its inner map.
MCMapList == <<[pin |-> FALSE, inner |-> 2], [pin |-> TRUE, inner |-> 0]>>
MCProgramList == <<{1, 2}, {2}>>
MCVersions == {<<0, 0, 0>>, <<1, 1, 0>>}
MCMinimumVersion == <<1, 0, 0>>

MCInit ==
  /\ component \in {"work_queue", "program", "native"}
  /\ Init /\ Prog!Init /\ Native!Init

MCNext ==
  /\ UNCHANGED component
  /\ IF component = "work_queue" THEN Next ELSE UNCHANGED vars
  /\ IF component = "program" THEN Prog!Next ELSE UNCHANGED program_vars
  /\ IF component = "native" THEN Native!Next ELSE UNCHANGED native_vars

MCSpec ==
  /\ MCInit /\ [][MCNext]_<<component, vars, program_vars, native_vars>>
  /\ Fairness /\ Prog!Fairness /\ Native!Fairness

-----------------------------------------------------------------------------
\* Program code that runs is allocated, verified and outlived by its extension
\* (ebpf_program.c).
ProgramInv == Prog!ProgramInv

\* The references of a native module are exact, and a failed load leaves nothing
\* behind (ebpf_native.c).
NativeInv == Native!NativeInv

\* "If the pointer is not null, then the extension is loaded and will remain
\* loaded until at least after the current epoch ends" (ebpf_program_invoke).
LoadedUntilEpochEnds == Prog!LoadedUntilEpochEnds

Leaving == Prog!Leaving \/ Native!Unloading

\* What is unloaded goes away: an extension that leaves is detached from every
\* program, and a native driver that nobody uses any more is stopped, whatever
\* invocations, test runs and requests are under way.
UnloadCompletes == Leaving ~> ~Leaving
=============================================================================
