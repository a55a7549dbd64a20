----------------------------- MODULE EbpfCoreLoad -----------------------------
(***************************************************************************)
(* Loading and unloading the execution context: DriverEntry and            *)
(* ebpf_core_initiate bring the parts up one by one, a failure and an      *)
(* unload take them down with ebpf_core_terminate, while programs may      *)
(* still be pinned, attached and running.                                  *)
(***************************************************************************)
EXTENDS Integers, Sequences, FiniteSets

CONSTANTS Programs

VARIABLES
  mode,      \* "kernel", or "user" for the user-mode build of the same code
  pc,        \* "initiate", "running", "terminate" or "gone"
  todo,      \* the parts still to be initiated or terminated, in order
  parts,     \* the parts that are initiated
  phase,     \* of each program: "none", "live", "detaching", "deferred", "freed"
  handle,    \* programs that a handle refers to
  pinned,    \* programs in the pinning table
  attached,  \* programs whose link is registered with a hook
  calls,     \* programs being invoked through their link
  native     \* programs whose native module is attached

vars == <<mode, pc, todo, parts, phase, handle, pinned, attached, calls, native>>

\* The order of DriverEntry and ebpf_core_initiate.
InitiateOrder ==
  <<"trace", "device", "platform", "random", "epoch", "state", "async", "object", "pinning",
    "handles", "program", "native", "helpers">>

TerminateOrder_StateFirst ==
  <<"helpers", "program", "handles", "async", "state", "pinning", "object", "epoch", "native",
    "trace", "random", "platform", "device">>

\* The order of ebpf_core_terminate; WDF or DriverEntry deletes the device.
TerminateOrder ==
  <<"helpers", "program", "handles", "async", "pinning", "state", "object", "epoch", "native",
    "trace", "random", "platform", "device">>

Parts == {InitiateOrder[i] : i \in 1..Len(InitiateOrder)}

TypeOK ==
  /\ mode \in {"kernel", "user"} /\ pc \in {"initiate", "running", "terminate", "gone"}
  /\ parts \subseteq Parts
  /\ phase \in [Programs -> {"none", "live", "detaching", "deferred", "freed"}]
  /\ \A s \in {handle, pinned, attached, calls, native} : s \subseteq Programs

Init ==
  /\ mode \in {"kernel", "user"} /\ pc = "initiate" /\ todo = InitiateOrder /\ parts = {}
  /\ phase = [p \in Programs |-> "none"]
  /\ handle = {} /\ pinned = {} /\ attached = {} /\ calls = {} /\ native = {}

programVars == <<phase, handle, pinned, attached, calls, native>>

-----------------------------------------------------------------------------
(* Initiate. *)

\* The next part comes up.
InitiatePart ==
  /\ pc = "initiate" /\ todo # <<>>
  /\ parts' = parts \cup {Head(todo)} /\ todo' = Tail(todo)
  /\ pc' = IF todo' = <<>> THEN "running" ELSE pc
  /\ UNCHANGED <<mode, programVars>>

\* A part fails to come up; once the core is being initiated every part is
\* terminated, the ones that were never up included.  The handle table and
\* the program's state index do not fail.  ebpf_get_code_integrity_state is
\* the last call that can, after the helper provider is registered.
InitiateFails ==
  /\ pc = "initiate" /\ todo # <<>> /\ Head(todo) \notin {"object", "handles", "program"}
  /\ \/ parts' = parts
     \/ Head(todo) = "helpers" /\ parts' = parts \cup {"helpers"}
  /\ pc' = "terminate"
  /\ todo' = IF Head(todo) \in {"trace", "device"} THEN <<"trace", "device">> ELSE TerminateOrder
  /\ UNCHANGED <<mode, programVars>>

\* ebpf_core_initiate does not look at what ebpf_object_tracking_initiate
\* returns, and goes on without a table of ids.
TrackingFails ==
  /\ pc = "initiate" /\ todo # <<>> /\ Head(todo) = "object"
  /\ todo' = Tail(todo)
  /\ UNCHANGED <<mode, pc, parts, programVars>>

-----------------------------------------------------------------------------
(* Programs while the core is up. *)

Tracked_NotChecked == TRUE

\* ebpf_object_initialize enters the object in the table of ids, and fails
\* when there is none: then no object can be created.
Tracked == "object" \in parts

\* A request of a handle's owner creates, pins, unpins or attaches a program,
\* or closes the handle.
Create(p) ==
  /\ pc = "running" /\ phase[p] = "none" /\ Tracked
  /\ phase' = [phase EXCEPT ![p] = "live"] /\ handle' = handle \cup {p}
  /\ native' = native \cup {p}
  /\ UNCHANGED <<mode, pc, todo, parts, pinned, attached, calls>>

Pin(p) ==
  /\ pc = "running" /\ p \in handle
  /\ pinned' \in {pinned \cup {p}, pinned \ {p}} /\ pinned' # pinned
  /\ UNCHANGED <<mode, pc, todo, parts, phase, handle, attached, calls, native>>

Attach(p) ==
  /\ pc = "running" /\ p \in handle /\ p \notin attached
  /\ attached' = attached \cup {p}
  /\ UNCHANGED <<mode, pc, todo, parts, phase, handle, pinned, calls, native>>

\* The last reference is released: the links are detached before the release
\* returns (_ebpf_program_zero_ref_count), the rest waits for the epoch.
Released(ps, refs) == {p \in ps : p \notin refs}

Close(p) ==
  /\ pc = "running" /\ p \in handle /\ handle' = handle \ {p}
  /\ phase' = IF p \in pinned THEN phase ELSE [phase EXCEPT ![p] = "detaching"]
  /\ UNCHANGED <<mode, pc, todo, parts, pinned, attached, calls, native>>

\* The hook invokes the link, which stores the program's state; not once
\* NmrDeregisterClient has started the rundown of the hook's client.
Invoke(p) ==
  /\ p \in attached /\ p \notin calls /\ phase[p] # "detaching"
  /\ calls' = calls \cup {p}
  /\ UNCHANGED <<mode, pc, todo, parts, phase, handle, pinned, attached, native>>

Return(p) ==
  /\ p \in calls /\ calls' = calls \ {p}
  /\ UNCHANGED <<mode, pc, todo, parts, phase, handle, pinned, attached, native>>

DetachReady_AnyTime(p) == TRUE

\* NmrWaitForClientDeregisterComplete: the calls of the link have returned.
DetachReady(p) == p \notin calls

\* ebpf_link_detach_program is over; the program goes to the epoch's free list.
Detached(p) ==
  /\ phase[p] = "detaching" /\ DetachReady(p)
  /\ phase' = [phase EXCEPT ![p] = "deferred"] /\ attached' = attached \ {p}
  /\ UNCHANGED <<mode, pc, todo, parts, handle, pinned, calls, native>>

\* The epoch ends: _ebpf_object_epoch_free, which gives up the rundown
\* reference and the reference on the native module.
EpochFree(p) ==
  /\ phase[p] = "deferred" /\ phase' = [phase EXCEPT ![p] = "freed"]
  /\ UNCHANGED <<mode, pc, todo, parts, handle, pinned, attached, calls, native>>

\* The module's driver is unloaded and its provider detaches.
NativeDetach(p) ==
  /\ phase[p] = "freed" /\ p \in native /\ native' = native \ {p}
  /\ UNCHANGED <<mode, pc, todo, parts, phase, handle, pinned, attached, calls>>

-----------------------------------------------------------------------------
(* Terminate. *)

\* _ebpf_driver_unload.  Windows unloads a driver when no file is open on it,
\* one whose close is still detaching links included; the user-mode build is
\* terminated with whatever handles it has.
Unload ==
  /\ pc = "running" /\ pc' = "terminate" /\ todo' = TerminateOrder
  /\ mode = "kernel" => handle = {}
  /\ \A p \in Programs : phase[p] # "detaching"
  /\ UNCHANGED <<mode, parts, programVars>>

Waits_NotForModules(part) ==
  \/ \E p \in Programs : phase[p] = "detaching"
  \/ part = "object" /\ \E p \in Programs : phase[p] \in {"live", "deferred"}
  \/ part = "epoch" /\ \E p \in Programs : phase[p] = "deferred"

\* What a terminate function waits for: the detach of the links of programs
\* released by the previous one, the rundown of all objects, the work items of
\* the epoch, the detach of every native module.
Waits(part) ==
  \/ \E p \in Programs : phase[p] = "detaching"
  \/ part = "object" /\ \E p \in Programs : phase[p] \in {"live", "deferred"}
  \/ part = "epoch" /\ \E p \in Programs : phase[p] = "deferred"
  \/ part = "native" /\ native # {}

Drops_PinsKept(part) == IF part = "handles" THEN Released(handle, pinned) ELSE {}

\* ebpf_handle_table_terminate of the user-mode build closes every handle, and
\* ebpf_pinning_table_free unpins every object.
Drops(part) ==
  IF part = "handles" THEN Released(handle, pinned)
  ELSE IF part = "pinning" THEN Released(pinned, handle) ELSE {}

TerminatePart ==
  /\ pc = "terminate" /\ todo # <<>> /\ ~Waits(Head(todo))
  /\ parts' = parts \ {Head(todo)} /\ todo' = Tail(todo)
  /\ handle' = IF Head(todo) = "handles" THEN {} ELSE handle
  /\ pinned' = IF Head(todo) = "pinning" THEN {} ELSE pinned
  /\ phase' = [p \in Programs |-> IF p \in Drops(Head(todo)) THEN "detaching" ELSE phase[p]]
  /\ pc' = IF todo' = <<>> THEN "gone" ELSE pc
  /\ UNCHANGED <<mode, attached, calls, native>>

Next ==
  \/ InitiatePart \/ InitiateFails \/ TrackingFails \/ Unload \/ TerminatePart
  \/ \E p \in Programs :
       \/ Create(p) \/ Pin(p) \/ Attach(p) \/ Close(p) \/ Invoke(p) \/ Return(p)
       \/ Detached(p) \/ EpochFree(p) \/ NativeDetach(p)

Spec == Init /\ [][Next]_vars

\* Hooks return, epochs end, drivers unload and terminate goes on.
Fairness ==
  /\ WF_vars(TerminatePart)
  /\ \A p \in Programs : /\ WF_vars(Return(p)) /\ WF_vars(Detached(p))
                         /\ WF_vars(EpochFree(p)) /\ WF_vars(NativeDetach(p))

FairSpec == Spec /\ Fairness

-----------------------------------------------------------------------------
\* A part is terminated only after everything that uses it is gone: an
\* attached program stores its state, enters the epoch and is found through
\* the object table; an object waits for the epoch to free it; a native module
\* is entered in the client table; and only a program with a reference lives.
\* That holds for a core that came up without its table of ids as well.
\* When a load that failed or an unload is over, nothing is left at all.
PartsOutliveUsers ==
  /\ TypeOK
  /\ calls \subseteq attached
  /\ attached # {} => {"state", "epoch", "object", "platform"} \subseteq parts
  /\ (\E p \in Programs : phase[p] \in {"live", "detaching", "deferred"})
       => {"epoch", "object", "device"} \subseteq parts
  /\ native # {} => "native" \in parts
  /\ \A p \in Programs : phase[p] = "live" => p \in handle \cup pinned
  /\ pc = "gone" => /\ parts = {} /\ native = {}
                    /\ \A p \in Programs : phase[p] \in {"none", "freed"}

\* ebpf_core_terminate blocks on programs, epochs and modules, and returns.
Terminating == pc = "terminate"
TerminateReturns == Terminating ~> pc = "gone"
=============================================================================
