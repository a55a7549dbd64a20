--------------------------- MODULE NetEbpfExtHook ---------------------------
(* The network extension's side of a hook: attach, classify, flows, detach.   *)
(* net_ebpf_ext_hook_provider.c keeps the attached clients and their rundown; *)
(* net_ebpf_ext.c the reference-counted filter context that WFP filters point *)
(* to; net_ebpf_ext_bind.c and net_ebpf_ext_sock_ops.c the callbacks.  WFP    *)
(* (filters, classify calls, flows) is external.  A classify call of the bind *)
(* hook only invokes the program; one of the sock_ops hook is about a new     *)
(* flow, with which it associates a flow context.                             *)
EXTENDS Naturals, FiniteSets

CONSTANTS
  Clients,       \* hook clients: links that attach once and detach once
  BindClients,   \* the clients of the bind hook; the others are of sock_ops
  Parameter,     \* Parameter[c]: the attach parameter of client c
  Wildcard,      \* the wildcard attach parameter
  Filters,       \* the WFP filters of one client (one per layer)
  Classifiers,   \* WFP threads that call classify
  Flows,         \* WFP flows, numbered in the order in which they are classified
  CountModulus   \* flow_context_list.count wraps here (2^32 in the code)

NoClient == "no_client"
NoFlow == 0

VARIABLES
  cstate,            \* cstate[c]: progress of c's attach and detach
  attached,          \* attached_clients_list
  rundown_count, rundown_started,
  fc_refs,           \* reference_count of c's filter context, 0 when freed
  client_detached,
  filter,            \* filter[c][f]: state of a WFP filter
  flow_list, flow_count,   \* flow_context_list of c's filter context
  local_list,        \* the detaching thread's local list
  removing,          \* the flow the detaching thread took from it
  tpc, tclient, tfilter, tflow,   \* classify threads
  flow, fowner, fpc  \* flows: WFP's view, filter context, flow_delete call

context == <<fc_refs, rundown_count>>
lists == <<flow_list, flow_count, local_list, removing>>
classify == <<tpc, tclient, tfilter, tflow>>
flows == <<flow, fowner, fpc>>
vars == <<cstate, attached, context, rundown_started, client_detached, filter,
          lists, classify, flows>>

ClientStates == {"idle", "checked", "filters", "attached", "drain", "loop",
                 "unlink", "remove", "cleaned", "queued", "rundown", "freed"}

TypeOK ==
  /\ cstate \in [Clients -> ClientStates]
  /\ attached \subseteq Clients
  /\ rundown_count \in [Clients -> Nat]
  /\ rundown_started \in [Clients -> BOOLEAN]
  /\ fc_refs \in [Clients -> Nat]
  /\ client_detached \in [Clients -> BOOLEAN]
  /\ filter \in [Clients -> [Filters -> {"none", "added", "deleting", "deleted"}]]
  /\ flow_list \in [Clients -> SUBSET Flows]
  /\ flow_count \in [Clients -> 0..CountModulus - 1]
  /\ local_list \in [Clients -> SUBSET Flows]
  /\ removing \in [Clients -> Flows \cup {NoFlow}]
  /\ tpc \in [Classifiers -> {"idle", "check", "enter", "reference", "invoke",
                              "associate", "insert", "dereference", "leave"}]
  /\ tclient \in [Classifiers -> Clients \cup {NoClient}]
  /\ tfilter \in [Classifiers -> Filters \cup {"no_filter"}]
  /\ tflow \in [Classifiers -> Flows \cup {NoFlow}]
  /\ flow \in [Flows -> {"none", "classifying", "associated", "removing",
                       "ended", "gone"}]
  /\ fowner \in [Flows -> Clients \cup {NoClient}]
  /\ fpc \in [Flows -> {"none", "check", "enter", "remove", "invoke",
                        "dereference", "dereference_only", "leave"}]

Init ==
  /\ cstate = [c \in Clients |-> "idle"]
  /\ attached = {}
  /\ rundown_count = [c \in Clients |-> 0]
  /\ rundown_started = [c \in Clients |-> FALSE]
  /\ fc_refs = [c \in Clients |-> 0]
  /\ client_detached = [c \in Clients |-> FALSE]
  /\ filter = [c \in Clients |-> [f \in Filters |-> "none"]]
  /\ flow_list = [c \in Clients |-> {}]
  /\ flow_count = [c \in Clients |-> 0]
  /\ local_list = [c \in Clients |-> {}]
  /\ removing = [c \in Clients |-> NoFlow]
  /\ tpc = [t \in Classifiers |-> "idle"]
  /\ tclient = [t \in Classifiers |-> NoClient]
  /\ tfilter = [t \in Classifiers |-> "no_filter"]
  /\ tflow = [t \in Classifiers |-> NoFlow]
  /\ flow = [n \in Flows |-> "none"]
  /\ fowner = [n \in Flows |-> NoClient]
  /\ fpc = [n \in Flows |-> "none"]

Set(g, x, v) == [g EXCEPT ![x] = v]
Goto(c, from, to) == cstate[c] = from /\ cstate' = Set(cstate, c, to)

-----------------------------------------------------------------------------
(* References and rundown.                                                  *)

\* ExAcquireRundownProtection fails once the wait for rundown has started.
CanEnter(c) == ~rundown_started[c]
EnterRundown(c) == rundown_count' = Set(rundown_count, c, rundown_count[c] + 1)
LeaveRundown(c) == rundown_count' = Set(rundown_count, c, rundown_count[c] - 1)

\* DEREFERENCE_FILTER_CONTEXT: the last reference also leaves the rundown that
\* filter_context_create entered, and frees the context.
DereferenceFilterContext(c) ==
  /\ fc_refs' = Set(fc_refs, c, fc_refs[c] - 1)
  /\ IF fc_refs[c] = 1 THEN LeaveRundown(c) ELSE UNCHANGED rundown_count

-----------------------------------------------------------------------------
(* Attach.                                                                  *)

SameHook(c) == {d \in Clients : d \in BindClients <=> c \in BindClients}

\* check_attach_parameter (the bind hook treats every client as a wildcard):
\* under the shared lock of the hook's provider, which is then released.
Allowed(c) ==
  IF Parameter[c] = Wildcard
  THEN attached \cap SameHook(c) = {}
  ELSE \A d \in attached \cap SameHook(c) :
         Parameter[d] \notin {Wildcard, Parameter[c]}

AttachCheck(c) ==
  /\ Allowed(c)
  /\ Goto(c, "idle", "checked")
  /\ UNCHANGED <<attached, context, rundown_started, client_detached, filter,
                 lists, classify, flows>>

\* filter_context_create: one initial reference and a rundown reference on the
\* client; add_wfp_filters: one more reference per filter.
CreateFilterContext(c) == EnterRundown(c)

AddWfpFilters(c) ==
  /\ fc_refs' = Set(fc_refs, c, 1 + Cardinality(Filters))
  /\ filter' = Set(filter, c, [f \in Filters |-> "added"])

\* If the transaction fails the context and the hook client are freed and the
\* attach is refused.
AttachFilters(c) ==
  /\ \/ /\ Goto(c, "checked", "filters")
        /\ CreateFilterContext(c) /\ AddWfpFilters(c)
     \/ /\ Goto(c, "checked", "idle")
        /\ UNCHANGED <<context, filter>>
  /\ UNCHANGED <<attached, rundown_started, client_detached, lists, classify,
                 flows>>

\* The client joins the provider's list under the exclusive lock.
AttachInsert(c) ==
  /\ Goto(c, "filters", "attached")
  /\ attached' = attached \cup {c}
  /\ UNCHANGED <<context, rundown_started, client_detached, filter, lists,
                 classify, flows>>

-----------------------------------------------------------------------------
(* Detach: detach_callback, removal from the list, the work item.           *)

DetachDeleteFilters(c) ==
  /\ Goto(c, "attached", "drain")
  /\ filter' = Set(filter, c, [f \in Filters |-> "deleting"])
  /\ UNCHANGED <<attached, context, rundown_started, client_detached, lists,
                 classify, flows>>

\* Under the spin lock the flow contexts move to a local list.
DetachDrain(c) ==
  /\ Goto(c, "drain", "loop")
  /\ IF flow_count[c] > 0
     THEN /\ local_list' = Set(local_list, c, flow_list[c])
          /\ flow_list' = Set(flow_list, c, {})
          /\ flow_count' = Set(flow_count, c, 0)
     ELSE UNCHANGED <<local_list, flow_list, flow_count>>
  /\ UNCHANGED <<attached, context, rundown_started, client_detached, filter,
                 removing, classify, flows>>

\* RemoveHeadList on the local list, without the lock: the head is read, and
\* then unlinked.
DetachHead(c, n) ==
  /\ n \in local_list[c]
  /\ Goto(c, "loop", "unlink")
  /\ removing' = Set(removing, c, n)
  /\ UNCHANGED <<attached, context, rundown_started, client_detached, filter,
                 flow_list, flow_count, local_list, classify, flows>>

DetachTake(c) ==
  /\ Goto(c, "unlink", "remove")
  /\ local_list' = Set(local_list, c, local_list[c] \ {removing[c]})
  /\ UNCHANGED <<attached, context, rundown_started, client_detached, filter,
                 flow_list, flow_count, removing, classify, flows>>

\* flow_delete has freed the flow context.
Freed(n) == flow[n] = "gone" \/ (flow[n] = "ended" /\ fpc[n] = "leave")

\* The flow whose id is in the flow context.  In one that was freed anything
\* may stand, the id of another flow or of none.
FlowsNamedBy(n) == IF Freed(n) THEN Flows ELSE {n}

\* FwpsFlowRemoveContext calls flow_delete on a flow that has its context and
\* returns when flow_delete has; for any other flow it fails, and the loop goes
\* on.
DetachRemoveContext(c) ==
  /\ cstate[c] = "remove"
  /\ \E n \in FlowsNamedBy(removing[c]) :
       IF flow[n] = "associated"
       THEN /\ flow' = Set(flow, n, "removing")
            /\ fpc' = Set(fpc, n, "check")
            /\ removing' = Set(removing, c, n)
            /\ UNCHANGED cstate
       ELSE /\ flow[n] # "removing"
            /\ Goto(c, "remove", "loop")
            /\ removing' = Set(removing, c, NoFlow)
            /\ UNCHANGED <<flow, fpc>>
  /\ UNCHANGED <<attached, context, rundown_started, client_detached, filter,
                 flow_list, flow_count, local_list, classify, fowner>>

\* filter_context_cleanup: mark the client detached, drop the first reference.
DetachCleanup(c) ==
  /\ local_list[c] = {}
  /\ Goto(c, "loop", "cleaned")
  /\ client_detached' = Set(client_detached, c, TRUE)
  /\ DereferenceFilterContext(c)
  /\ UNCHANGED <<attached, rundown_started, filter, lists, classify, flows>>

\* The client leaves the list and the completion is queued as a work item.
DetachRemove(c) ==
  /\ Goto(c, "cleaned", "queued")
  /\ attached' = attached \ {c}
  /\ UNCHANGED <<context, rundown_started, client_detached, filter, lists,
                 classify, flows>>

\* The work item waits for rundown, which also stops new entries; then
\* NmrProviderDetachClientComplete frees the hook client.
WaitForRundown(c) ==
  /\ Goto(c, "queued", "rundown")
  /\ rundown_started' = Set(rundown_started, c, TRUE)
  /\ UNCHANGED <<attached, context, client_detached, filter, lists, classify,
                 flows>>

\* Mutant: the completion does not wait.
RundownOver_NoWait(c) == TRUE

RundownOver(c) == rundown_count[c] = 0

DetachComplete(c) ==
  /\ RundownOver(c)
  /\ Goto(c, "rundown", "freed")
  /\ UNCHANGED <<attached, context, rundown_started, client_detached, filter,
                 lists, classify, flows>>

\* WFP reports a deleted filter once no classify call is using it;
\* filter_change_notify drops the filter's reference.
FilterChangeNotify(c, f) ==
  /\ filter[c][f] = "deleting"
  /\ \A t \in Classifiers : tpc[t] # "idle" => <<tclient[t], tfilter[t]>> # <<c, f>>
  /\ filter' = [filter EXCEPT ![c][f] = "deleted"]
  /\ DereferenceFilterContext(c)
  /\ UNCHANGED <<cstate, attached, rundown_started, client_detached, lists,
                 classify, flows>>

-----------------------------------------------------------------------------
(* Classify, by WFP thread t.                                               *)

Step(t, from, to) ==
  /\ tpc[t] = from
  /\ tpc' = Set(tpc, t, to)
  /\ tclient' = Set(tclient, t, IF to = "idle" THEN NoClient ELSE tclient[t])
  /\ tfilter' = Set(tfilter, t, IF to = "idle" THEN "no_filter" ELSE tfilter[t])
UnchangedByClassify ==
  UNCHANGED <<cstate, attached, rundown_started, client_detached, filter,
              local_list, removing, fpc>>

\* WFP calls classify for a filter.
ClassifyStart(t, c, f) ==
  /\ filter[c][f] = "added"
  /\ tpc[t] = "idle" /\ tpc' = Set(tpc, t, "check")
  /\ tclient' = Set(tclient, t, c)
  /\ tfilter' = Set(tfilter, t, f)
  /\ \/ c \in BindClients /\ UNCHANGED <<tflow, flow, fowner>>
     \/ \E n \in Flows :
          /\ c \notin BindClients
          /\ flow[n] = "none" /\ \A m \in Flows : m < n => flow[m] # "none"
          /\ tflow' = Set(tflow, t, n)
          /\ flow' = Set(flow, n, "classifying")
          /\ fowner' = Set(fowner, n, c)
  /\ UNCHANGED <<cstate, attached, context, rundown_started, client_detached,
                 filter, lists, fpc>>

\* A call that ends without associating its flow leaves WFP's flow alone.
Abandoned(t) == IF tflow[t] = NoFlow THEN flow ELSE Set(flow, tflow[t], "gone")

ClassifyCheck(t) ==
  /\ tpc[t] = "check"
  /\ \/ /\ client_detached[tclient[t]]
        /\ Step(t, "check", "idle")
        /\ flow' = Abandoned(t)
        /\ tflow' = Set(tflow, t, NoFlow)
     \/ /\ ~client_detached[tclient[t]]
        /\ Step(t, "check", "enter")
        /\ UNCHANGED <<flow, tflow>>
  /\ UnchangedByClassify /\ UNCHANGED <<context, flow_list, flow_count, fowner>>

ClassifyEnter(t) ==
  LET c == tclient[t] IN
  /\ tpc[t] = "enter"
  /\ \/ /\ CanEnter(c)
        /\ Step(t, "enter", IF tflow[t] = NoFlow THEN "invoke" ELSE "reference")
        /\ EnterRundown(c)
        /\ UNCHANGED <<flow, tflow>>
     \/ /\ ~CanEnter(c)
        /\ Step(t, "enter", "idle")
        /\ flow' = Abandoned(t)
        /\ tflow' = Set(tflow, t, NoFlow)
        /\ UNCHANGED rundown_count
  /\ UnchangedByClassify /\ UNCHANGED <<fc_refs, flow_list, flow_count, fowner>>

\* Mutant: the flow context takes no reference.
ClassifyReference_None(t) ==
  /\ Step(t, "reference", "invoke")
  /\ UnchangedByClassify
  /\ UNCHANGED <<context, flow_list, flow_count, flow, fowner, tflow>>

\* The flow context is allocated and references the filter context.
ClassifyReference(t) ==
  /\ \/ /\ Step(t, "reference", "invoke")
        /\ fc_refs' = Set(fc_refs, tclient[t], fc_refs[tclient[t]] + 1)
        /\ UNCHANGED <<flow, tflow>>
     \/ /\ Step(t, "reference", "leave")
        /\ flow' = Abandoned(t)
        /\ tflow' = Set(tflow, t, NoFlow)
        /\ UNCHANGED fc_refs
  /\ UnchangedByClassify
  /\ UNCHANGED <<rundown_count, flow_list, flow_count, fowner>>

\* The program runs; it may fail, or the client may not want the compartment.
ClassifyInvoke(t) ==
  /\ \/ tflow[t] = NoFlow /\ Step(t, "invoke", "leave")
     \/ tflow[t] # NoFlow /\ Step(t, "invoke", "associate")
     \/ tflow[t] # NoFlow /\ Step(t, "invoke", "dereference")
  /\ UnchangedByClassify
  /\ UNCHANGED <<context, flow_list, flow_count, flow, fowner, tflow>>

\* FwpsFlowAssociateContext, which may fail.
ClassifyAssociate(t) ==
  /\ \/ /\ Step(t, "associate", "insert")
        /\ flow' = Set(flow, tflow[t], "associated")
     \/ /\ Step(t, "associate", "dereference")
        /\ UNCHANGED flow
  /\ UnchangedByClassify
  /\ UNCHANGED <<context, flow_list, flow_count, fowner, tflow>>

\* Mutant: the flow is not counted.
ClassifyInsert_NotCounted(t) ==
  LET c == tclient[t] IN
  /\ Step(t, "insert", "leave")
  /\ flow_list' = Set(flow_list, c, flow_list[c] \cup {tflow[t]})
  /\ tflow' = Set(tflow, t, NoFlow)
  /\ UnchangedByClassify /\ UNCHANGED <<context, flow_count, flow, fowner>>

ClassifyInsert(t) ==
  LET c == tclient[t] IN
  /\ Step(t, "insert", "leave")
  /\ flow_list' = Set(flow_list, c, flow_list[c] \cup {tflow[t]})
  /\ flow_count' = Set(flow_count, c, (flow_count[c] + 1) % CountModulus)
  /\ tflow' = Set(tflow, t, NoFlow)
  /\ UnchangedByClassify /\ UNCHANGED <<context, flow, fowner>>

\* Mutant: the failure path frees the flow context only.
ClassifyDereference_Leak(t) ==
  /\ Step(t, "dereference", "leave")
  /\ flow' = Abandoned(t)
  /\ tflow' = Set(tflow, t, NoFlow)
  /\ UnchangedByClassify /\ UNCHANGED <<context, flow_list, flow_count, fowner>>

ClassifyDereference(t) ==
  /\ Step(t, "dereference", "leave")
  /\ DereferenceFilterContext(tclient[t])
  /\ flow' = Abandoned(t)
  /\ tflow' = Set(tflow, t, NoFlow)
  /\ UnchangedByClassify /\ UNCHANGED <<flow_list, flow_count, fowner>>

ClassifyLeave(t) ==
  /\ Step(t, "leave", "idle")
  /\ LeaveRundown(tclient[t])
  /\ UnchangedByClassify
  /\ UNCHANGED <<fc_refs, flow_list, flow_count, flow, fowner, tflow>>

-----------------------------------------------------------------------------
(* net_ebpf_extension_sock_ops_flow_delete, for flow n.                     *)

FStep(n, from, to) == fpc[n] = from /\ fpc' = Set(fpc, n, to)
UnchangedByFlow ==
  UNCHANGED <<attached, rundown_started, client_detached, filter,
              classify, fowner>>

\* The connection ends and WFP calls flow_delete, not during the classify call
\* that established the flow.
FlowEnd(n) ==
  /\ flow[n] = "associated"
  /\ \A t \in Classifiers : tflow[t] # n
  /\ flow' = Set(flow, n, "ended")
  /\ FStep(n, "none", "check")
  /\ UnchangedByFlow /\ UNCHANGED <<cstate, context, lists>>

FlowDeleteCheck(n) ==
  /\ fpc[n] = "check"
  /\ FStep(n, "check",
           IF client_detached[fowner[n]] THEN "dereference_only" ELSE "enter")
  /\ UnchangedByFlow /\ UNCHANGED <<cstate, context, lists, flow>>

FlowDeleteEnter(n) ==
  LET c == fowner[n] IN
  /\ fpc[n] = "enter"
  /\ \/ CanEnter(c) /\ FStep(n, "enter", "remove") /\ EnterRundown(c)
     \/ /\ ~CanEnter(c)
        /\ FStep(n, "enter", "dereference_only")
        /\ UNCHANGED rundown_count
  /\ UnchangedByFlow /\ UNCHANGED <<cstate, fc_refs, lists, flow>>

\* RemoveEntryList from the list that holds the flow.  The lock does not keep
\* the detach from the local list: an entry that is unlinked while it unlinks
\* another one may stay on the list, and others may be lost.  (Or the check in
\* RemoveEntryList stops the machine, and the behaviour ends here.)
LocalListWithout(n) ==
  LET c == fowner[n] IN
  IF cstate[c] = "unlink" /\ n \in local_list[c] THEN SUBSET local_list[c]
  ELSE {local_list[c] \ {n}}

\* It is removed and counted down under the lock, a flow of the local list too.
FlowDeleteRemove(n) ==
  LET c == fowner[n] IN
  /\ FStep(n, "remove", "invoke")
  /\ flow_list' = Set(flow_list, c, flow_list[c] \ {n})
  /\ \E rest \in LocalListWithout(n) : local_list' = Set(local_list, c, rest)
  /\ flow_count' = Set(flow_count, c,
                       (flow_count[c] + CountModulus - 1) % CountModulus)
  /\ UnchangedByFlow /\ UNCHANGED <<cstate, context, removing, flow>>

FlowDeleteInvoke(n) ==
  /\ FStep(n, "invoke", "dereference")
  /\ UnchangedByFlow /\ UNCHANGED <<cstate, context, lists, flow>>

\* The function returns, to the detach loop if that called it; the flow context
\* has been freed.
FlowDeleted(n) ==
  LET Called(c) == flow[n] = "removing" /\ cstate[c] = "remove" /\ removing[c] = n IN
  /\ flow' = Set(flow, n, "gone")
  /\ cstate' = [c \in Clients |-> IF Called(c) THEN "loop" ELSE cstate[c]]
  /\ removing' = [c \in Clients |-> IF Called(c) THEN NoFlow ELSE removing[c]]

\* Mutant: a flow that ends after the detach keeps its reference.
FlowDeleteDereference_Leak(n) ==
  /\ \/ /\ FStep(n, "dereference", "leave")
        /\ DereferenceFilterContext(fowner[n])
        /\ UNCHANGED <<cstate, flow, removing>>
     \/ /\ FStep(n, "dereference_only", "none")
        /\ FlowDeleted(n) /\ UNCHANGED context
  /\ UnchangedByFlow /\ UNCHANGED <<flow_list, flow_count, local_list>>

FlowDeleteDereference(n) ==
  /\ \/ FStep(n, "dereference", "leave") /\ UNCHANGED <<cstate, flow, removing>>
     \/ FStep(n, "dereference_only", "none") /\ FlowDeleted(n)
  /\ DereferenceFilterContext(fowner[n])
  /\ UnchangedByFlow /\ UNCHANGED <<flow_list, flow_count, local_list>>

FlowDeleteLeave(n) ==
  /\ FStep(n, "leave", "none")
  /\ LeaveRundown(fowner[n])
  /\ FlowDeleted(n)
  /\ UnchangedByFlow /\ UNCHANGED <<fc_refs, flow_list, flow_count, local_list>>

-----------------------------------------------------------------------------
AttachStep(c) == AttachFilters(c) \/ AttachInsert(c)

DetachStep(c) ==
  \/ DetachDrain(c) \/ DetachRemoveContext(c) \/ DetachCleanup(c)
  \/ DetachRemove(c) \/ WaitForRundown(c) \/ DetachComplete(c)
  \/ DetachTake(c) \/ \E n \in Flows : DetachHead(c, n)

ClassifyStep(t) ==
  \/ ClassifyCheck(t) \/ ClassifyEnter(t) \/ ClassifyReference(t)
  \/ ClassifyInvoke(t) \/ ClassifyAssociate(t) \/ ClassifyInsert(t)
  \/ ClassifyDereference(t) \/ ClassifyLeave(t)

FlowDeleteStep(n) ==
  \/ FlowDeleteCheck(n) \/ FlowDeleteEnter(n) \/ FlowDeleteRemove(n)
  \/ FlowDeleteInvoke(n) \/ FlowDeleteDereference(n) \/ FlowDeleteLeave(n)

Next ==
  \/ \E c \in Clients :
       \/ AttachCheck(c) \/ AttachStep(c) \/ DetachDeleteFilters(c)
       \/ DetachStep(c)
       \/ \E f \in Filters :
            \/ FilterChangeNotify(c, f)
            \/ \E t \in Classifiers : ClassifyStart(t, c, f)
  \/ \E t \in Classifiers : ClassifyStep(t)
  \/ \E n \in Flows : FlowEnd(n) \/ FlowDeleteStep(n)

Spec == Init /\ [][Next]_vars

\* Running calls make progress and WFP reports deleted filters.  Nobody has to
\* attach or detach, and no connection has to end.
Fairness ==
  /\ \A c \in Clients : /\ WF_vars(DetachStep(c))
                        /\ \A f \in Filters : WF_vars(FilterChangeNotify(c, f))
  /\ \A t \in Classifiers : WF_vars(ClassifyStep(t))
  /\ \A n \in Flows : WF_vars(FlowDeleteStep(n))

FairSpec == Spec /\ Fairness

-----------------------------------------------------------------------------
(* Properties.                                                              *)

\* Who holds a reference on c's filter context: the attached client, WFP's
\* filters, and flow contexts from their allocation to flow_delete.
HoldsContext(n) ==
  \/ \E t \in Classifiers :
       tflow[t] = n /\ tpc[t] \in {"invoke", "associate", "dereference"}
  \/ flow[n] \in {"associated", "removing", "ended"} /\ fpc[n] # "leave"

Holders(c) ==
  (IF cstate[c] \in {"filters", "attached", "drain", "loop", "unlink", "remove"} THEN 1 ELSE 0)
  + Cardinality({f \in Filters : filter[c][f] \in {"added", "deleting"}})
  + Cardinality({n \in Flows : fowner[n] = c /\ HoldsContext(n)})

\* The reference count of a filter context is the number of its holders, however
\* flow ends, classify calls, filter deletion and detach interleave.
FilterContextRefs == \A c \in Clients : fc_refs[c] = Holders(c)

\* classify and flow_delete find their filter context and hook client in memory:
\* neither is freed before the last call that uses it.  (Nothing of the kind holds
\* for flow contexts: the detach takes one from its local list and reads it
\* although flow_delete may have freed it, see FlowsNamedBy.)
ContextOutlivesCalls ==
  /\ \A t \in Classifiers : tpc[t] \notin {"idle", "leave"} => fc_refs[tclient[t]] > 0
  /\ \A t \in Classifiers : tpc[t] # "idle" => cstate[tclient[t]] # "freed"
  /\ \A n \in Flows : fpc[n] \notin {"none", "leave"} => fc_refs[fowner[n]] > 0
  /\ \A n \in Flows : fpc[n] # "none" => cstate[fowner[n]] # "freed"

\* A hook client whose detach is complete is gone from the list, has no filter
\* context, filter or flow left and nobody in its rundown.
DetachLeavesNothing ==
  \A c \in Clients : cstate[c] = "freed" =>
    /\ c \notin attached /\ fc_refs[c] = 0 /\ rundown_count[c] = 0
    /\ \A f \in Filters : filter[c][f] = "deleted"
    /\ \A n \in Flows : fowner[n] = c => flow[n] \in {"none", "gone"}

\* Until the detach takes the list of flows, their number is right, so that none
\* is left on the list because it was not counted.  (Afterwards it is not: the
\* flows of the local list are counted down once more and the number wraps, but
\* it is not read again.)
FlowsCounted ==
  \A c \in Clients : cstate[c] \in {"filters", "attached", "drain"} =>
    flow_count[c] = Cardinality(flow_list[c])

\* The references of filter contexts are exact, no filter context and no hook
\* client is freed under a call, the drain misses no flow, and a completed detach
\* leaves nothing behind, whatever is read from flow contexts that were freed.
HookInv ==
  TypeOK /\ FilterContextRefs /\ ContextOutlivesCalls /\ FlowsCounted /\ DetachLeavesNothing

\* The detach of some client has begun and is not complete.
Detaching ==
  \E c \in Clients : cstate[c] \in
    {"drain", "loop", "unlink", "remove", "cleaned", "queued", "rundown"}

\* A detach waits for a flow that is not ending: a classify call in flight added
\* it after the drain, or it was lost from the local list.
HeldByFlow ==
  \E c \in Clients : cstate[c] = "rundown" /\
    \E n \in Flows : fowner[n] = c /\ flow[n] = "associated"

\* A detach that has begun completes, unless it is held by a flow for ever.
DetachTerminates == <>[]Detaching => <>[]HeldByFlow
==============================================================================
