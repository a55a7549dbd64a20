----------------------------- MODULE MCBindings -----------------------------
(***************************************************************************)
(* One run for the two sides of a binding between a hook and its clients:  *)
(* the registrar, which attaches and detaches them, and the hook provider  *)
(* of the network extension, whose detach takes until its last call and    *)
(* flow have ended.  Each behaviour is one of one component, which         *)
(* `component` names; the variables of the other keep their initial        *)
(* values; so do the clients of the other hook, with which a client shares *)
(* nothing.  No action that is assumed to be fair is enabled in these, so  *)
(* the fairness of a component does not restrict the behaviours of the     *)
(* other one.                                                              *)
(***************************************************************************)
EXTENDS Nmr

CONSTANTS
  \* NetEbpfExtHook
  HookClients, BindClients, Parameter, Wildcard, Filters, Classifiers, Flows,
  CountModulus

VARIABLES
  component,   \* the component this behaviour is one of
  \* NetEbpfExtHook
  cstate, attached, rundown_count, rundown_started, fc_refs, client_detached, filter,
  flow_list, flow_count, local_list, removing, tpc, tclient, tfilter, tflow, flow,
  fowner, fpc

hook_vars == <<cstate, attached, rundown_count, rundown_started, fc_refs, client_detached,
  filter, flow_list, flow_count, local_list, removing, tpc, tclient, tfilter, tflow, flow,
  fowner, fpc>>

Hook == INSTANCE NetEbpfExtHook WITH Clients <- HookClients

\* Every client asks for the wildcard.
AllWild == [c \in HookClients |-> Wildcard]

ASSUME ConstantsFit == NmrConstants

MCInit ==
  /\ component \in {"nmr", "bind", "sock_ops"}
  /\ Init /\ Hook!Init

MCNext ==
  /\ UNCHANGED component
  /\ IF component = "nmr" THEN Next ELSE UNCHANGED vars
  /\ IF component = "nmr" THEN UNCHANGED hook_vars ELSE Hook!Next
  /\ component = "bind" => \A c \in HookClients \ BindClients : cstate'[c] = "idle"
  /\ component = "sock_ops" => \A c \in BindClients : cstate'[c] = "idle"

MCSpec ==
  /\ MCInit /\ [][MCNext]_<<component, vars, hook_vars>>
  /\ Fairness /\ Hook!Fairness

-----------------------------------------------------------------------------
\* The references of filter contexts are exact, no filter context and no hook
\* client is freed under a call, the drain misses no flow, and a completed detach
\* leaves nothing behind (net_ebpf_ext_hook_provider.c, net_ebpf_ext_sock_ops.c).
HookInv == Hook!HookInv

Ongoing == Unfinished \/ Hook!Detaching
HeldUp == Stranded \/ Hook!HeldByFlow

\* What has begun to leave is gone in the end, a hook client that is detached or
\* a registration that is removed, unless one of two things holds it up for ever:
\* a binding that begin_unbind passed by because it was still being attached, or
\* a flow that was established while its client was being detached.  The
\* components' DetachTerminates and DeregistrationCompletes say it of each.
LeavingEnds == <>[]Ongoing => <>[]HeldUp
=============================================================================
