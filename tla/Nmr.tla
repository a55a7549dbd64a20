--------------------------------- MODULE Nmr ---------------------------------
(* The user-mode network module registrar (libs/runtime/user/nmr_impl.cpp).  *)
(* Clients (eBPF links, programs, native modules) and providers (extensions) *)
(* register, are bound pairwise, and deregister.  Every registration is a    *)
(* thread of its own: it registers, later deregisters, and waits until none  *)
(* of its bindings is left.  All callbacks run with the registrar's lock     *)
(* dropped, and a detach callback may return STATUS_PENDING and complete on  *)
(* another thread.                                                           *)
EXTENDS Integers, FiniteSets

CONSTANTS
  Clients, Providers,
  PendingSets    \* the sets of sides of one binding that may return
                 \* STATUS_PENDING from their detach callbacks

Registrations == Clients \cup Providers

\* A binding is created by the perform_bind of its client or of its provider.
Bindings == Clients \X Providers \X {"client", "provider"}

Of(r) == {b \in Bindings : r \in {b[1], b[2]}}

\* The bindings that the perform_bind of r creates.
MadeBy(r) ==
  {b \in Of(r) : b[3] = IF r \in Clients THEN "client" ELSE "provider"}
Sides == {"client", "provider"}
NoBinding == <<>>

VARIABLES
  pc,           \* pc[r]: where the thread of registration r is
  deregistering,\* deregistering[r]: new bindings to r are blocked
  todo,         \* todo[r]: pending_actions or bindings_to_unbind of r's thread
  cur,          \* cur[r]: the binding r's thread is working on
  pending,      \* pending[r]: some unbind of r returned "pending"
  created,      \* the bindings ever created
  in_table,     \* the bindings in the bindings map
  binding_count,\* binding_count[r]: references bindings hold on r
  client_binding_status, provider_binding_status,
  step,         \* step[r]: what r's thread is doing with cur[r]
  returned,     \* returned[b]: sides whose detach returned STATUS_PENDING
  incomplete,   \* incomplete[b]: sides that owe a detach-complete call
  completing    \* bindings whose detach-complete call decided to finish

status == <<client_binding_status, provider_binding_status>>
table == <<created, in_table, binding_count>>
async == <<returned, incomplete, completing>>
vars == <<pc, deregistering, todo, cur, pending, table, status, step, async>>

PCs == {"idle", "added", "binding", "registered", "deactivated", "unbinding",
        "waiting", "removed"}
Statuses == {"Start", "Ready", "BeginUnbind", "UnbindPending", "UnbindComplete"}
Steps == {"none", "attaching", "client_detach", "provider_detach", "relock",
          "finish"}

TypeOK ==
  /\ pc \in [Registrations -> PCs]
  /\ deregistering \in [Registrations -> BOOLEAN]
  /\ todo \in [Registrations -> SUBSET Bindings]
  /\ cur \in [Registrations -> Bindings \cup {NoBinding}]
  /\ pending \in [Registrations -> BOOLEAN]
  /\ created \subseteq Bindings
  /\ in_table \subseteq created
  /\ binding_count \in [Registrations -> Int]
  /\ client_binding_status \in [Bindings -> Statuses]
  /\ provider_binding_status \in [Bindings -> Statuses]
  /\ step \in [Registrations -> Steps]
  /\ returned \in [Bindings -> SUBSET Sides]
  /\ incomplete \in [Bindings -> SUBSET Sides]
  /\ completing \subseteq Bindings

Init ==
  /\ pc = [r \in Registrations |-> "idle"]
  /\ deregistering = [r \in Registrations |-> FALSE]
  /\ todo = [r \in Registrations |-> {}]
  /\ cur = [r \in Registrations |-> NoBinding]
  /\ pending = [r \in Registrations |-> FALSE]
  /\ created = {}
  /\ in_table = {}
  /\ binding_count = [r \in Registrations |-> 0]
  /\ client_binding_status = [b \in Bindings |-> "Start"]
  /\ provider_binding_status = [b \in Bindings |-> "Start"]
  /\ step = [r \in Registrations |-> "none"]
  /\ returned = [b \in Bindings |-> {}]
  /\ incomplete = [b \in Bindings |-> {}]
  /\ completing = {}

Goto(r, from, to) == pc[r] = from /\ pc' = [pc EXCEPT ![r] = to]
Step(r, from, to) == step[r] = from /\ step' = [step EXCEPT ![r] = to]

-----------------------------------------------------------------------------
(* Registration.                                                            *)

\* add: the registration enters its collection.
Add(r) ==
  /\ Goto(r, "idle", "added")
  /\ UNCHANGED <<deregistering, todo, cur, pending, table, status, step,
                 async>>

InCollection(r) == pc[r] \notin {"idle", "removed"}

\* perform_bind and bind: with the lock held, a binding is created with every
\* target in the other collection unless either side is deregistering.
NewBindings(r) ==
  {b \in MadeBy(r) :
     \A t \in {b[1], b[2]} : InCollection(t) /\ ~deregistering[t]}

PerformBind(r) ==
  /\ Goto(r, "added", "binding")
  /\ todo' = [todo EXCEPT ![r] = NewBindings(r)]
  /\ created' = created \cup NewBindings(r)
  /\ in_table' = in_table \cup NewBindings(r)
  /\ binding_count' = [t \in Registrations |->
       binding_count[t] + Cardinality(NewBindings(r) \cap Of(t))]
  /\ UNCHANGED <<deregistering, cur, pending, status, step, async>>

\* The pending action of a binding calls ClientAttachProvider; the client
\* calls client_attach_provider, which calls ProviderAttachClient.
ClientAttachProvider(r, b) ==
  /\ pc[r] = "binding" /\ cur[r] = NoBinding /\ b \in todo[r]
  /\ cur' = [cur EXCEPT ![r] = b]
  /\ todo' = [todo EXCEPT ![r] = @ \ {b}]
  /\ Step(r, "none", "attaching")
  /\ UNCHANGED <<pc, deregistering, pending, table, status, async>>

\* The attach succeeded: both statuses become Ready under the lock.
AttachSucceeded(r) ==
  LET b == cur[r] IN
  /\ pc[r] = "binding" /\ b # NoBinding
  /\ Step(r, "attaching", "none")
  /\ client_binding_status' = [client_binding_status EXCEPT ![b] = "Ready"]
  /\ provider_binding_status' = [provider_binding_status EXCEPT ![b] = "Ready"]
  /\ cur' = [cur EXCEPT ![r] = NoBinding]
  /\ UNCHANGED <<pc, deregistering, todo, pending, table, async>>

\* unbind_complete: the binding contexts are cleaned up, both binding counts
\* drop and the binding leaves the map, which wakes the waiting deregistrations.
unbind_complete(b) ==
  /\ in_table' = in_table \ {b}
  /\ binding_count' = [t \in Registrations |->
       IF b \in Of(t) THEN binding_count[t] - 1 ELSE binding_count[t]]
  /\ UNCHANGED created

\* The client or the provider refused: the binding is cleaned up at once.
AttachFailed(r) ==
  LET b == cur[r] IN
  /\ pc[r] = "binding" /\ b # NoBinding
  /\ Step(r, "attaching", "none")
  /\ unbind_complete(b)
  /\ cur' = [cur EXCEPT ![r] = NoBinding]
  /\ UNCHANGED <<pc, deregistering, todo, pending, status, async>>

\* All pending actions have run: register_client / register_provider returns.
Registered(r) ==
  /\ todo[r] = {} /\ cur[r] = NoBinding
  /\ Goto(r, "binding", "registered")
  /\ UNCHANGED <<deregistering, todo, cur, pending, table, status, step,
                 async>>

-----------------------------------------------------------------------------
(* Deregistration.                                                          *)

\* deactivate: no new binding to r is created.
Deactivate(r) ==
  /\ Goto(r, "registered", "deactivated")
  /\ deregistering' = [deregistering EXCEPT ![r] = TRUE]
  /\ UNCHANGED <<todo, cur, pending, table, status, step, async>>

\* perform_unbind collects, under the lock, every binding of r in the map.
PerformUnbind(r) ==
  /\ Goto(r, "deactivated", "unbinding")
  /\ todo' = [todo EXCEPT ![r] = in_table \cap Of(r)]
  /\ UNCHANGED <<deregistering, cur, pending, table, status, step,
                 async>>

BothReady(b) ==
  client_binding_status[b] = "Ready" /\ provider_binding_status[b] = "Ready"

\* begin_unbind, early return: the binding is not Ready.
UnbindAlreadyStarted(r, b) ==
  /\ pc[r] = "unbinding" /\ cur[r] = NoBinding /\ b \in todo[r]
  /\ ~BothReady(b)
  /\ todo' = [todo EXCEPT ![r] = @ \ {b}]
  /\ pending' = [pending EXCEPT ![r] = TRUE]
  /\ UNCHANGED <<pc, deregistering, cur, table, status, step, async>>

\* begin_unbind claims the binding under the lock.
BeginUnbind(r, b) ==
  /\ pc[r] = "unbinding" /\ cur[r] = NoBinding /\ b \in todo[r]
  /\ BothReady(b)
  /\ todo' = [todo EXCEPT ![r] = @ \ {b}]
  /\ cur' = [cur EXCEPT ![r] = b]
  /\ Step(r, "none", "client_detach")
  /\ client_binding_status' = [client_binding_status EXCEPT ![b] = "BeginUnbind"]
  /\ provider_binding_status' =
       [provider_binding_status EXCEPT ![b] = "BeginUnbind"]
  /\ UNCHANGED <<pc, deregistering, pending, table, async>>

\* ClientDetachProvider, then ProviderDetachClient, without the lock.  Either
\* returns STATUS_SUCCESS, or STATUS_PENDING and owes a detach-complete call.
DetachCallback(r, side, from, to) ==
  LET b == cur[r] IN
  /\ pc[r] = "unbinding" /\ b # NoBinding
  /\ Step(r, from, to)
  /\ \/ UNCHANGED <<returned, incomplete>>
     \/ /\ returned[b] \cup {side} \in PendingSets
        /\ returned' = [returned EXCEPT ![b] = @ \cup {side}]
        /\ incomplete' = [incomplete EXCEPT ![b] = @ \cup {side}]
  /\ UNCHANGED <<pc, deregistering, todo, cur, pending, table, status,
                 completing>>

ClientDetachProvider(r) ==
  DetachCallback(r, "client", "client_detach", "provider_detach")
ProviderDetachClient(r) ==
  DetachCallback(r, "provider", "provider_detach", "relock")

\* The lock is taken again and the outcome of both calls recorded; a side whose
\* completion arrived in between stays UnbindComplete.
Outcome_Overwrite(b, side, current) ==
  IF side \in returned[b] THEN "UnbindPending" ELSE "UnbindComplete"

Outcome(b, side, current) ==
  IF side \in returned[b] /\ current # "UnbindComplete"
  THEN "UnbindPending" ELSE "UnbindComplete"

RecordDetach(r) ==
  LET b == cur[r]
      ps == Outcome(b, "client", provider_binding_status[b])
      cs == Outcome(b, "provider", client_binding_status[b])
      complete == ps = "UnbindComplete" /\ cs = "UnbindComplete"
  IN
  /\ pc[r] = "unbinding" /\ b # NoBinding
  /\ Step(r, "relock", IF complete THEN "finish" ELSE "none")
  /\ provider_binding_status' = [provider_binding_status EXCEPT ![b] = ps]
  /\ client_binding_status' = [client_binding_status EXCEPT ![b] = cs]
  /\ cur' = [cur EXCEPT ![r] = IF complete THEN b ELSE NoBinding]
  /\ pending' = [pending EXCEPT ![r] = @ \/ ~complete]
  /\ UNCHANGED <<pc, deregistering, todo, table, async>>

\* Both sides are complete: begin_unbind runs unbind_complete itself.
FinishUnbind(r) ==
  LET b == cur[r] IN
  /\ pc[r] = "unbinding" /\ b # NoBinding
  /\ Step(r, "finish", "none")
  /\ unbind_complete(b)
  /\ cur' = [cur EXCEPT ![r] = NoBinding]
  /\ UNCHANGED <<pc, deregistering, todo, pending, status, async>>

\* A provider that returned STATUS_PENDING calls NmrProviderDetachClientComplete.
BindingDetachClientComplete_Always(b) ==
  /\ "provider" \in incomplete[b]
  /\ incomplete' = [incomplete EXCEPT ![b] = @ \ {"provider"}]
  /\ client_binding_status' =
       [client_binding_status EXCEPT ![b] = "UnbindComplete"]
  /\ completing' = completing \cup {b}
  /\ UNCHANGED <<pc, deregistering, todo, cur, pending, table,
                 provider_binding_status, step, returned>>

BindingDetachClientComplete(b) ==
  /\ "provider" \in incomplete[b]
  /\ incomplete' = [incomplete EXCEPT ![b] = @ \ {"provider"}]
  /\ client_binding_status' =
       [client_binding_status EXCEPT ![b] = "UnbindComplete"]
  /\ completing' = IF provider_binding_status[b] = "UnbindComplete"
                   THEN completing \cup {b} ELSE completing
  /\ UNCHANGED <<pc, deregistering, todo, cur, pending, table,
                 provider_binding_status, step, returned>>

\* A client that returned STATUS_PENDING calls NmrClientDetachProviderComplete.
BindingDetachProviderComplete(b) ==
  /\ "client" \in incomplete[b]
  /\ incomplete' = [incomplete EXCEPT ![b] = @ \ {"client"}]
  /\ provider_binding_status' =
       [provider_binding_status EXCEPT ![b] = "UnbindComplete"]
  /\ completing' = IF client_binding_status[b] = "UnbindComplete"
                   THEN completing \cup {b} ELSE completing
  /\ UNCHANGED <<pc, deregistering, todo, cur, pending, table,
                 client_binding_status, step, returned>>

\* The completing thread runs unbind_complete after it dropped the lock.
CompleteUnbind(b) ==
  /\ b \in completing
  /\ unbind_complete(b)
  /\ completing' = completing \ {b}
  /\ UNCHANGED <<pc, deregistering, todo, cur, pending, status, step, returned,
                 incomplete>>

\* All bindings have been handled; deregister_* returns pending or not, and
\* either way the caller ends up in remove.
Unbound(r) ==
  /\ todo[r] = {} /\ cur[r] = NoBinding
  /\ Goto(r, "unbinding", "waiting")
  /\ UNCHANGED <<deregistering, todo, cur, pending, table, status, step, async>>

\* remove waits until the binding count is zero and erases the registration.
Remove_NoWait(r) ==
  /\ Goto(r, "waiting", "removed")
  /\ UNCHANGED <<deregistering, todo, cur, pending, table, status, step, async>>

Remove(r) ==
  /\ binding_count[r] <= 0
  /\ Goto(r, "waiting", "removed")
  /\ UNCHANGED <<deregistering, todo, cur, pending, table, status, step, async>>

AllRemoved ==
  /\ \A r \in Registrations : pc[r] = "removed"
  /\ UNCHANGED vars

RegistrationStep(r) ==
  \/ PerformBind(r) \/ AttachSucceeded(r) \/ AttachFailed(r) \/ Registered(r)
  \/ PerformUnbind(r) \/ ClientDetachProvider(r) \/ ProviderDetachClient(r)
  \/ RecordDetach(r) \/ FinishUnbind(r) \/ Unbound(r) \/ Remove(r)
  \/ \E b \in Bindings : \/ ClientAttachProvider(r, b)
                          \/ UnbindAlreadyStarted(r, b)
                          \/ BeginUnbind(r, b)

CompletionStep(b) ==
  \/ BindingDetachClientComplete(b)
  \/ BindingDetachProviderComplete(b)
  \/ CompleteUnbind(b)

Next ==
  \/ \E r \in Registrations : Add(r) \/ Deactivate(r) \/ RegistrationStep(r)
  \/ \E b \in Bindings : CompletionStep(b)
  \/ AllRemoved

Spec == Init /\ [][Next]_vars

\* Threads keep running and a pending detach completes.  Nobody has to register
\* or to deregister.
Fairness ==
  /\ \A r \in Registrations : WF_vars(RegistrationStep(r))
  /\ \A b \in Bindings : WF_vars(CompletionStep(b))

FairSpec == Spec /\ Fairness

-----------------------------------------------------------------------------
(* The inductive invariant.                                                 *)

\* What the proofs assume of the constants.  No binding has a detach call
\* pending on both of its sides: of the callbacks in this repository only the
\* hook provider's returns STATUS_PENDING.
NmrConstants ==
  /\ IsFiniteSet(Clients) /\ IsFiniteSet(Providers)
  /\ Clients \cap Providers = {}
  /\ \A S \in PendingSets : S # Sides

Unheld(b) == \A q \in Registrations : cur[q] # b

\* A thread holds a binding exactly while it runs a callback of it, the binding
\* is in the map, and no other thread holds it.
WorkFits ==
  /\ \A r \in Registrations :
       /\ cur[r] = NoBinding <=> step[r] = "none"
       /\ step[r] = "attaching" => pc[r] = "binding"
       /\ step[r] \notin {"none", "attaching"} => pc[r] = "unbinding"
       /\ cur[r] # NoBinding => cur[r] \in in_table
  /\ \A q, r \in Registrations :
       cur[q] = cur[r] /\ cur[q] # NoBinding => q = r

\* The bindings that a registering thread has yet to attach are its own.
StartsOwned ==
  \A r \in Registrations : pc[r] = "binding" =>
    \A b \in todo[r] :
      /\ b \in MadeBy(r) /\ b \in in_table
      /\ client_binding_status[b] = "Start"
      /\ Unheld(b)

\* No binding exists that a registration has yet to create.
CreatedFits ==
  \A r \in Registrations :
    pc[r] \in {"idle", "added"} => MadeBy(r) \cap created = {}

\* Both sides start and become ready together, before any callback to detach.
StatusPaired ==
  \A b \in Bindings :
    /\ client_binding_status[b] = "Start" <=> provider_binding_status[b] = "Start"
    /\ client_binding_status[b] = "Ready" <=> provider_binding_status[b] = "Ready"
    /\ client_binding_status[b] \in {"Start", "Ready"} => returned[b] = {}
    /\ client_binding_status[b] = "Ready" => b \in in_table
    /\ b \notin created => client_binding_status[b] = "Start"

\* A side that owes a detach-complete call is not recorded as complete.
OwedFits ==
  \A b \in Bindings :
    /\ incomplete[b] \subseteq returned[b]
    /\ returned[b] # Sides
    /\ "client" \in incomplete[b] =>
         provider_binding_status[b] # "UnbindComplete" /\ b \in in_table
    /\ "provider" \in incomplete[b] =>
         client_binding_status[b] # "UnbindComplete" /\ b \in in_table

\* What the statuses of a binding are while a thread holds it; a side whose
\* completion overtakes the relock is the only one that is complete.
Attaching(b) == client_binding_status[b] = "Start"
Detaching(b) ==
  /\ client_binding_status[b] \in {"BeginUnbind", "UnbindComplete"}
  /\ provider_binding_status[b] \in {"BeginUnbind", "UnbindComplete"}
  /\ client_binding_status[b] = "UnbindComplete" => "provider" \in returned[b]
  /\ provider_binding_status[b] = "UnbindComplete" => "client" \in returned[b]
BothComplete(b) ==
  /\ client_binding_status[b] = "UnbindComplete"
  /\ provider_binding_status[b] = "UnbindComplete"

HeldStages ==
  \A r \in Registrations :
    /\ step[r] = "attaching" => Attaching(cur[r])
    /\ step[r] \in {"client_detach", "provider_detach", "relock"} =>
         Detaching(cur[r])
    /\ step[r] = "client_detach" => returned[cur[r]] = {}
    /\ step[r] = "provider_detach" => "provider" \notin returned[cur[r]]
    /\ step[r] = "finish" => BothComplete(cur[r])

\* A completing binding is complete, in the map and out of every other hand.
CompletingFits ==
  \A b \in completing : BothComplete(b) /\ b \in in_table /\ Unheld(b)

\* A deregistering thread has the rest of its bindings on its list, unless one
\* of them was left to another thread.
Deregistered(r) == in_table \cap Of(r) = {}

DeregistrationFits ==
  \A r \in Registrations :
    /\ pc[r] \in {"deactivated", "unbinding", "waiting", "removed"} =>
         deregistering[r]
    /\ pc[r] = "unbinding" /\ ~pending[r] =>
         in_table \cap Of(r) \subseteq todo[r] \cup {cur[r]}
    /\ pc[r] = "waiting" /\ ~pending[r] => Deregistered(r)
    /\ pc[r] = "removed" => Deregistered(r)

-----------------------------------------------------------------------------
(* Properties.                                                              *)

\* A registration that remove has erased is out of every thread's hands: none
\* of its bindings is in the map, in a callback or about to be completed, so no
\* callback can reach a module that has been unloaded.
RemovedIsQuiet ==
  \A r \in Registrations : pc[r] = "removed" =>
    \A b \in Of(r) :
      /\ b \notin in_table \cup completing
      /\ incomplete[b] = {}
      /\ \A q \in Registrations : cur[q] # b

\* When deregister_client or deregister_provider returns false (not pending),
\* the deregistration is complete: no binding of the module is left.
ImmediateDeregisterIsComplete ==
  \A r \in Registrations :
    pc[r] = "waiting" /\ ~pending[r] => binding_count[r] = 0

\* "Acquire references on both client and provider to prevent them from
\* unloading": the binding count of a registration is the number of bindings it
\* has in the map.
BindingCountExact ==
  \A r \in Registrations :
    binding_count[r] = Cardinality(in_table \cap Of(r))

\* Types, exact reference counts, and quiet, complete deregistration.
NmrInv ==
  /\ TypeOK
  /\ BindingCountExact
  /\ RemovedIsQuiet /\ ImmediateDeregisterIsComplete

\* The inductive invariant: the types, the exact counts, and the stages above.
NmrIInv ==
  /\ TypeOK /\ BindingCountExact
  /\ WorkFits /\ StartsOwned /\ CreatedFits /\ StatusPaired /\ OwedFits
  /\ HeldStages /\ CompletingFits /\ DeregistrationFits

\* Where a binding is in its life, and the sides of it that finished detaching:
\* the status of one side records what the callback of the other one returned.
BindingPhase(b) ==
  CASE b \notin created -> "none"
    [] b \in created \ in_table -> "closed"
    [] b \in in_table /\ client_binding_status[b] = "Start" -> "attaching"
    [] b \in in_table /\ client_binding_status[b] = "Ready" -> "bound"
    [] OTHER -> "detaching"

FinishedSides(b) ==
  {s \in Sides :
     \/ s = "client" /\ provider_binding_status[b] = "UnbindComplete"
     \/ s = "provider" /\ client_binding_status[b] = "UnbindComplete"}

\* The registrar keeps the promise of NmrSpec for every binding: one attach,
\* one detach per side and only after a successful attach, one cleanup after
\* both sides finished, whichever thread records the last completion.
Registrar == INSTANCE NmrSpec WITH
  phase <- [b \in Bindings |-> BindingPhase(b)],
  finished <- [b \in Bindings |-> FinishedSides(b)]

RegistrarSpec == Registrar!Spec

\* Some registration is being removed.
Unfinished == \E r \in Registrations : pc[r] \in {"deactivated", "unbinding", "waiting"}

\* A registration waits to be removed, and begin_unbind passed by one of its
\* bindings, which was still being attached and is now bound: it is left to the
\* deregistration of the other side.
Stranded ==
  \E r \in Registrations :
    pc[r] = "waiting" /\ \E b \in in_table \cap Of(r) : BothReady(b)

\* Every deregistration completes, unless it is stranded and the other side
\* never deregisters; nothing else holds it up.
DeregistrationCompletes == <>[]Unfinished => <>[]Stranded
==============================================================================
