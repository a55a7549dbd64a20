------------------------------- MODULE NmrProofs -------------------------------
(* The registrar keeps NmrInv for every set of clients and providers: the      *)
(* outcome and completion of a detach, the counting facts, the invariant and   *)
(* the refinement of NmrSpec.                                                  *)
EXTENDS NmrSteps, FiniteSetTheorems

\* The callbacks of begin_unbind and what it does when it has the lock again.
LEMMA DetachingKeepsNmrIInv ==
  ASSUME NmrConstants, NmrCounting, NmrIInv, NEW r \in Registrations
  PROVE  (
           \/ ClientDetachProvider(r)
           \/ ProviderDetachClient(r)
           \/ RecordDetach(r)
           \/ FinishUnbind(r)) => NmrIInv'
  <1>1. CASE ClientDetachProvider(r)
    BY <1>1, CallbackKeepsNmrIInv, Zenon DEF ClientDetachProvider, Sides, Steps
  <1>2. CASE ProviderDetachClient(r)
    BY <1>2, CallbackKeepsNmrIInv, Zenon DEF ProviderDetachClient, Sides, Steps
  \* The binding a thread relocks: each side either owes nothing or has returned
  \* STATUS_PENDING, and only one of them has.
  <1>3. CASE RecordDetach(r)
    <2> USE <1>3
    <2> DEFINE b == cur[r]
               ps == Outcome(b, "client", provider_binding_status[b])
               cs == Outcome(b, "provider", client_binding_status[b])
               complete == ps = "UnbindComplete" /\ cs = "UnbindComplete"
               to == IF complete THEN "finish" ELSE "none"
               held == IF complete THEN b ELSE NoBinding
    <2>1. /\ b \in Bindings /\ b \in in_table /\ HeldOnly(r, b) /\ b \notin completing
          /\ step[r] = "relock" /\ cur[r] = b /\ Detaching(b)
          /\ ps \in {"UnbindPending", "UnbindComplete"}
          /\ cs \in {"UnbindPending", "UnbindComplete"}
      <3>1. step[r] = "relock" /\ cur[r] # NoBinding
        BY Zenon DEF RecordDetach, Step
      <3>2. Detaching(b)
        BY <3>1 DEF NmrIInv, HeldStages
      <3>3. QED
        BY <3>1, <3>2, HeldFits, Zenon DEF Outcome
    <2>2. /\ "client" \in incomplete[b] => ps # "UnbindComplete"
          /\ "provider" \in incomplete[b] => cs # "UnbindComplete"
      BY <2>1 DEF NmrIInv, OwedFits, Outcome
    <2>3. /\ pc[r] = "unbinding" /\ cur[r] = b /\ b # NoBinding
          /\ step' = [step EXCEPT ![r] = to]
          /\ provider_binding_status' = [provider_binding_status EXCEPT ![b] = ps]
          /\ client_binding_status' = [client_binding_status EXCEPT ![b] = cs]
          /\ cur' = [cur EXCEPT ![r] = held]
          /\ pending' = [pending EXCEPT ![r] = pending[r] \/ ~complete]
          /\ UNCHANGED <<pc, deregistering, todo, table, async>>
      BY DEF RecordDetach, Step
    <2>4. \/ /\ to = "finish" /\ held = b /\ ps = "UnbindComplete" /\ cs = "UnbindComplete"
          \/ /\ to = "none" /\ held = NoBinding /\ pending'[r] = TRUE
      BY <2>3, Zenon DEF NmrIInv, TypeOK
    <2>5. /\ pending' \in [Registrations -> BOOLEAN]
          /\ \A q \in Registrations : q # r => pending'[q] = pending[q]
          /\ pending[r] => pending'[r]
      BY <2>3, Zenon DEF NmrIInv, TypeOK
    <2> HIDE DEF b, ps, cs, complete, to, held
    <2>6. /\ step'[r] = to /\ cur'[r] = held
          /\ client_binding_status'[b] = cs /\ provider_binding_status'[b] = ps
          /\ \A q \in Registrations : q # r => step'[q] = step[q] /\ cur'[q] = cur[q]
          /\ \A x \in Bindings : x # b =>
               /\ client_binding_status'[x] = client_binding_status[x]
               /\ provider_binding_status'[x] = provider_binding_status[x]
      BY <2>1, <2>3 DEF NmrIInv, TypeOK
    <2>7. TypeOK'
      <3>1. /\ client_binding_status' \in [Bindings -> Statuses]
            /\ provider_binding_status' \in [Bindings -> Statuses]
        BY <2>1, <2>3 DEF NmrIInv, TypeOK, Statuses
      <3>2. /\ step' \in [Registrations -> Steps]
            /\ cur' \in [Registrations -> Bindings \cup {NoBinding}]
        BY <2>1, <2>3, <2>4 DEF NmrIInv, TypeOK, Steps
      <3>3. QED
        BY <2>3, <2>5, <3>1, <3>2, Zenon DEF NmrIInv, TypeOK, table, async
    <2>8. BindingCountExact' /\ CreatedFits'
      BY <2>3, Zenon DEF NmrIInv, BindingCountExact, CreatedFits, table
    <2>9. UNCHANGED <<pc, deregistering, todo, created, in_table, async>>
      BY <2>3, Zenon DEF table
    <2>10. WorkFits'
      BY <2>1, <2>3, <2>4, <2>6, <2>9 DEF NmrIInv, WorkFits, HeldOnly
    <2>11. StartsOwned'
      BY <2>1, <2>4, <2>6, <2>9, NoBindingIsNone
      DEF NmrIInv, StartsOwned, Unheld, Detaching, TypeOK
    <2>12. StatusPaired' /\ OwedFits'
      <3>1. StatusPaired'
        BY <2>1, <2>6, <2>9 DEF NmrIInv, StatusPaired, Detaching, async
      <3>2. OwedFits'
        BY <2>1, <2>2, <2>6, <2>9 DEF NmrIInv, OwedFits, async
      <3>3. QED
        BY <3>1, <3>2, Zenon
    <2>13. HeldStages' /\ CompletingFits'
      <3>1. ASSUME NEW q \in Registrations, q # r, step[q] # "none"
            PROVE  cur[q] # b /\ cur[q] \in Bindings
        BY <2>1, <3>1 DEF NmrIInv, WorkFits, TypeOK, HeldOnly
      <3>2. HeldStages'
        BY <2>4, <2>6, <2>9, <3>1
        DEF NmrIInv, HeldStages, Attaching, Detaching, BothComplete, async
      <3>3. CompletingFits'
        BY <2>1, <2>4, <2>6, <2>9, NoBindingIsNone
        DEF NmrIInv, CompletingFits, BothComplete, Unheld, TypeOK, async
      <3>4. QED
        BY <3>2, <3>3, Zenon
    <2>14. DeregistrationFits'
      BY <2>1, <2>4, <2>5, <2>6, <2>9 DEF NmrIInv, DeregistrationFits, Deregistered
    <2>15. QED
      BY <2>7, <2>8, <2>10, <2>11, <2>12, <2>13, <2>14, Zenon DEF NmrIInv
  <1>4. CASE FinishUnbind(r)
    <2> USE <1>4
    <2> DEFINE b == cur[r]
    <2>1. /\ b \in Bindings /\ b \in in_table /\ b \notin completing
          /\ HeldOnly(r, b)
          /\ client_binding_status[b] # "Ready" /\ incomplete[b] = {}
      BY HeldFits, CompleteOwesNothing DEF FinishUnbind, Step, NmrIInv, HeldStages
    <2>2. /\ pc[r] = "unbinding" /\ unbind_complete(b) /\ Step(r, "finish", "none")
          /\ cur' = [cur EXCEPT ![r] = NoBinding]
          /\ UNCHANGED <<pc, deregistering, todo, pending, status, async>>
      BY DEF FinishUnbind
    <2>3. /\ cur[r] = b
          /\ in_table' = in_table \ {b}
          /\ created' = created
      BY <2>2 DEF unbind_complete
    <2> HIDE DEF b
    <2>4. TypeOK'
      BY <2>2 DEF NmrIInv, TypeOK, Step, Steps, unbind_complete, status, async
    <2>5. BindingCountExact'
      BY <2>1, <2>2, UnbindCompleteCounts
    <2>6. StatusPaired' /\ OwedFits'
      BY <2>1, <2>2, UnbindCompleteFits DEF async
    <2>7. WorkFits'
      BY <2>1, <2>2, <2>3 DEF NmrIInv, WorkFits, HeldOnly, TypeOK, Step
    <2>8. StartsOwned'
      BY <2>2, <2>3, NoBindingIsNone DEF NmrIInv, StartsOwned, Unheld, TypeOK, status
    <2>9. CreatedFits'
      BY <2>2, <2>3 DEF NmrIInv, CreatedFits
    <2>10. HeldStages'
      BY <2>2 DEF NmrIInv, HeldStages, Attaching, Detaching, BothComplete, TypeOK, Step, status, async
    <2>11. CompletingFits'
      BY <2>1, <2>2, <2>3, NoBindingIsNone DEF NmrIInv, CompletingFits, BothComplete, Unheld, TypeOK, status, async
    <2>12. DeregistrationFits'
      BY <2>2, <2>3, ListKept DEF NmrIInv, TypeOK
    <2>13. QED
      BY <2>4, <2>5, <2>6, <2>7, <2>8, <2>9, <2>10, <2>11, <2>12, Zenon DEF NmrIInv
  <1>5. QED
    BY <1>1, <1>2, <1>3, <1>4, Zenon

\* The detach-complete calls.
LEMMA CompletingKeepsNmrIInv ==
  ASSUME NmrConstants, NmrCounting, NmrIInv, NEW b \in Bindings
  PROVE  (
           \/ BindingDetachClientComplete(b)
           \/ BindingDetachProviderComplete(b)
           \/ CompleteUnbind(b)) => NmrIInv'
  \* A completion of the provider: the client did not return STATUS_PENDING, so a
  \* thread that still holds the binding has yet to record its outcome.
  <1>1. CASE BindingDetachClientComplete(b)
    <2> USE <1>1
    <2>1. /\ "provider" \in incomplete[b] /\ b \in in_table
          /\ client_binding_status[b] # "UnbindComplete"
          /\ "provider" \in returned[b]
      BY DEF BindingDetachClientComplete, NmrIInv, OwedFits
    <2>2. "client" \notin returned[b] /\ "client" \notin incomplete[b]
      BY <2>1 DEF NmrIInv, OwedFits, TypeOK, Sides
    <2>3. /\ client_binding_status[b] \notin {"Start", "Ready"}
          /\ provider_binding_status[b] \notin {"Start", "Ready"}
      BY <2>1 DEF NmrIInv, StatusPaired
    <2>4. /\ incomplete' = [incomplete EXCEPT ![b] = @ \ {"provider"}]
          /\ client_binding_status' =
               [client_binding_status EXCEPT ![b] = "UnbindComplete"]
          /\ \/ completing' = completing
             \/ /\ completing' = completing \cup {b}
                /\ provider_binding_status[b] = "UnbindComplete"
          /\ UNCHANGED <<pc, deregistering, todo, cur, pending, table,
                         provider_binding_status, step, returned>>
      BY DEF BindingDetachClientComplete
    <2>5. ASSUME NEW q \in Registrations, cur[q] = b
          PROVE  /\ Detaching(b) /\ step[q] \notin {"none", "attaching", "finish"}
                 /\ provider_binding_status[b] # "UnbindComplete"
      <3>1. step[q] \in Steps /\ step[q] # "none"
        BY <2>5, NoBindingIsNone DEF NmrIInv, TypeOK, WorkFits
      <3>2. step[q] # "attaching" /\ step[q] # "finish"
        BY <2>1, <2>3, <2>5 DEF NmrIInv, HeldStages, Attaching, BothComplete
      <3>3. Detaching(b)
        BY <2>5, <3>1, <3>2 DEF NmrIInv, HeldStages, Steps
      <3>4. QED
        BY <2>2, <3>1, <3>2, <3>3 DEF Detaching
    <2>6. TypeOK'
      <3>1. incomplete' \in [Bindings -> SUBSET Sides] /\ completing' \subseteq Bindings
        BY <2>4 DEF NmrIInv, TypeOK
      <3>2. client_binding_status' \in [Bindings -> Statuses]
        BY <2>4 DEF NmrIInv, TypeOK, Statuses
      <3>3. QED
        BY <2>4, <3>1, <3>2, Zenon DEF NmrIInv, TypeOK, table
    <2>7. BindingCountExact' /\ CreatedFits' /\ WorkFits' /\ DeregistrationFits'
      BY <2>4, Zenon DEF NmrIInv, BindingCountExact, CreatedFits, WorkFits,
                         DeregistrationFits, Deregistered, table
    <2>8. /\ client_binding_status'[b] = "UnbindComplete"
          /\ incomplete'[b] = incomplete[b] \ {"provider"}
          /\ \A x \in Bindings : x # b =>
               /\ client_binding_status'[x] = client_binding_status[x]
               /\ incomplete'[x] = incomplete[x]
          /\ UNCHANGED <<pc, todo, cur, created, in_table, provider_binding_status, step,
                         returned>>
      BY <2>4 DEF NmrIInv, TypeOK, table
    <2>9. StartsOwned'
      BY <2>3, <2>8 DEF NmrIInv, StartsOwned, Unheld, TypeOK
    <2>10. StatusPaired' /\ OwedFits'
      <3>1. StatusPaired'
        BY <2>1, <2>3, <2>8 DEF NmrIInv, StatusPaired
      <3>2. OwedFits'
        BY <2>2, <2>8 DEF NmrIInv, OwedFits
      <3>3. QED
        BY <3>1, <3>2, Zenon
    <2>11. HeldStages'
      <3>1. ASSUME NEW q \in Registrations, step[q] # "none", cur[q] # b
            PROVE  cur[q] \in Bindings
        BY <3>1 DEF NmrIInv, WorkFits, TypeOK
      <3>2. QED
        BY <2>1, <2>5, <2>8, <3>1
        DEF NmrIInv, HeldStages, Attaching, Detaching, BothComplete
    <2>12. CompletingFits'
      <3>1. ASSUME NEW x \in completing
            PROVE  x # b /\ x \in Bindings /\ BothComplete(x) /\ x \in in_table /\ Unheld(x)
        BY <2>1, <3>1 DEF NmrIInv, CompletingFits, BothComplete, TypeOK
      <3>2. provider_binding_status[b] = "UnbindComplete" => Unheld(b)
        BY <2>5 DEF Unheld
      <3>3. QED
        BY <2>1, <2>4, <3>1, <3>2 DEF CompletingFits, BothComplete, Unheld, NmrIInv, TypeOK, table
    <2>13. QED
      BY <2>6, <2>7, <2>8, <2>9, <2>10, <2>11, <2>12, Zenon DEF NmrIInv
  <1>2. CASE BindingDetachProviderComplete(b)
    <2> USE <1>2
    <2>1. /\ "client" \in incomplete[b] /\ b \in in_table
          /\ provider_binding_status[b] # "UnbindComplete"
          /\ "client" \in returned[b]
      BY DEF BindingDetachProviderComplete, NmrIInv, OwedFits
    <2>2. "provider" \notin returned[b] /\ "provider" \notin incomplete[b]
      BY <2>1 DEF NmrIInv, OwedFits, TypeOK, Sides
    <2>3. /\ client_binding_status[b] \notin {"Start", "Ready"}
          /\ provider_binding_status[b] \notin {"Start", "Ready"}
      BY <2>1 DEF NmrIInv, StatusPaired
    <2>4. /\ incomplete' = [incomplete EXCEPT ![b] = @ \ {"client"}]
          /\ provider_binding_status' =
               [provider_binding_status EXCEPT ![b] = "UnbindComplete"]
          /\ \/ completing' = completing
             \/ /\ completing' = completing \cup {b}
                /\ client_binding_status[b] = "UnbindComplete"
          /\ UNCHANGED <<pc, deregistering, todo, cur, pending, table,
                         client_binding_status, step, returned>>
      BY DEF BindingDetachProviderComplete
    <2>5. ASSUME NEW q \in Registrations, cur[q] = b
          PROVE  /\ Detaching(b) /\ step[q] \notin {"none", "attaching", "finish"}
                 /\ client_binding_status[b] # "UnbindComplete"
      <3>1. step[q] \in Steps /\ step[q] # "none"
        BY <2>5, NoBindingIsNone DEF NmrIInv, TypeOK, WorkFits
      <3>2. step[q] # "attaching" /\ step[q] # "finish"
        BY <2>1, <2>3, <2>5 DEF NmrIInv, HeldStages, Attaching, BothComplete
      <3>3. Detaching(b)
        BY <2>5, <3>1, <3>2 DEF NmrIInv, HeldStages, Steps
      <3>4. QED
        BY <2>2, <3>1, <3>2, <3>3 DEF Detaching
    <2>6. TypeOK'
      <3>1. incomplete' \in [Bindings -> SUBSET Sides] /\ completing' \subseteq Bindings
        BY <2>4 DEF NmrIInv, TypeOK
      <3>2. provider_binding_status' \in [Bindings -> Statuses]
        BY <2>4 DEF NmrIInv, TypeOK, Statuses
      <3>3. QED
        BY <2>4, <3>1, <3>2, Zenon DEF NmrIInv, TypeOK, table
    <2>7. BindingCountExact' /\ CreatedFits' /\ WorkFits' /\ DeregistrationFits'
      BY <2>4, Zenon DEF NmrIInv, BindingCountExact, CreatedFits, WorkFits,
                         DeregistrationFits, Deregistered, table
    <2>8. /\ provider_binding_status'[b] = "UnbindComplete"
          /\ incomplete'[b] = incomplete[b] \ {"client"}
          /\ \A x \in Bindings : x # b =>
               /\ provider_binding_status'[x] = provider_binding_status[x]
               /\ incomplete'[x] = incomplete[x]
          /\ UNCHANGED <<pc, todo, cur, created, in_table, client_binding_status, step,
                         returned>>
      BY <2>4 DEF NmrIInv, TypeOK, table
    <2>9. StartsOwned'
      BY <2>3, <2>8 DEF NmrIInv, StartsOwned, Unheld, TypeOK
    <2>10. StatusPaired' /\ OwedFits'
      <3>1. StatusPaired'
        BY <2>1, <2>3, <2>8 DEF NmrIInv, StatusPaired
      <3>2. OwedFits'
        BY <2>2, <2>8 DEF NmrIInv, OwedFits
      <3>3. QED
        BY <3>1, <3>2, Zenon
    <2>11. HeldStages'
      <3>1. ASSUME NEW q \in Registrations, step[q] # "none", cur[q] # b
            PROVE  cur[q] \in Bindings
        BY <3>1 DEF NmrIInv, WorkFits, TypeOK
      <3>2. QED
        BY <2>1, <2>5, <2>8, <3>1
        DEF NmrIInv, HeldStages, Attaching, Detaching, BothComplete
    <2>12. CompletingFits'
      <3>1. ASSUME NEW x \in completing
            PROVE  x # b /\ x \in Bindings /\ BothComplete(x) /\ x \in in_table /\ Unheld(x)
        BY <2>1, <3>1 DEF NmrIInv, CompletingFits, BothComplete, TypeOK
      <3>2. client_binding_status[b] = "UnbindComplete" => Unheld(b)
        BY <2>5 DEF Unheld
      <3>3. QED
        BY <2>1, <2>4, <3>1, <3>2 DEF CompletingFits, BothComplete, Unheld, NmrIInv, TypeOK, table
    <2>13. QED
      BY <2>6, <2>7, <2>8, <2>9, <2>10, <2>11, <2>12, Zenon DEF NmrIInv
  <1>3. CASE CompleteUnbind(b)
    <2> USE <1>3
    <2>1. /\ b \in in_table /\ Unheld(b) /\ BothComplete(b)
          /\ client_binding_status[b] # "Ready" /\ incomplete[b] = {}
      BY CompleteOwesNothing DEF CompleteUnbind, NmrIInv, CompletingFits
    <2>2. /\ unbind_complete(b) /\ completing' = completing \ {b}
          /\ UNCHANGED <<pc, deregistering, todo, cur, pending, status, step,
                         returned, incomplete>>
      BY DEF CompleteUnbind
    <2>3. in_table' = in_table \ {b} /\ created' = created
      BY <2>2 DEF unbind_complete
    <2>4. TypeOK'
      BY <2>2 DEF NmrIInv, TypeOK, unbind_complete, status
    <2>5. BindingCountExact'
      BY <2>1, <2>2, UnbindCompleteCounts
    <2>6. StatusPaired' /\ OwedFits'
      BY <2>1, <2>2, UnbindCompleteFits
    <2>7. WorkFits'
      BY <2>1, <2>2, <2>3 DEF NmrIInv, WorkFits, Unheld
    <2>8. StartsOwned'
      BY <2>1, <2>2, <2>3 DEF NmrIInv, StartsOwned, Unheld, BothComplete, status
    <2>9. CreatedFits'
      BY <2>2, <2>3 DEF NmrIInv, CreatedFits
    <2>10. HeldStages'
      BY <2>2 DEF NmrIInv, HeldStages, Attaching, Detaching, BothComplete, status
    <2>11. CompletingFits'
      BY <2>2, <2>3 DEF NmrIInv, CompletingFits, BothComplete, Unheld, status
    <2>12. DeregistrationFits'
      BY <2>2, <2>3, ListKept DEF NmrIInv
    <2>13. QED
      BY <2>4, <2>5, <2>6, <2>7, <2>8, <2>9, <2>10, <2>11, <2>12, Zenon DEF NmrIInv
  <1>4. QED
    BY <1>1, <1>2, <1>3, Zenon

\* Every step of the registrar keeps the inductive invariant.
LEMMA NextKeepsNmrIInv ==
  ASSUME NmrConstants, NmrCounting, NmrIInv, [Next]_vars
  PROVE  NmrIInv'
  <1>1. CASE UNCHANGED vars
    <2>1. TypeOK' /\ WorkFits' /\ CreatedFits'
      BY <1>1 DEF NmrIInv, TypeOK, WorkFits, CreatedFits, vars, table, status, async
    <2>2. StartsOwned' /\ DeregistrationFits'
      BY <1>1 DEF NmrIInv, StartsOwned, Unheld, DeregistrationFits, Deregistered, vars, table, status
    <2>3. BindingCountExact' /\ StatusPaired' /\ OwedFits' /\ HeldStages' /\ CompletingFits'
      BY <1>1, BindingsKept DEF vars
    <2>4. QED
      BY <2>1, <2>2, <2>3, Zenon DEF NmrIInv
  <1>2. ASSUME NEW r \in Registrations, Add(r) \/ Deactivate(r) \/ RegistrationStep(r)
        PROVE  NmrIInv'
    BY <1>2, RegisteringKeepsNmrIInv, DeregisteringKeepsNmrIInv, DetachingKeepsNmrIInv,
       Zenon DEF RegistrationStep
  <1>3. ASSUME NEW b \in Bindings, CompletionStep(b)
        PROVE  NmrIInv'
    BY <1>3, CompletingKeepsNmrIInv, Zenon DEF CompletionStep
  <1>4. QED
    BY <1>1, <1>2, <1>3, Zenon DEF Next, AllRemoved

-------------------------------------------------------------------------------
(* The sizes of sets of bindings, and the theorems.                            *)
\* There are finitely many bindings: one per client, provider and creator.
LEMMA BindingsFinite ==
  ASSUME NmrConstants
  PROVE  IsFiniteSet(Bindings)
  <1>1. IsFiniteSet(Clients \X Providers)
    BY FS_Product, Zenon DEF NmrConstants
  <1>2. IsFiniteSet((Clients \X Providers) \X {"client", "provider"})
    <2>1. IsFiniteSet({"client"})
      BY FS_Singleton, Zenon
    <2>2. IsFiniteSet({"client", "provider"})
      BY <2>1, FS_AddElement, {"client", "provider"} = {"client"} \cup {"provider"}
    <2>3. QED
      BY <1>1, <2>2, FS_Product
  <1> DEFINE f == [p \in (Clients \X Providers) \X {"client", "provider"} |->
                     <<p[1][1], p[1][2], p[2]>>]
  <1>3. f \in Surjection((Clients \X Providers) \X {"client", "provider"}, Bindings)
    <2>1. f \in [(Clients \X Providers) \X {"client", "provider"} -> Bindings]
      BY DEF Bindings
    <2>2. ASSUME NEW b \in Bindings
          PROVE  \E p \in (Clients \X Providers) \X {"client", "provider"} : f[p] = b
      <3>1. PICK c \in Clients, p \in Providers, s \in {"client", "provider"} :
              b = <<c, p, s>>
        BY DEF Bindings
      <3>2. <<<<c, p>>, s>> \in (Clients \X Providers) \X {"client", "provider"}
        OBVIOUS
      <3>3. f[<<<<c, p>>, s>>] = b
        BY <3>1, <3>2
      <3>4. QED
        BY <3>2, <3>3
    <2> HIDE DEF f
    <2>3. QED
      BY <2>1, <2>2, Zenon DEF Surjection
  <1>4. QED
    BY <1>2, <1>3, FS_Surjection

\* perform_bind's increment of a registration's binding count: the bindings it
\* adds to the map raise the number of those the registration takes part in.
LEMMA CountGrows ==
  ASSUME NmrConstants, NEW S \in SUBSET Bindings, NEW T \in SUBSET Bindings,
         S \cap T = {}, NEW r \in Registrations
  PROVE  Cardinality((S \cup T) \cap Of(r)) =
           Cardinality(S \cap Of(r)) + Cardinality(T \cap Of(r))
  <1>1. IsFiniteSet(S \cap Of(r)) /\ IsFiniteSet(T \cap Of(r))
    BY BindingsFinite, FS_Subset
  <1>2. (S \cup T) \cap Of(r) = (S \cap Of(r)) \cup (T \cap Of(r))
    OBVIOUS
  <1>3. (S \cap Of(r)) \cap (T \cap Of(r)) = {}
    OBVIOUS
  <1> DEFINE A == S \cap Of(r)
             B == T \cap Of(r)
  <1> HIDE DEF A, B
  <1>4. Cardinality(A \cup B) = Cardinality(A) + Cardinality(B) - Cardinality({})
    BY <1>1, <1>3, FS_Union DEF A, B
  <1>5. Cardinality(A) \in Nat /\ Cardinality(B) \in Nat /\ Cardinality({}) = 0
    BY <1>1, FS_CardinalityType, FS_EmptySet DEF A, B
  <1>6. Cardinality(A \cup B) = Cardinality(A) + Cardinality(B)
    BY <1>4, <1>5
  <1>7. QED
    BY <1>2, <1>6, Zenon DEF A, B

\* unbind_complete's decrement: one binding leaves the map, and the count of each
\* of its two registrations falls by one.
LEMMA CountShrinks ==
  ASSUME NmrConstants, NEW S \in SUBSET Bindings, NEW b \in S,
         NEW r \in Registrations
  PROVE  Cardinality((S \ {b}) \cap Of(r)) =
           IF b \in Of(r) THEN Cardinality(S \cap Of(r)) - 1
                          ELSE Cardinality(S \cap Of(r))
  <1>1. IsFiniteSet(S \cap Of(r))
    BY BindingsFinite, FS_Subset
  <1>2. CASE b \in Of(r)
    <2>1. (S \ {b}) \cap Of(r) = (S \cap Of(r)) \ {b}
      OBVIOUS
    <2>2. Cardinality((S \cap Of(r)) \ {b}) = Cardinality(S \cap Of(r)) - 1
      BY <1>1, <1>2, FS_RemoveElement, Zenon
    <2>3. QED
      BY <1>2, <2>1, <2>2
  <1>3. CASE b \notin Of(r)
    <2>1. (S \ {b}) \cap Of(r) = S \cap Of(r)
      BY <1>3
    <2>2. QED
      BY <1>3, <2>1
  <1>4. QED
    BY <1>2, <1>3, Zenon

\* The number of a registration's bindings is a natural number, zero only when
\* none is in the map.
LEMMA CountIsNatural ==
  ASSUME NmrConstants, NEW S \in SUBSET Bindings, NEW r \in Registrations
  PROVE  /\ Cardinality(S \cap Of(r)) \in Nat
         /\ Cardinality(S \cap Of(r)) = 0 <=> S \cap Of(r) = {}
  BY BindingsFinite, FS_Subset, FS_CardinalityType, FS_EmptySet

\* The counting facts that the steps use.
LEMMA CountingHolds ==
  ASSUME NmrConstants
  PROVE  NmrCounting
  <1>1. CountsAdd
    BY CountGrows DEF CountsAdd
  <1>2. CountsDrop
    BY CountShrinks DEF CountsDrop
  <1>3. CountsFit
    BY CountIsNatural DEF CountsFit
  <1>4. QED
    BY <1>1, <1>2, <1>3, Zenon DEF NmrCounting

\* Nothing is registered and no binding exists when the registrar starts.
LEMMA InitEstablishesNmrIInv ==
  ASSUME NmrConstants, Init
  PROVE  NmrIInv
  <1>1. TypeOK
    BY DEF Init, TypeOK, PCs, Statuses, Steps
  <1>2. BindingCountExact
    <2>1. \A r \in Registrations : in_table \cap Of(r) = {} /\ binding_count[r] = 0
      BY DEF Init
    <2>2. QED
      BY <2>1, FS_EmptySet DEF BindingCountExact
  <1>3. WorkFits /\ StartsOwned /\ CreatedFits /\ HeldStages
    BY DEF Init, WorkFits, StartsOwned, CreatedFits, HeldStages
  <1>4. StatusPaired /\ OwedFits /\ CompletingFits /\ DeregistrationFits
    BY DEF Init, StatusPaired, OwedFits, CompletingFits, DeregistrationFits, Deregistered, Sides
  <1>5. QED
    BY <1>1, <1>2, <1>3, <1>4, Zenon DEF NmrIInv

\* The inductive invariant holds of every behaviour of the registrar.
THEOREM NmrInvariant ==
  ASSUME NmrConstants
  PROVE  Spec => []NmrIInv
  <1>0. NmrCounting
    BY CountingHolds
  <1>1. Init => NmrIInv
    BY InitEstablishesNmrIInv
  <1>2. NmrIInv /\ [Next]_vars => NmrIInv'
    BY <1>0, NextKeepsNmrIInv
  <1>3. QED
    BY <1>1, <1>2, PTL DEF Spec

\* NmrInv for every set of clients and providers: the binding count that
\* deregister waits on is the number of the registration's bindings in the map, a
\* registration that was removed has no binding left and no callback of it runs,
\* and a deregister that returned success without waiting left no binding.
THEOREM RegistrarIsExact ==
  ASSUME NmrConstants
  PROVE  Spec => []NmrInv
  <1>1. ASSUME NmrIInv
        PROVE  NmrInv
    <2>1. ASSUME NEW r \in Registrations, Deregistered(r), NEW b \in Of(r)
          PROVE  /\ b \notin in_table \cup completing
                 /\ incomplete[b] = {}
                 /\ \A q \in Registrations : cur[q] # b
      <3>1. b \in Bindings /\ b \notin in_table
        BY <2>1, MadeByBindings DEF Deregistered
      <3>2. b \notin completing
        BY <1>1, <3>1 DEF NmrIInv, CompletingFits
      <3>3. incomplete[b] = {}
        BY <1>1, <3>1 DEF NmrIInv, OwedFits, TypeOK, Sides
      <3>4. \A q \in Registrations : cur[q] # b
        BY <1>1, <3>1, NoBindingIsNone DEF NmrIInv, WorkFits
      <3>5. QED
        BY <3>1, <3>2, <3>3, <3>4
    <2>2. RemovedIsQuiet
      BY <1>1, <2>1 DEF NmrIInv, DeregistrationFits, RemovedIsQuiet
    <2>3. ASSUME NEW r \in Registrations, Deregistered(r)
          PROVE  binding_count[r] = 0
      BY <1>1, <2>3, FS_EmptySet, Zenon DEF NmrIInv, BindingCountExact, Deregistered
    <2>4. ImmediateDeregisterIsComplete
      BY <1>1, <2>3 DEF NmrIInv, DeregistrationFits, ImmediateDeregisterIsComplete
    <2>5. QED
      BY <1>1, <2>2, <2>4, Zenon DEF NmrIInv, NmrInv
  <1>2. QED
    BY <1>1, NmrInvariant, PTL

-------------------------------------------------------------------------------
(* The registrar keeps the promise of NmrSpec.                                 *)

\* Binding b alone changes.
OnlyChanges(b) ==
  \A x \in Bindings : x # b =>
    /\ x \in created' <=> x \in created
    /\ x \in in_table' <=> x \in in_table
    /\ client_binding_status'[x] = client_binding_status[x]
    /\ provider_binding_status'[x] = provider_binding_status[x]

\* The other bindings stay where they are in their lives.
LEMMA OthersStay ==
  ASSUME NEW b \in Bindings, OnlyChanges(b)
  PROVE  \A x \in Bindings : x # b =>
           BindingPhase(x)' = BindingPhase(x) /\ FinishedSides(x)' = FinishedSides(x)
  BY DEF OnlyChanges, BindingPhase, FinishedSides

\* One binding moves to another phase of its life.
LEMMA PhaseMoves ==
  ASSUME NEW b \in Bindings, NEW from, NEW to, OnlyChanges(b),
         BindingPhase(b) = from, BindingPhase(b)' = to,
         FinishedSides(b)' = FinishedSides(b)
  PROVE  /\ Registrar!Move(b, from, to)
         /\ UNCHANGED [x \in Bindings |-> FinishedSides(x)]
  <1>1. \A x \in Bindings : BindingPhase(x)' = IF x = b THEN to ELSE BindingPhase(x)
    BY OthersStay
  <1>2. \A x \in Bindings : FinishedSides(x)' = FinishedSides(x)
    BY OthersStay
  <1>3. QED
    BY <1>1, <1>2, Zenon DEF Registrar!Move

\* Some sides of one binding finish detaching.
LEMMA SidesFinish ==
  ASSUME NEW b \in Bindings, NEW S, OnlyChanges(b),
         BindingPhase(b) = "detaching", BindingPhase(b)' = "detaching",
         FinishedSides(b)' = S,
         \/ S = Sides /\ FinishedSides(b) # Sides
         \/ \E s \in Sides : s \notin FinishedSides(b) /\ S = FinishedSides(b) \cup {s}
  PROVE  Registrar!Next
  <1>1. \A x \in Bindings : BindingPhase(x)' = BindingPhase(x)
    BY OthersStay
  <1>2. \A x \in Bindings : FinishedSides(x)' = IF x = b THEN S ELSE FinishedSides(x)
    BY OthersStay
  <1>3. /\ UNCHANGED [x \in Bindings |-> BindingPhase(x)]
        /\ [x \in Bindings |-> FinishedSides(x)]' =
             [[x \in Bindings |-> FinishedSides(x)] EXCEPT ![b] = S]
    BY <1>1, <1>2, Zenon
  <1>4. CASE S = Sides /\ FinishedSides(b) # Sides
    BY <1>3, <1>4, Zenon DEF Registrar!Next, Registrar!BothFinished, Registrar!Sides, Sides
  <1>5. CASE \E s \in Sides : s \notin FinishedSides(b) /\ S = FinishedSides(b) \cup {s}
    BY <1>3, <1>5, ZenonT(30) DEF Registrar!Next, Registrar!SideFinished, Registrar!Sides, Sides
  <1>6. QED
    BY <1>4, <1>5

\* unbind_complete ends the life of the binding it cleans up.
LEMMA CleanupCloses ==
  ASSUME NmrIInv, NEW b \in Bindings, b \in in_table, unbind_complete(b),
         UNCHANGED status
  PROVE  /\ BindingPhase(b)' = "closed" /\ FinishedSides(b)' = FinishedSides(b)
         /\ OnlyChanges(b)
  BY DEF unbind_complete, status, BindingPhase, FinishedSides, OnlyChanges, NmrIInv, TypeOK

\* The cleanup of a binding both of whose sides are complete is NmrSpec's.
LEMMA CompleteCloses ==
  ASSUME NmrIInv, NEW b \in Bindings, b \in in_table, BothComplete(b),
         unbind_complete(b), UNCHANGED status
  PROVE  Registrar!Next
  <1>1. BindingPhase(b) = "detaching"
    BY DEF BindingPhase, BothComplete, NmrIInv, TypeOK
  <1>2. FinishedSides(b) = Registrar!Sides
    BY DEF FinishedSides, BothComplete, Sides, Registrar!Sides
  <1>3. QED
    BY <1>1, <1>2, CleanupCloses, PhaseMoves, Zenon DEF Registrar!Next, Registrar!Cleanup

\* A step that leaves the map and the statuses alone is invisible in NmrSpec.
LEMMA QuietStepStutters ==
  ASSUME UNCHANGED <<created, in_table, status>>
  PROVE  UNCHANGED Registrar!vars
  <1>1. \A x \in Bindings :
          BindingPhase(x)' = BindingPhase(x) /\ FinishedSides(x)' = FinishedSides(x)
    BY DEF status, BindingPhase, FinishedSides
  <1>2. QED
    BY <1>1, Zenon DEF Registrar!vars

\* Every step of a registration's thread is a step of NmrSpec or a stutter.
LEMMA RegistrationRefines ==
  ASSUME NmrIInv, NEW r \in Registrations,
         Add(r) \/ Deactivate(r) \/ RegistrationStep(r)
  PROVE  [Registrar!Next]_(Registrar!vars)
  <1>1. CASE UNCHANGED <<created, in_table, status>>
    BY <1>1, QuietStepStutters, Zenon
  <1>2. CASE PerformBind(r)
    <2> DEFINE N == NewBindings(r)
    <2>1. N \in SUBSET Bindings /\ N \cap created = {}
      BY <1>2, NewBindingsFit, MadeByBindings DEF PerformBind, Goto, NmrIInv, CreatedFits
    <2>2. /\ created' = created \cup N /\ in_table' = in_table \cup N
          /\ UNCHANGED status
      BY <1>2, Zenon DEF PerformBind
    <2> HIDE DEF N
    <2>3. CASE N = {}
      BY <2>2, <2>3, QuietStepStutters
    <2>4. CASE N # {}
      <3>1. \A x \in Bindings :
              /\ x \in N => BindingPhase(x) = "none"
              /\ BindingPhase(x)' = IF x \in N THEN "attaching" ELSE BindingPhase(x)
              /\ FinishedSides(x)' = FinishedSides(x)
        <4> SUFFICES ASSUME NEW x \in Bindings
                     PROVE  /\ x \in N => BindingPhase(x) = "none"
                            /\ BindingPhase(x)' =
                                 IF x \in N THEN "attaching" ELSE BindingPhase(x)
                            /\ FinishedSides(x)' = FinishedSides(x)
          OBVIOUS
        <4>1. FinishedSides(x)' = FinishedSides(x)
          BY <2>2 DEF FinishedSides, status
        <4>2. CASE x \in N
          <5>1. x \notin created /\ x \notin in_table /\ client_binding_status[x] = "Start"
            BY <2>1, <4>2 DEF NmrIInv, StatusPaired, TypeOK
          <5>2. BindingPhase(x) = "none"
            BY <5>1 DEF BindingPhase
          <5>3. x \in created' /\ x \in in_table' /\ client_binding_status'[x] = "Start"
            BY <2>2, <4>2, <5>1 DEF status
          <5>4. BindingPhase(x)' = "attaching"
            BY <5>3 DEF BindingPhase
          <5>5. QED
            BY <4>1, <4>2, <5>2, <5>4
        <4>3. CASE x \notin N
          BY <2>2, <4>1, <4>3 DEF BindingPhase, status
        <4>4. QED
          BY <4>2, <4>3, Zenon
      <3>2. Registrar!OfferAll(N)
        BY <2>1, <2>4, <3>1, Zenon DEF Registrar!OfferAll
      <3>3. QED
        BY <2>1, <3>2, Zenon DEF Registrar!Next
    <2>5. QED
      BY <2>3, <2>4
  <1>3. ASSUME NEW b \in Bindings, BeginUnbind(r, b)
        PROVE  Registrar!Next
    <2>1. /\ b \in in_table /\ client_binding_status[b] = "Ready"
          /\ provider_binding_status[b] = "Ready"
      BY <1>3, ReadyIsFree DEF BeginUnbind, BothReady
    <2>2. /\ client_binding_status'[b] = "BeginUnbind"
          /\ provider_binding_status'[b] = "BeginUnbind"
          /\ UNCHANGED <<created, in_table>> /\ OnlyChanges(b)
      BY <1>3 DEF BeginUnbind, table, OnlyChanges, NmrIInv, TypeOK
    <2>3. /\ BindingPhase(b) = "bound" /\ BindingPhase(b)' = "detaching"
          /\ FinishedSides(b)' = FinishedSides(b)
      BY <2>1, <2>2 DEF BindingPhase, FinishedSides, NmrIInv, TypeOK
    <2>4. Registrar!Detach(b)
      BY <2>2, <2>3, PhaseMoves, Zenon DEF Registrar!Detach
    <2>5. QED
      BY <2>4, ZenonT(30) DEF Registrar!Next
  <1>4. ASSUME NEW b \in Bindings, cur[r] = b, b \in in_table, AttachSucceeded(r)
        PROVE  Registrar!Next
    <2>1. client_binding_status[b] = "Start" /\ provider_binding_status[b] = "Start"
      BY <1>4, StartFits, Zenon DEF AttachSucceeded, Step, NmrIInv, HeldStages, Attaching
    <2>2. /\ client_binding_status'[b] = "Ready" /\ provider_binding_status'[b] = "Ready"
          /\ UNCHANGED <<created, in_table>> /\ OnlyChanges(b)
      BY <1>4 DEF AttachSucceeded, table, OnlyChanges, NmrIInv, TypeOK
    <2>3. /\ BindingPhase(b) = "attaching" /\ BindingPhase(b)' = "bound"
          /\ FinishedSides(b)' = FinishedSides(b)
      BY <1>4, <2>1, <2>2 DEF BindingPhase, FinishedSides, NmrIInv, TypeOK
    <2>4. Registrar!Attach(b)
      BY <2>2, <2>3, PhaseMoves, Zenon DEF Registrar!Attach
    <2>5. QED
      BY <2>4, Zenon DEF Registrar!Next
  <1>5. ASSUME NEW b \in Bindings, cur[r] = b, b \in in_table, AttachFailed(r)
        PROVE  Registrar!Next
    <2>1. client_binding_status[b] = "Start"
      BY <1>5 DEF AttachFailed, Step, NmrIInv, HeldStages, Attaching
    <2>2. unbind_complete(b) /\ UNCHANGED status
      BY <1>5, Zenon DEF AttachFailed
    <2>3. BindingPhase(b) = "attaching"
      BY <1>5, <2>1 DEF BindingPhase, NmrIInv, TypeOK
    <2>4. Registrar!Refuse(b)
      BY <1>5, <2>2, <2>3, CleanupCloses, PhaseMoves, Zenon DEF Registrar!Refuse
    <2>5. QED
      BY <2>4, Zenon DEF Registrar!Next
  <1>6. ASSUME NEW b \in Bindings, cur[r] = b, b \in in_table, RecordDetach(r)
        PROVE  Registrar!Next
    <2> DEFINE ps == Outcome(b, "client", provider_binding_status[b])
               cs == Outcome(b, "provider", client_binding_status[b])
    <2>1. Detaching(b) /\ returned[b] \in SUBSET Sides /\ returned[b] # Sides
      BY <1>6 DEF RecordDetach, Step, NmrIInv, HeldStages, OwedFits, TypeOK
    <2>2. /\ provider_binding_status'[b] = ps /\ client_binding_status'[b] = cs
          /\ UNCHANGED <<created, in_table>> /\ OnlyChanges(b)
      BY <1>6 DEF RecordDetach, table, OnlyChanges, NmrIInv, TypeOK
    <2>3. BindingPhase(b) = "detaching" /\ BindingPhase(b)' = "detaching"
      <3>1. b \in created
        BY <1>6 DEF NmrIInv, TypeOK
      <3>2. client_binding_status[b] \notin {"Start", "Ready"} /\ cs \notin {"Start", "Ready"}
        BY <2>1 DEF Detaching, Outcome
      <3>3. QED
        BY <1>6, <2>2, <3>1, <3>2 DEF BindingPhase
    <2>4. /\ "client" \in FinishedSides(b)' <=> ps = "UnbindComplete"
          /\ "provider" \in FinishedSides(b)' <=> cs = "UnbindComplete"
          /\ "client" \in FinishedSides(b) <=> provider_binding_status[b] = "UnbindComplete"
          /\ "provider" \in FinishedSides(b) <=> client_binding_status[b] = "UnbindComplete"
          /\ FinishedSides(b) \in SUBSET Sides /\ FinishedSides(b)' \in SUBSET Sides
      BY <2>2 DEF FinishedSides, Sides
    <2>5. CASE returned[b] = {}
      <3>1. FinishedSides(b) = {} /\ FinishedSides(b)' = Sides
        BY <2>1, <2>4, <2>5 DEF Detaching, Outcome, Sides
      <3>2. QED
        BY <2>2, <2>3, <3>1, SidesFinish, {} # Sides DEF Sides
    <2>6. CASE returned[b] # {}
      <3>1. PICK s \in Sides : s \notin returned[b] /\ \A t \in Sides : t # s => t \in returned[b]
        BY <2>1, <2>6 DEF Sides
      <3>2. s \notin FinishedSides(b) /\ FinishedSides(b)' = FinishedSides(b) \cup {s}
        BY <2>1, <2>4, <3>1 DEF Detaching, Outcome, Sides
      <3>3. QED
        BY <2>2, <2>3, <3>2, SidesFinish, Zenon
    <2>7. QED
      BY <2>5, <2>6
  <1>7. ASSUME NEW b \in Bindings, cur[r] = b, b \in in_table, FinishUnbind(r)
        PROVE  Registrar!Next
    <2>1. BothComplete(b)
      BY <1>7 DEF FinishUnbind, Step, NmrIInv, HeldStages
    <2>2. unbind_complete(b) /\ UNCHANGED status
      BY <1>7, Zenon DEF FinishUnbind
    <2>3. QED
      BY <1>7, <2>1, <2>2, CompleteCloses, Zenon
  <1>8. QED
    <2>1. ASSUME cur[r] # NoBinding
          PROVE  cur[r] \in Bindings /\ cur[r] \in in_table
      BY <2>1, HeldFits, Zenon
    <2>2. CASE \/ AttachSucceeded(r) \/ AttachFailed(r) \/ RecordDetach(r) \/ FinishUnbind(r)
      <3>1. cur[r] # NoBinding
        BY <2>2, Zenon DEF AttachSucceeded, AttachFailed, RecordDetach, FinishUnbind
      <3>2. QED
        BY <1>4, <1>5, <1>6, <1>7, <2>1, <2>2, <3>1, Zenon
    <2>3. CASE \/ Add(r) \/ Deactivate(r) \/ Registered(r) \/ PerformUnbind(r)
               \/ ClientDetachProvider(r) \/ ProviderDetachClient(r)
               \/ Unbound(r) \/ Remove(r)
               \/ \E b \in Bindings : ClientAttachProvider(r, b) \/ UnbindAlreadyStarted(r, b)
      BY <1>1, <2>3, Zenon
      DEF Add, Deactivate, Registered, PerformUnbind, ClientDetachProvider,
          ProviderDetachClient, DetachCallback, Unbound, Remove, ClientAttachProvider,
          UnbindAlreadyStarted, table
    <2>4. QED
      BY <1>2, <1>3, <2>2, <2>3, Zenon DEF RegistrationStep

\* Every completion of a detach is a step of NmrSpec.
LEMMA CompletionRefines ==
  ASSUME NmrIInv, NEW b \in Bindings, CompletionStep(b)
  PROVE  Registrar!Next
  <1>1. ASSUME b \in in_table, client_binding_status[b] \notin {"Start", "Ready"},
               UNCHANGED <<created, in_table>>, OnlyChanges(b),
               \/ /\ client_binding_status[b] # "UnbindComplete"
                  /\ client_binding_status'[b] = "UnbindComplete"
                  /\ provider_binding_status'[b] = provider_binding_status[b]
               \/ /\ provider_binding_status[b] # "UnbindComplete"
                  /\ provider_binding_status'[b] = "UnbindComplete"
                  /\ client_binding_status'[b] = client_binding_status[b]
        PROVE  Registrar!Next
    <2>1. BindingPhase(b) = "detaching" /\ BindingPhase(b)' = "detaching"
      BY <1>1 DEF BindingPhase, NmrIInv, TypeOK
    <2>2. \E s \in Sides : s \notin FinishedSides(b) /\ FinishedSides(b)' = FinishedSides(b) \cup {s}
      BY <1>1 DEF FinishedSides, Sides
    <2>3. QED
      BY <1>1, <2>1, <2>2, SidesFinish, Zenon
  <1>2. CASE BindingDetachClientComplete(b)
    <2>1. /\ b \in in_table /\ client_binding_status[b] # "UnbindComplete"
          /\ client_binding_status[b] \notin {"Start", "Ready"}
      BY <1>2 DEF BindingDetachClientComplete, NmrIInv, OwedFits, StatusPaired
    <2>2. /\ client_binding_status'[b] = "UnbindComplete"
          /\ provider_binding_status'[b] = provider_binding_status[b]
          /\ UNCHANGED <<created, in_table>> /\ OnlyChanges(b)
      BY <1>2 DEF BindingDetachClientComplete, table, OnlyChanges, NmrIInv, TypeOK
    <2>3. QED
      BY <1>1, <2>1, <2>2, Zenon
  <1>3. CASE BindingDetachProviderComplete(b)
    <2>1. /\ b \in in_table /\ provider_binding_status[b] # "UnbindComplete"
          /\ client_binding_status[b] \notin {"Start", "Ready"}
      BY <1>3 DEF BindingDetachProviderComplete, NmrIInv, OwedFits, StatusPaired
    <2>2. /\ provider_binding_status'[b] = "UnbindComplete"
          /\ client_binding_status'[b] = client_binding_status[b]
          /\ UNCHANGED <<created, in_table>> /\ OnlyChanges(b)
      BY <1>3 DEF BindingDetachProviderComplete, table, OnlyChanges, NmrIInv, TypeOK
    <2>3. QED
      BY <1>1, <2>1, <2>2, ZenonT(30)
  <1>4. CASE CompleteUnbind(b)
    <2>1. /\ b \in in_table /\ BothComplete(b) /\ unbind_complete(b) /\ UNCHANGED status
      BY <1>4, Zenon DEF CompleteUnbind, NmrIInv, CompletingFits
    <2>2. QED
      BY <2>1, CompleteCloses, Zenon
  <1>5. QED
    BY <1>2, <1>3, <1>4, Zenon DEF CompletionStep

\* The registrar of nmr_impl.cpp keeps the promise of NmrSpec: a binding is
\* attached at most once, each side is told to detach once and only after the
\* attach succeeded, and the contexts are cleaned up once, after both sides have
\* finished, whichever thread records the last completion.
THEOREM RegistrarRefines ==
  ASSUME NmrConstants
  PROVE  Spec => RegistrarSpec
  <1>1. Init => Registrar!Init
    BY DEF Init, Registrar!Init, BindingPhase, FinishedSides
  <1>2. ASSUME NmrIInv, [Next]_vars
        PROVE  [Registrar!Next]_(Registrar!vars)
    <2>1. CASE UNCHANGED vars
      BY <2>1, QuietStepStutters, Zenon DEF vars, table
    <2>2. QED
      BY <1>2, <2>1, RegistrationRefines, CompletionRefines, Zenon DEF Next, AllRemoved
  <1>3. QED
    BY <1>1, <1>2, NmrInvariant, PTL DEF Spec, RegistrarSpec, Registrar!Spec
===============================================================================
